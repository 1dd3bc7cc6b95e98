------------------------------ MODULE GrantProofs ------------------------------
(***************************************************************************)
(* Proofs about AccessGrants, for any number of threads, workers, grants   *)
(* and troubles: a grant whose revocation was confirmed is refused, and an  *)
(* issued grant is refused for no other reason but a failure.  Every grant  *)
(* has a request id of its own here; without that both fail.               *)
(***************************************************************************)
EXTENDS AccessGrants, Integers, TLAPS

IdsOwned == \A g, h \in Grants : IdOf[g] = IdOf[h] => g = h

AtSave == {"open", "write", "saved"}
AtLook == {"load", "decide", "answered"}

Contents == Record \cup Marks

Saves == [at : AtSave, op : {"issue", "revoke"}, grant : Grants, key : Keys, record : Record]
Looks == [at : AtLook, purpose : {"use", "revoke"}, left : Int, key : Keys,
          seen : Contents \cup {None}, grant : Grants \cup {None},
          issuedBefore : SUBSET Grants, revokedBefore : SUBSET Grants]
Reloads == [at : {"reload"}, grant : Grants, key : Keys]

Unrevoked(contents) == Decoded(contents) /\ ~contents.revoked
Withdrawn(k) == ~Unrevoked(file[k])

(* The saves of request_access for g are over.                             *)
Issuing(t, g) ==
  handler[t].at \in {"open", "write"} /\ handler[t].op = "issue" /\ handler[t].grant = g
Written(g) == g \in requested /\ \A t \in Threads : ~Issuing(t, g)

(* A revocation overtakes no save of its grant, and marks key after key.   *)
SaveSound(t) ==
  handler[t].at \in AtSave =>
    LET h == handler[t] IN
      /\ h \in Saves /\ h.key \in KeysOf(h.grant)
      /\ h.op = "issue" =>
           /\ h.grant \in requested
           /\ h.at = "saved" => Written(h.grant)
      /\ h.op = "revoke" =>
           /\ h.record.revoked /\ Written(h.grant)
           /\ h.at = "saved" \/ h.key = IdOf[h.grant] => Withdrawn(h.grant)
           /\ h.at = "saved" => Withdrawn(IdOf[h.grant])

(* A lookup that reads a live record does so after the saves of its grant, *)
(* and of no grant that was revoked before the request began.              *)
LookSound(t) ==
  handler[t].at \in AtLook =>
    LET h == handler[t] IN
      /\ h \in Looks /\ h.revokedBefore \subseteq revoked
      /\ h.key \in Grants => h.key \in issued
      /\ h.at = "decide" =>
           \A g \in Grants : h.key \in KeysOf(g) /\ Unrevoked(h.seen) =>
             Written(g) /\ g \notin h.revokedBefore
      /\ h.at = "answered" => h.grant \notin h.revokedBefore

ReloadSound(t) ==
  handler[t].at = "reload" =>
    /\ handler[t] \in Reloads
    /\ handler[t].key \in KeysOf(handler[t].grant) /\ Written(handler[t].grant)

GrantType ==
  /\ file \in [Keys -> Contents]
  /\ cache \in [Workers -> [Keys -> Grants \cup {None}]]
  /\ handler = [t \in Threads |-> handler[t]]
  /\ requested \subseteq Grants /\ issued \subseteq Grants /\ revoked \subseteq Grants

CacheSound == \A w \in Workers, k \in Keys : cache[w][k] # None => k \in KeysOf(cache[w][k])

OneIssuer == \A g \in Grants, t, u \in Threads : Issuing(t, g) /\ Issuing(u, g) => t = u

(* The request id is saved last, and a revoked grant stays so.             *)
StoreSound ==
  /\ \A g \in Grants : Unrevoked(file[IdOf[g]]) => Written(g)
  /\ \A g \in issued : Written(g)
  /\ \A g \in revoked : Written(g) /\ Withdrawn(g) /\ Withdrawn(IdOf[g])

IInv ==
  /\ GrantType /\ CacheSound /\ OneIssuer /\ StoreSound
  /\ \A t \in Threads : SaveSound(t) /\ LookSound(t) /\ ReloadSound(t)

-----------------------------------------------------------------------------
LEMMA IdleAt == Idle.at = "idle"
  BY DEF Idle

LEMMA AtApart ==
  ASSUME NEW at
  PROVE  /\ at \in AtSave => at # "idle" /\ at \notin AtLook /\ at # "reload"
         /\ at \in AtLook => at # "idle" /\ at \notin AtSave /\ at # "reload"
         /\ at \in {"idle", "reload"} => at \notin AtSave /\ at \notin AtLook
         /\ at \in {"open", "write"} => at \in AtSave
  BY DEF AtSave, AtLook

(* A grant and its request id, and those of another, are four keys.        *)
LEMMA KeysApart ==
  ASSUME IdsOwned, NEW g \in Grants
  PROVE  /\ g \in Keys /\ IdOf[g] \in Keys /\ IdOf[g] \in Ids
         /\ KeysOf(g) = {g, IdOf[g]} /\ KeysOf(g) \subseteq Keys /\ g # IdOf[g]
         /\ \A h \in Grants : IdOf[h] # g
         /\ \A h \in Grants : g # h => KeysOf(g) \cap KeysOf(h) = {}
  BY GrantsAssumption DEF IdsOwned, KeysOf, Keys

LEMMA InitIInv == ASSUME Init PROVE IInv
<1>1. GrantType
  BY DEF Init, GrantType, Contents, Marks
<1>2. \A t \in Threads : handler[t].at = "idle"
  BY IdleAt DEF Init
<1>3. \A t \in Threads : SaveSound(t) /\ LookSound(t) /\ ReloadSound(t)
  BY <1>2, AtApart DEF SaveSound, LookSound, ReloadSound
<1>4. CacheSound
  BY DEF Init, CacheSound
<1>5. OneIssuer
  BY <1>2 DEF OneIssuer, Issuing
<1>6. StoreSound
  BY GrantsAssumption DEF Init, StoreSound, Unrevoked, Decoded, Readable, Marks, Keys
<1> QED
  BY <1>1, <1>3, <1>4, <1>5, <1>6 DEF IInv

-----------------------------------------------------------------------------
(* What a step of one thread owes the others.                              *)
LEMMA WrittenStays ==
  ASSUME NEW t \in Threads, requested \subseteq requested',
         \A u \in Threads \ {t} : handler'[u] = handler[u],
         \A g \in Grants : Issuing(t, g)' => Issuing(t, g) \/ g \notin requested
  PROVE  \A g \in Grants : Written(g) => Written(g)'
  BY DEF Written, Issuing

LEMMA OthersKeep ==
  ASSUME IInv, NEW u \in Threads, handler'[u] = handler[u],
         requested \subseteq requested', issued \subseteq issued', revoked \subseteq revoked',
         \A g \in Grants : Written(g) => Written(g)',
         \A g \in Grants : \A k \in KeysOf(g) : Written(g) /\ Withdrawn(k) => Withdrawn(k)'
  PROVE  SaveSound(u)' /\ LookSound(u)' /\ ReloadSound(u)'
<1>1. SaveSound(u)'
  <2> SUFFICES ASSUME handler[u].at \in AtSave
               PROVE  SaveSound(u)'
    BY DEF SaveSound
  <2> DEFINE h == handler[u]
  <2>1. /\ h \in Saves /\ h.key \in KeysOf(h.grant) /\ h.grant \in Grants
        /\ h.op = "issue" => h.grant \in requested /\ (h.at = "saved" => Written(h.grant))
        /\ h.op = "revoke" =>
             /\ h.record.revoked /\ Written(h.grant)
             /\ h.at = "saved" \/ h.key = IdOf[h.grant] => Withdrawn(h.grant)
             /\ h.at = "saved" => Withdrawn(IdOf[h.grant])
    BY DEF IInv, SaveSound, Saves
  <2>2. h.grant \in KeysOf(h.grant) /\ IdOf[h.grant] \in KeysOf(h.grant)
    BY DEF KeysOf
  <2>3. h.op = "revoke" /\ Withdrawn(h.grant) => Withdrawn(h.grant)'
    BY <2>1, <2>2 DEF Withdrawn
  <2>4. h.op = "revoke" /\ Withdrawn(IdOf[h.grant]) => Withdrawn(IdOf[h.grant])'
    BY <2>1, <2>2 DEF Withdrawn
  <2>5. Written(h.grant) => Written(h.grant)'
    BY <2>1
  <2> QED
    BY <2>1, <2>3, <2>4, <2>5 DEF SaveSound, Withdrawn, Written, Issuing
<1>2. LookSound(u)'
  BY DEF IInv, LookSound, Written, Issuing
<1>3. ReloadSound(u)'
  BY DEF IInv, ReloadSound, Reloads, Written, Issuing
<1> QED
  BY <1>1, <1>2, <1>3

(* What a step of a thread has to show for the invariant.                  *)
LEMMA StepKeeps ==
  ASSUME IInv, IdsOwned, NEW t \in Threads,
         handler' = [u \in Threads |-> handler'[u]],
         \A u \in Threads \ {t} : handler'[u] = handler[u],
         requested \subseteq requested', requested' \subseteq Grants,
         \A g \in Grants : Issuing(t, g)' => Issuing(t, g) \/ g \notin requested,
         issued \subseteq issued', issued' \subseteq Grants,
         \A g \in issued' : g \in issued \/ Written(g),
         revoked \subseteq revoked', revoked' \subseteq Grants,
         \A g \in revoked' : g \in revoked \/ (Written(g) /\ Withdrawn(g) /\ Withdrawn(IdOf[g])),
         \A g \in Grants : \A k \in KeysOf(g) : Written(g) /\ Withdrawn(k) => Withdrawn(k)',
         \A g \in Grants : Unrevoked(file'[IdOf[g]]) => Unrevoked(file[IdOf[g]]) \/ Written(g)',
         file' \in [Keys -> Contents],
         cache' \in [Workers -> [Keys -> Grants \cup {None}]], CacheSound',
         SaveSound(t)', LookSound(t)', ReloadSound(t)'
  PROVE  IInv'
<1>1. \A g \in Grants : Written(g) => Written(g)'
  BY WrittenStays
<1>2. \A u \in Threads : SaveSound(u)' /\ LookSound(u)' /\ ReloadSound(u)'
  <2>1. ASSUME NEW u \in Threads \ {t} PROVE SaveSound(u)' /\ LookSound(u)' /\ ReloadSound(u)'
    BY <1>1, OthersKeep
  <2> QED
    BY <2>1
<1>3. GrantType'
  BY DEF IInv, GrantType
<1>4. OneIssuer'
  <2>1. ASSUME NEW g \in Grants, NEW u \in Threads \ {t}, Issuing(u, g)', Issuing(t, g)'
        PROVE  FALSE
    <3>1. Issuing(u, g)
      BY <2>1 DEF Issuing
    <3>2. g \in requested
      BY <3>1, AtApart DEF IInv, SaveSound, Issuing
    <3>3. Issuing(t, g)
      BY <2>1, <3>2
    <3> QED
      BY <3>1, <3>3 DEF IInv, OneIssuer
  <2>2. ASSUME NEW g \in Grants, NEW u \in Threads \ {t}, NEW x \in Threads \ {t},
               Issuing(u, g)', Issuing(x, g)'
        PROVE  u = x
    <3>1. Issuing(u, g) /\ Issuing(x, g)
      BY <2>2 DEF Issuing
    <3> QED
      BY <3>1 DEF IInv, OneIssuer
  <2> QED
    BY <2>1, <2>2 DEF OneIssuer
<1>5. StoreSound'
  <2>1. \A g \in Grants : g \in KeysOf(g) /\ IdOf[g] \in KeysOf(g)
    BY DEF KeysOf
  <2>2. \A g \in Grants : Unrevoked(file'[IdOf[g]]) => Written(g)'
    BY <1>1 DEF IInv, StoreSound
  <2>3. \A g \in issued' : Written(g)'
    BY <1>1 DEF IInv, StoreSound
  <2>4. \A g \in revoked' : Written(g) /\ Withdrawn(g) /\ Withdrawn(IdOf[g])
    BY DEF IInv, StoreSound
  <2>5. \A g \in revoked' : Written(g)' /\ Withdrawn(g)' /\ Withdrawn(IdOf[g])'
    BY <1>1, <2>1, <2>4
  <2> QED
    BY <2>2, <2>3, <2>5 DEF StoreSound
<1> QED
  BY <1>2, <1>3, <1>4, <1>5 DEF IInv

(* The steps that touch neither files nor history.                         *)
LEMMA QuietStepKeeps ==
  ASSUME IInv, IdsOwned, NEW t \in Threads,
         handler' = [u \in Threads |-> handler'[u]],
         \A u \in Threads \ {t} : handler'[u] = handler[u],
         \A g \in Grants : Issuing(t, g)' => Issuing(t, g),
         UNCHANGED <<file, requested, issued, revoked>>,
         cache' \in [Workers -> [Keys -> Grants \cup {None}]], CacheSound',
         SaveSound(t)', LookSound(t)', ReloadSound(t)'
  PROVE  IInv'
<1>1. /\ requested \subseteq requested' /\ requested' \subseteq Grants
      /\ issued \subseteq issued' /\ issued' \subseteq Grants /\ issued' = issued
      /\ revoked \subseteq revoked' /\ revoked' \subseteq Grants /\ revoked' = revoked
      /\ file' \in [Keys -> Contents]
  BY DEF IInv, GrantType
<1>2. /\ \A k : Withdrawn(k) => Withdrawn(k)'
      /\ \A g \in Grants : Unrevoked(file'[IdOf[g]]) => Unrevoked(file[IdOf[g]])
  BY DEF Withdrawn
<1> QED
  BY <1>1, <1>2, StepKeeps

LEMMA CacheStays ==
  ASSUME IInv, UNCHANGED cache
  PROVE  cache' \in [Workers -> [Keys -> Grants \cup {None}]] /\ CacheSound'
  BY DEF IInv, GrantType, CacheSound

(* A thread that becomes idle.                                             *)
LEMMA IdleSound ==
  ASSUME NEW t \in Threads, handler'[t] = Idle
  PROVE  /\ SaveSound(t)' /\ LookSound(t)' /\ ReloadSound(t)'
         /\ \A g : ~Issuing(t, g)'
  BY IdleAt, AtApart DEF SaveSound, LookSound, ReloadSound, Issuing

(* How handler changes.                                                    *)
LEMMA HandlerAt ==
  ASSUME IInv, NEW t \in Threads, NEW next, handler' = [handler EXCEPT ![t] = next]
  PROVE  /\ handler' = [u \in Threads |-> handler'[u]] /\ handler'[t] = next
         /\ \A u \in Threads \ {t} : handler'[u] = handler[u]
  BY DEF IInv, GrantType

LEMMA CachedSound ==
  ASSUME IInv, NEW w \in Workers, NEW g \in Grants, cache' = Cached(w, g)
  PROVE  cache' \in [Workers -> [Keys -> Grants \cup {None}]] /\ CacheSound'
  BY GrantsAssumption DEF IInv, GrantType, CacheSound, Cached

LEMMA EvictedSound ==
  ASSUME IInv, NEW w \in Workers, NEW keys, cache' = Evicted(w, keys)
  PROVE  cache' \in [Workers -> [Keys -> Grants \cup {None}]] /\ CacheSound'
  BY GrantsAssumption DEF IInv, GrantType, CacheSound, Evicted

-----------------------------------------------------------------------------
LEMMA RequestAccessKeeps ==
  ASSUME IInv, IdsOwned, NEW t \in Threads, NEW g \in Grants, RequestAccess(t, g)
  PROVE  IInv'
<1> DEFINE record == [grant |-> g, revoked |-> FALSE]
           next == Saving("issue", g, record)
<1>1. /\ next.at = "open" /\ next.op = "issue" /\ next.grant = g /\ next.key = g
      /\ next \in Saves
  BY DEF Saving, FirstKey, Saves, AtSave, Record, Keys
<1>2. /\ handler[t] = Idle /\ g \notin requested /\ requested' = requested \cup {g}
      /\ cache' = Cached(WorkerOf[t], g) /\ handler' = [handler EXCEPT ![t] = next]
      /\ UNCHANGED <<file, issued, revoked>>
  BY DEF RequestAccess
<1> HIDE DEF next
<1>3. /\ handler' = [u \in Threads |-> handler'[u]] /\ handler'[t] = next
      /\ \A u \in Threads \ {t} : handler'[u] = handler[u]
  BY <1>2, HandlerAt
<1>4. \A h \in Grants : Issuing(t, h)' => h = g
  BY <1>1, <1>3 DEF Issuing
<1>5. cache' \in [Workers -> [Keys -> Grants \cup {None}]] /\ CacheSound'
  BY <1>2, CachedSound DEF Workers
<1>6. SaveSound(t)' /\ LookSound(t)' /\ ReloadSound(t)'
  BY <1>1, <1>2, <1>3, AtApart DEF SaveSound, LookSound, ReloadSound, KeysOf
<1>7. /\ requested \subseteq requested' /\ requested' \subseteq Grants
      /\ issued' = issued /\ issued' \subseteq Grants
      /\ revoked' = revoked /\ revoked' \subseteq Grants /\ file' \in [Keys -> Contents]
      /\ \A k : Withdrawn(k) => Withdrawn(k)'
      /\ \A h \in Grants : Unrevoked(file'[IdOf[h]]) => Unrevoked(file[IdOf[h]])
  BY <1>2 DEF IInv, GrantType, Withdrawn
<1> QED
  BY <1>2, <1>3, <1>4, <1>5, <1>6, <1>7, StepKeeps

(* What a thread that saves is about, and that its key is no other grant's. *)
LEMMA SaverOf ==
  ASSUME IInv, IdsOwned, NEW t \in Threads, handler[t].at \in AtSave
  PROVE  LET h == handler[t] IN
         /\ h \in Saves /\ h.grant \in Grants /\ h.key \in Keys /\ h.key \in KeysOf(h.grant)
         /\ h.record \in Record /\ h.op \in {"issue", "revoke"}
         /\ \A g \in Grants : h.key \in KeysOf(g) => g = h.grant
         /\ \A g \in Grants : h.key = IdOf[g] => g = h.grant
         /\ h.key = h.grant \/ h.key = IdOf[h.grant]
         /\ h.grant # IdOf[h.grant]
<1>1. handler[t] \in Saves /\ handler[t].key \in KeysOf(handler[t].grant)
  BY DEF IInv, SaveSound
<1>2. /\ handler[t].grant \in Grants /\ handler[t].key \in Keys
      /\ handler[t].record \in Record /\ handler[t].op \in {"issue", "revoke"}
  BY <1>1 DEF Saves
<1>3. \A g \in Grants : handler[t].key \in KeysOf(g) => g = handler[t].grant
  BY <1>1, <1>2, KeysApart
<1> QED
  BY <1>1, <1>2, <1>3, KeysApart

(* A file that is opened is readable no more.                              *)
LEMMA OpenFileKeeps ==
  ASSUME IInv, IdsOwned, NEW t \in Threads, OpenFile(t)
  PROVE  IInv'
<1> DEFINE h == handler[t]
           next == [handler[t] EXCEPT !.at = "write"]
<1>1. /\ h.at = "open" /\ file' = [file EXCEPT ![h.key] = Partial]
      /\ handler' = [handler EXCEPT ![t] = next]
      /\ UNCHANGED <<cache, requested, issued, revoked>>
  BY DEF OpenFile
<1>2. h.at \in AtSave
  BY <1>1, AtApart
<1>3. h \in Saves /\ h.key \in Keys
  BY <1>2, SaverOf
<1>4. /\ next \in Saves /\ next.at = "write" /\ next.op = h.op /\ next.grant = h.grant
      /\ next.key = h.key /\ next.record = h.record
  BY <1>3 DEF Saves, AtSave
<1>5. SaveSound(t)
  BY DEF IInv
<1> HIDE DEF next, h
<1>6. /\ handler' = [u \in Threads |-> handler'[u]] /\ handler'[t] = next
      /\ \A u \in Threads \ {t} : handler'[u] = handler[u]
  BY <1>1, HandlerAt
<1>7. \A g \in Grants : Issuing(t, g)' => Issuing(t, g)
  BY <1>1, <1>4, <1>6 DEF Issuing, h
<1>8. \A g \in Grants : Written(g) => Written(g)'
  BY <1>1, <1>6, <1>7, WrittenStays
<1>9. /\ file' \in [Keys -> Contents] /\ ~Unrevoked(Partial)
      /\ \A k \in Keys : Unrevoked(file'[k]) => Unrevoked(file[k])
  BY <1>1, <1>3 DEF IInv, GrantType, Contents, Unrevoked, Decoded, Readable, Marks
<1>10. \A g \in Grants : \A k \in KeysOf(g) : Withdrawn(k) => Withdrawn(k)'
  BY <1>9, KeysApart DEF Withdrawn
<1>11. SaveSound(t)' /\ LookSound(t)' /\ ReloadSound(t)'
  <2>1. LookSound(t)' /\ ReloadSound(t)'
    BY <1>4, <1>6, AtApart DEF LookSound, ReloadSound
  <2>2. h.grant \in Grants
    BY <1>3 DEF Saves
  <2>3. Withdrawn(h.grant) => ~Unrevoked(file'[h.grant])
    BY <1>10, <2>2 DEF Withdrawn, KeysOf
  <2>4. SaveSound(t)'
    BY <1>1, <1>2, <1>4, <1>5, <1>6, <1>8, <2>2, <2>3 DEF SaveSound, Withdrawn, h
  <2> QED
    BY <2>1, <2>4
<1>12. cache' \in [Workers -> [Keys -> Grants \cup {None}]] /\ CacheSound'
  BY <1>1, CacheStays
<1>13. /\ requested' = requested /\ requested' \subseteq Grants
       /\ issued' = issued /\ issued' \subseteq Grants
       /\ revoked' = revoked /\ revoked' \subseteq Grants
       /\ \A g \in Grants : Unrevoked(file'[IdOf[g]]) => Unrevoked(file[IdOf[g]])
  BY <1>1, <1>9, KeysApart DEF IInv, GrantType
<1> QED
  BY <1>6, <1>7, <1>9, <1>10, <1>11, <1>12, <1>13, StepKeeps

(* The record is written out under one key, and the thread goes on.        *)
LEMMA AfterSaveAt ==
  ASSUME IInv, IdsOwned, NEW t \in Threads, handler[t].at = "write"
  PROVE  LET h == handler[t]
             next == AfterSave(h) IN
         /\ next \in Saves /\ next.op = h.op /\ next.grant = h.grant /\ next.record = h.record
         /\ \/ h.key = h.grant /\ next.at = "open" /\ next.key = IdOf[h.grant]
            \/ h.key = IdOf[h.grant] /\ h.key # h.grant /\ next.at = "saved" /\ next.key = h.key
<1> DEFINE h == handler[t]
<1>1. /\ h \in Saves /\ h.grant \in Grants
      /\ h.key = h.grant \/ h.key = IdOf[h.grant]
      /\ h.grant # IdOf[h.grant]
  BY AtApart, SaverOf
<1>2. KeysOf(h.grant) = {h.grant, IdOf[h.grant]} /\ KeysOf(h.grant) \subseteq Keys
  BY <1>1, KeysApart
<1> HIDE DEF h
<1>3. CASE h.key = h.grant
  <2>1. (CHOOSE k \in KeysOf(h.grant) : k # h.key) = IdOf[h.grant]
    BY <1>1, <1>2, <1>3
  <2>2. AfterSave(h) = [h EXCEPT !.at = "open", !.key = IdOf[h.grant]]
    BY <1>3, <2>1 DEF AfterSave, FirstKey
  <2>3. IdOf[h.grant] \in Keys
    BY <1>2
  <2> QED
    BY <1>1, <1>3, <2>2, <2>3 DEF Saves, AtSave, h
<1>4. CASE h.key # h.grant
  <2>1. AfterSave(h) = [h EXCEPT !.at = "saved"]
    BY <1>4 DEF AfterSave, FirstKey
  <2> QED
    BY <1>1, <1>4, <2>1 DEF Saves, AtSave, h
<1> QED
  BY <1>3, <1>4

(* A record is live only when request_access wrote it; the one under the   *)
(* request id ends its saves.                                              *)
LEMMA WriteFileKeeps ==
  ASSUME IInv, IdsOwned, NEW t \in Threads, WriteFile(t)
  PROVE  IInv'
<1> DEFINE h == handler[t]
           next == AfterSave(handler[t])
<1>1. PICK contents \in Overwritten(file[h.key], h.record) :
        file' = [file EXCEPT ![h.key] = contents]
  BY DEF WriteFile
<1>2. /\ h.at = "write" /\ handler' = [handler EXCEPT ![t] = next]
      /\ UNCHANGED <<cache, requested, issued, revoked>>
  BY DEF WriteFile
<1>3. /\ next \in Saves /\ next.op = h.op /\ next.grant = h.grant /\ next.record = h.record
      /\ \/ h.key = h.grant /\ next.at = "open" /\ next.key = IdOf[h.grant]
         \/ h.key = IdOf[h.grant] /\ h.key # h.grant /\ next.at = "saved" /\ next.key = h.key
  BY <1>2, AfterSaveAt
<1>4. h.at \in AtSave
  BY <1>2, AtApart
<1>5. /\ h \in Saves /\ h.grant \in Grants /\ h.key \in Keys /\ h.record \in Record
      /\ h.op \in {"issue", "revoke"}
      /\ \A g \in Grants : h.key \in KeysOf(g) => g = h.grant
      /\ \A g \in Grants : h.key = IdOf[g] => g = h.grant
      /\ h.grant # IdOf[h.grant]
  BY <1>4, SaverOf
<1>6. SaveSound(t)
  BY DEF IInv
<1>7. /\ h.op = "issue" => h.grant \in requested /\ Issuing(t, h.grant)
      /\ h.op = "revoke" =>
           /\ h.record.revoked /\ Written(h.grant)
           /\ h.key = IdOf[h.grant] => Withdrawn(h.grant)
  BY <1>2, <1>4, <1>6 DEF SaveSound, Issuing
<1> HIDE DEF next, h
<1>8. /\ handler' = [u \in Threads |-> handler'[u]] /\ handler'[t] = next
      /\ \A u \in Threads \ {t} : handler'[u] = handler[u]
  BY <1>2, HandlerAt
<1>9. \A g \in Grants : Issuing(t, g)' => Issuing(t, g)
  BY <1>2, <1>3, <1>8 DEF Issuing, h
<1>10. \A g \in Grants : Written(g) => Written(g)'
  BY <1>2, <1>8, <1>9, WrittenStays
<1>11. contents \in Contents /\ (Unrevoked(contents) => contents = h.record)
  BY <1>1, <1>5 DEF Overwritten, Contents, Unrevoked, Decoded, Readable, Marks
<1>12. h.op = "revoke" => ~Unrevoked(contents)
  BY <1>7, <1>11 DEF Unrevoked
<1>13. /\ file' \in [Keys -> Contents] /\ file'[h.key] = contents
       /\ \A k \in Keys : k # h.key => file'[k] = file[k]
  BY <1>1, <1>5, <1>11 DEF IInv, GrantType
<1>14. \A g \in Grants : \A k \in KeysOf(g) : Written(g) /\ Withdrawn(k) => Withdrawn(k)'
  <2> SUFFICES ASSUME NEW g \in Grants, NEW k \in KeysOf(g), Written(g), Withdrawn(k)
               PROVE  Withdrawn(k)'
    OBVIOUS
  <2>1. k \in Keys
    BY KeysApart
  <2>2. CASE k = h.key
    <3>1. g = h.grant
      BY <1>5, <2>2
    <3>2. h.op = "revoke"
      BY <1>5, <1>7, <3>1 DEF Written
    <3> QED
      BY <1>12, <1>13, <2>2, <3>2 DEF Withdrawn
  <2>3. CASE k # h.key
    BY <1>13, <2>1, <2>3 DEF Withdrawn
  <2> QED
    BY <2>2, <2>3
<1>15. PICK g \in Grants : g = h.grant
  BY <1>5
<1>16. next.at = "saved" /\ h.op = "issue" => Written(g)'
  <2> SUFFICES ASSUME next.at = "saved", h.op = "issue", NEW u \in Threads, Issuing(u, g)'
               PROVE  FALSE
    BY <1>2, <1>7, <1>15 DEF Written
  <2>1. u # t
    BY <1>3, <1>8 DEF Issuing
  <2>2. Issuing(u, g)
    BY <1>8, <2>1 DEF Issuing
  <2> QED
    BY <1>7, <1>15, <2>1, <2>2 DEF IInv, OneIssuer
<1>17. \A k \in Grants : Unrevoked(file'[IdOf[k]]) => Unrevoked(file[IdOf[k]]) \/ Written(k)'
  <2> SUFFICES ASSUME NEW k \in Grants, Unrevoked(file'[IdOf[k]])
               PROVE  Unrevoked(file[IdOf[k]]) \/ Written(k)'
    OBVIOUS
  <2>1. CASE IdOf[k] = h.key
    <3>1. k = g /\ h.op = "issue" /\ h.key # h.grant
      BY <1>5, <1>12, <1>13, <1>15, <2>1
    <3>2. next.at = "saved"
      BY <1>3, <3>1
    <3> QED
      BY <1>16, <3>1, <3>2
  <2>2. CASE IdOf[k] # h.key
    BY <1>13, <2>2, KeysApart
  <2> QED
    BY <2>1, <2>2
<1>18. SaveSound(t)' /\ LookSound(t)' /\ ReloadSound(t)'
  <2>1. next.at \in AtSave /\ next.key \in KeysOf(next.grant)
    BY <1>3 DEF AtSave, KeysOf
  <2>2. LookSound(t)' /\ ReloadSound(t)'
    BY <1>8, <2>1, AtApart DEF LookSound, ReloadSound
  <2>3. h.op = "issue" => g \in requested' /\ (next.at = "saved" => Written(g)')
    BY <1>2, <1>7, <1>15, <1>16
  <2>4. ASSUME h.op = "revoke"
        PROVE  /\ next.record.revoked /\ Written(g)' /\ Withdrawn(g)'
               /\ next.at = "saved" => Withdrawn(IdOf[g])'
    <3>1. ~Unrevoked(file'[h.key])
      BY <1>12, <1>13, <2>4
    <3>2. h.key = IdOf[g] => Withdrawn(g)'
      BY <1>7, <1>14, <1>15, <2>4 DEF KeysOf
    <3>3. Withdrawn(g)'
      BY <1>3, <1>15, <3>1, <3>2 DEF Withdrawn
    <3>4. next.at = "saved" => Withdrawn(IdOf[g])'
      BY <1>3, <1>15, <3>1 DEF Withdrawn
    <3> QED
      BY <1>3, <1>7, <1>10, <1>15, <2>4, <3>3, <3>4
  <2>5. next.op = h.op /\ next.grant = g
    BY <1>3, <1>15
  <2>6. SaveSound(t)'
    BY <1>3, <1>8, <2>1, <2>3, <2>4, <2>5 DEF SaveSound
  <2> QED
    BY <2>2, <2>6
<1>19. cache' \in [Workers -> [Keys -> Grants \cup {None}]] /\ CacheSound'
  BY <1>2, CacheStays
<1>20. /\ requested' = requested /\ requested' \subseteq Grants
       /\ issued' = issued /\ issued' \subseteq Grants
       /\ revoked' = revoked /\ revoked' \subseteq Grants
  BY <1>2 DEF IInv, GrantType
<1> QED
  BY <1>8, <1>9, <1>13, <1>14, <1>17, <1>18, <1>19, <1>20, StepKeeps

(* A save that raises ends the saves of its grant all the same.            *)
LEMMA SaveFailsKeeps ==
  ASSUME IInv, IdsOwned, NEW t \in Threads, SaveFails(t)
  PROVE  IInv'
<1> DEFINE h == handler[t]
           next == IF handler[t].op = "issue" THEN [handler[t] EXCEPT !.at = "saved"] ELSE Idle
<1>1. /\ h.at \in {"open", "write"} /\ handler' = [handler EXCEPT ![t] = next]
      /\ UNCHANGED <<file, cache, requested, issued, revoked>>
  BY DEF SaveFails
<1>2. h.at \in AtSave
  BY <1>1, AtApart
<1>3. h \in Saves /\ h.grant \in Grants /\ h.key \in KeysOf(h.grant)
  BY <1>2, SaverOf
<1>4. h.op = "issue" =>
        /\ next \in Saves /\ next.at = "saved" /\ next.op = h.op /\ next.grant = h.grant
        /\ next.key = h.key
  BY <1>3 DEF Saves, AtSave
<1>5. h.op # "issue" => next = Idle
  OBVIOUS
<1>6. h.op = "issue" => h.grant \in requested /\ Issuing(t, h.grant)
  BY <1>1, <1>2 DEF IInv, SaveSound, Issuing
<1>7. PICK g \in Grants : g = h.grant
  BY <1>3
<1> HIDE DEF next, h
<1>8. /\ handler' = [u \in Threads |-> handler'[u]] /\ handler'[t] = next
      /\ \A u \in Threads \ {t} : handler'[u] = handler[u]
  BY <1>1, HandlerAt
<1>9. \A k \in Grants : ~Issuing(t, k)'
  BY <1>4, <1>5, <1>8, IdleAt DEF Issuing
<1>10. cache' \in [Workers -> [Keys -> Grants \cup {None}]] /\ CacheSound'
  BY <1>1, CacheStays
<1>11. h.op = "issue" => Written(g)'
  <2> SUFFICES ASSUME h.op = "issue", NEW u \in Threads, Issuing(u, g)'
               PROVE  FALSE
    BY <1>1, <1>6, <1>7 DEF Written
  <2>1. u # t
    BY <1>9
  <2>2. Issuing(u, g)
    BY <1>8, <2>1 DEF Issuing
  <2> QED
    BY <1>6, <1>7, <2>1, <2>2 DEF IInv, OneIssuer
<1>12. SaveSound(t)' /\ LookSound(t)' /\ ReloadSound(t)'
  <2>1. CASE h.op = "issue"
    <3>1. next.at \in AtSave
      BY <1>4, <2>1 DEF AtSave
    <3>2. LookSound(t)' /\ ReloadSound(t)'
      BY <1>8, <3>1, AtApart DEF LookSound, ReloadSound
    <3>3. next.grant = g /\ next.key \in KeysOf(next.grant) /\ g \in requested'
      BY <1>1, <1>3, <1>4, <1>6, <1>7, <2>1
    <3>4. SaveSound(t)'
      BY <1>4, <1>8, <1>11, <2>1, <3>3 DEF SaveSound
    <3> QED
      BY <3>2, <3>4
  <2>2. CASE h.op # "issue"
    BY <1>5, <1>8, <2>2, IdleSound
  <2> QED
    BY <2>1, <2>2
<1> QED
  BY <1>1, <1>8, <1>9, <1>10, <1>12, QuietStepKeeps

(* request_access returns a grant whose saves are over.                    *)
LEMMA ReturnGrantKeeps ==
  ASSUME IInv, IdsOwned, NEW t \in Threads, ReturnGrant(t)
  PROVE  IInv'
<1> DEFINE h == handler[t]
<1>1. /\ h.at = "saved" /\ h.op = "issue" /\ issued' = issued \cup {h.grant}
      /\ handler' = [handler EXCEPT ![t] = Idle]
      /\ UNCHANGED <<file, cache, requested, revoked>>
  BY DEF ReturnGrant
<1>2. h.at \in AtSave
  BY <1>1 DEF AtSave
<1>3. h.grant \in Grants /\ Written(h.grant)
  BY <1>1, <1>2, SaverOf DEF IInv, SaveSound
<1>4. /\ handler' = [u \in Threads |-> handler'[u]] /\ handler'[t] = Idle
      /\ \A u \in Threads \ {t} : handler'[u] = handler[u]
  BY <1>1, HandlerAt
<1>5. /\ SaveSound(t)' /\ LookSound(t)' /\ ReloadSound(t)'
      /\ \A g \in Grants : ~Issuing(t, g)'
  BY <1>4, IdleSound
<1>6. cache' \in [Workers -> [Keys -> Grants \cup {None}]] /\ CacheSound'
  BY <1>1, CacheStays
<1>7. /\ requested' = requested /\ requested' \subseteq Grants
      /\ issued \subseteq issued' /\ issued' \subseteq Grants
      /\ \A g \in issued' : g \in issued \/ Written(g)
      /\ revoked' = revoked /\ revoked' \subseteq Grants
      /\ file' \in [Keys -> Contents]
      /\ \A k : Withdrawn(k) => Withdrawn(k)'
      /\ \A g \in Grants : Unrevoked(file'[IdOf[g]]) => Unrevoked(file[IdOf[g]])
  BY <1>1, <1>3 DEF IInv, GrantType, Withdrawn
<1> QED
  BY <1>4, <1>5, <1>6, <1>7, StepKeeps

(* A confirmed revocation left no live record under either key.            *)
LEMMA ConfirmRevocationKeeps ==
  ASSUME IInv, IdsOwned, NEW t \in Threads, ConfirmRevocation(t)
  PROVE  IInv'
<1> DEFINE h == handler[t]
<1>1. /\ h.at = "saved" /\ h.op = "revoke" /\ revoked' = revoked \cup {h.grant}
      /\ cache' = Evicted(WorkerOf[t], KeysOf(h.grant))
      /\ handler' = [handler EXCEPT ![t] = Idle]
      /\ UNCHANGED <<file, requested, issued>>
  BY DEF ConfirmRevocation
<1>2. h.at \in AtSave
  BY <1>1 DEF AtSave
<1>3. h.grant \in Grants /\ Written(h.grant) /\ Withdrawn(h.grant) /\ Withdrawn(IdOf[h.grant])
  BY <1>1, <1>2, SaverOf DEF IInv, SaveSound
<1>4. /\ handler' = [u \in Threads |-> handler'[u]] /\ handler'[t] = Idle
      /\ \A u \in Threads \ {t} : handler'[u] = handler[u]
  BY <1>1, HandlerAt
<1>5. /\ SaveSound(t)' /\ LookSound(t)' /\ ReloadSound(t)'
      /\ \A g \in Grants : ~Issuing(t, g)'
  BY <1>4, IdleSound
<1>6. cache' \in [Workers -> [Keys -> Grants \cup {None}]] /\ CacheSound'
  BY <1>1, EvictedSound DEF Workers
<1>7. /\ requested' = requested /\ requested' \subseteq Grants
      /\ issued' = issued /\ issued' \subseteq Grants
      /\ revoked \subseteq revoked' /\ revoked' \subseteq Grants
      /\ \A g \in revoked' : g \in revoked \/ (Written(g) /\ Withdrawn(g) /\ Withdrawn(IdOf[g]))
      /\ file' \in [Keys -> Contents]
      /\ \A k : Withdrawn(k) => Withdrawn(k)'
      /\ \A g \in Grants : Unrevoked(file'[IdOf[g]]) => Unrevoked(file[IdOf[g]])
  BY <1>1, <1>3 DEF IInv, GrantType, Withdrawn
<1> QED
  BY <1>4, <1>5, <1>6, <1>7, StepKeeps

-----------------------------------------------------------------------------
(* The steps that end a request and change nothing else.                   *)
LEMMA EndingKeeps ==
  ASSUME IInv, IdsOwned, NEW t \in Threads, handler' = [handler EXCEPT ![t] = Idle],
         UNCHANGED <<file, cache, requested, issued, revoked>>
  PROVE  IInv'
<1>1. /\ handler' = [u \in Threads |-> handler'[u]] /\ handler'[t] = Idle
      /\ \A u \in Threads \ {t} : handler'[u] = handler[u]
  BY HandlerAt
<1>2. /\ SaveSound(t)' /\ LookSound(t)' /\ ReloadSound(t)'
      /\ \A g \in Grants : ~Issuing(t, g)'
  BY <1>1, IdleSound
<1>3. cache' \in [Workers -> [Keys -> Grants \cup {None}]] /\ CacheSound'
  BY CacheStays
<1> QED
  BY <1>1, <1>2, <1>3, QuietStepKeeps

(* A token is looked up once it was issued.                                *)
LEMMA LookupKeeps ==
  ASSUME IInv, IdsOwned, NEW t \in Threads, NEW k \in Keys, NEW purpose \in {"use", "revoke"},
         Lookup(t, k, purpose)
  PROVE  IInv'
<1> DEFINE next ==
      [at |-> "load", purpose |-> purpose, left |-> IF purpose = "use" THEN 1 ELSE 3,
       key |-> k, seen |-> None, grant |-> None,
       issuedBefore |-> IF purpose = "use" THEN issued ELSE {},
       revokedBefore |-> IF purpose = "use" THEN revoked ELSE {}]
<1>1. /\ k \in issued \cup Ids /\ handler' = [handler EXCEPT ![t] = next]
      /\ UNCHANGED <<file, cache, requested, issued, revoked>>
  BY DEF Lookup
<1>2. /\ next \in Looks /\ next.at = "load" /\ next.key = k
      /\ next.revokedBefore \subseteq revoked
  BY DEF IInv, GrantType, Looks, AtLook
<1>3. k \in Grants => k \in issued
  BY <1>1, GrantsAssumption
<1> HIDE DEF next
<1>4. /\ handler' = [u \in Threads |-> handler'[u]] /\ handler'[t] = next
      /\ \A u \in Threads \ {t} : handler'[u] = handler[u]
  BY <1>1, HandlerAt
<1>5. next.at \in AtLook
  BY <1>2 DEF AtLook
<1>6. SaveSound(t)' /\ ReloadSound(t)'
  BY <1>4, <1>5, AtApart DEF SaveSound, ReloadSound
<1>7. LookSound(t)'
  BY <1>1, <1>2, <1>3, <1>4 DEF LookSound
<1>8. \A g \in Grants : ~Issuing(t, g)'
  BY <1>2, <1>4 DEF Issuing
<1>9. cache' \in [Workers -> [Keys -> Grants \cup {None}]] /\ CacheSound'
  BY <1>1, CacheStays
<1> QED
  BY <1>1, <1>4, <1>6, <1>7, <1>8, <1>9, QuietStepKeeps

(* What a load may see.  A live record was read after the saves of its     *)
(* grant, which was not revoked when the request began.                    *)
LEMMA SightKeeps ==
  ASSUME IInv, IdsOwned, NEW t \in Threads, handler[t].at = "load",
         NEW seen \in {file[handler[t].key], None},
         handler' = Looking(t, seen), UNCHANGED <<file, cache, requested, issued, revoked>>
  PROVE  IInv'
<1> DEFINE h == handler[t]
           next == [handler[t] EXCEPT !.at = "decide", !.seen = seen]
<1>1. h.at \in AtLook /\ handler' = [handler EXCEPT ![t] = next]
  BY DEF AtLook, Looking
<1>2. /\ h \in Looks /\ h.key \in Keys /\ h.revokedBefore \subseteq revoked
      /\ h.key \in Grants => h.key \in issued
  BY <1>1 DEF IInv, LookSound, Looks
<1>3. seen \in Contents \cup {None}
  BY <1>2 DEF IInv, GrantType
<1>4. /\ next \in Looks /\ next.at = "decide" /\ next.key = h.key /\ next.seen = seen
      /\ next.revokedBefore = h.revokedBefore
  BY <1>2, <1>3 DEF Looks, AtLook
<1>5. ASSUME NEW g \in Grants, h.key \in KeysOf(g), Unrevoked(seen)
      PROVE  Written(g) /\ g \notin h.revokedBefore
  <2>1. seen = file[h.key]
    BY <1>5 DEF Unrevoked, Decoded
  <2>2. h.key = g \/ h.key = IdOf[g]
    BY <1>5 DEF KeysOf
  <2>3. Written(g)
    BY <1>2, <1>5, <2>1, <2>2 DEF IInv, StoreSound
  <2>4. g \in revoked => ~Unrevoked(file[g]) /\ ~Unrevoked(file[IdOf[g]])
    BY DEF IInv, StoreSound, Withdrawn
  <2> QED
    BY <1>2, <1>5, <2>1, <2>2, <2>3, <2>4
<1> HIDE DEF next, h
<1>6. /\ handler' = [u \in Threads |-> handler'[u]] /\ handler'[t] = next
      /\ \A u \in Threads \ {t} : handler'[u] = handler[u]
  BY <1>1, HandlerAt
<1>7. \A g \in Grants : ~Issuing(t, g)'
  BY <1>4, <1>6 DEF Issuing
<1>8. \A g \in Grants : Written(g) => Written(g)'
  BY <1>6, <1>7, WrittenStays
<1>9. next.at \in AtLook
  BY <1>4 DEF AtLook
<1>10. SaveSound(t)' /\ ReloadSound(t)'
  BY <1>6, <1>9, AtApart DEF SaveSound, ReloadSound
<1>11. LookSound(t)'
  <2>1. \A g \in Grants : next.key \in KeysOf(g) /\ Unrevoked(next.seen) =>
          Written(g)' /\ g \notin next.revokedBefore
    BY <1>4, <1>5, <1>8
  <2> QED
    BY <1>2, <1>4, <1>6, <2>1 DEF LookSound
<1>12. cache' \in [Workers -> [Keys -> Grants \cup {None}]] /\ CacheSound'
  BY CacheStays
<1> QED
  BY <1>6, <1>7, <1>10, <1>11, <1>12, QuietStepKeeps

(* A lookup that got a grant got one that was not revoked.                 *)
LEMMA ContinuationKeeps ==
  ASSUME IInv, IdsOwned, NEW t \in Threads, handler[t].at = "decide",
         NEW a \in Grants \cup {None},
         a # None => Written(a) /\ a \notin handler[t].revokedBefore,
         NEW next \in Continuations(handler[t], a),
         handler' = [handler EXCEPT ![t] = next], UNCHANGED <<file, requested, issued, revoked>>,
         cache' \in [Workers -> [Keys -> Grants \cup {None}]], CacheSound'
  PROVE  IInv'
<1> DEFINE h == handler[t]
<1>1. h.at \in AtLook
  BY DEF AtLook
<1>2. /\ h \in Looks /\ h.revokedBefore \subseteq revoked
      /\ h.key \in Grants => h.key \in issued
  BY <1>1 DEF IInv, LookSound
<1>3. h.revokedBefore \subseteq Grants /\ None \notin Grants /\ h.left \in Int
  BY <1>2, GrantsAssumption DEF Looks
<1>4. /\ handler' = [u \in Threads |-> handler'[u]] /\ handler'[t] = next
      /\ \A u \in Threads \ {t} : handler'[u] = handler[u]
  BY HandlerAt
<1>5. \/ next = Idle
      \/ a \in Grants /\ next = [at |-> "reload", grant |-> a, key |-> a]
      \/ next = [h EXCEPT !.at = "answered", !.grant = a]
      \/ \E n \in Int : next = [h EXCEPT !.at = "load", !.left = n, !.seen = None]
  <2>1. h.left - 1 \in Int
    BY <1>3
  <2> QED
    BY <2>1 DEF Continuations
<1>6. \A g \in Grants : ~Issuing(t, g)'
  <2>1. next.at \in {"idle", "reload", "answered", "load"}
    <3>1. next = Idle => next.at = "idle"
      BY IdleAt
    <3>2. next = [h EXCEPT !.at = "answered", !.grant = a] => next.at = "answered"
      BY <1>2 DEF Looks
    <3>3. (\E n \in Int : next = [h EXCEPT !.at = "load", !.left = n, !.seen = None])
            => next.at = "load"
      BY <1>2 DEF Looks
    <3>4. next = [at |-> "reload", grant |-> a, key |-> a] => next.at = "reload"
      OBVIOUS
    <3> QED
      BY <1>5, <3>1, <3>2, <3>3, <3>4, Zenon
  <2> QED
    BY <1>4, <2>1 DEF Issuing
<1>7. \A g \in Grants : Written(g) => Written(g)'
  BY <1>4, <1>6, WrittenStays
<1>8. SaveSound(t)' /\ LookSound(t)' /\ ReloadSound(t)'
  <2>1. CASE next = Idle
    BY <1>4, <2>1, IdleSound
  <2>2. CASE a \in Grants /\ next = [at |-> "reload", grant |-> a, key |-> a]
    <3>1. /\ next.at = "reload" /\ next \in Reloads /\ next.grant = a
          /\ next.key \in KeysOf(next.grant)
      BY <2>2 DEF Reloads, KeysOf, Keys
    <3>2. SaveSound(t)' /\ LookSound(t)'
      BY <1>4, <3>1, AtApart DEF SaveSound, LookSound
    <3>3. Written(a)'
      BY <1>3, <1>7, <2>2
    <3>4. ReloadSound(t)'
      BY <1>4, <3>1, <3>3 DEF ReloadSound
    <3> QED
      BY <3>2, <3>4
  <2>3. CASE next = [h EXCEPT !.at = "answered", !.grant = a]
    <3>1. /\ next \in Looks /\ next.at = "answered" /\ next.grant = a /\ next.key = h.key
          /\ next.revokedBefore = h.revokedBefore /\ next.at \in AtLook
      BY <1>2, <2>3 DEF Looks, AtLook
    <3>2. SaveSound(t)' /\ ReloadSound(t)'
      BY <1>4, <3>1, AtApart DEF SaveSound, ReloadSound
    <3>3. a \notin h.revokedBefore
      BY <1>3
    <3>4. LookSound(t)'
      BY <1>2, <1>4, <3>1, <3>3 DEF LookSound
    <3> QED
      BY <3>2, <3>4
  <2>4. ASSUME NEW n \in Int, next = [h EXCEPT !.at = "load", !.left = n, !.seen = None]
        PROVE  SaveSound(t)' /\ LookSound(t)' /\ ReloadSound(t)'
    <3>1. /\ next \in Looks /\ next.at = "load" /\ next.key = h.key
          /\ next.revokedBefore = h.revokedBefore /\ next.at \in AtLook
      BY <1>2, <2>4 DEF Looks, AtLook
    <3>2. SaveSound(t)' /\ ReloadSound(t)'
      BY <1>4, <3>1, AtApart DEF SaveSound, ReloadSound
    <3>3. LookSound(t)'
      BY <1>2, <1>4, <3>1 DEF LookSound
    <3> QED
      BY <3>2, <3>3
  <2> QED
    BY <1>5, <2>1, <2>2, <2>3, <2>4
<1> QED
  BY <1>4, <1>6, <1>8, QuietStepKeeps

LEMMA RefuseGrantKeeps ==
  ASSUME IInv, IdsOwned, NEW t \in Threads, RefuseGrant(t)
  PROVE  IInv'
<1>1. PICK next \in Continuations(handler[t], None) : handler' = [handler EXCEPT ![t] = next]
  BY DEF RefuseGrant
<1>2. /\ handler[t].at = "decide" /\ UNCHANGED <<file, requested, issued, revoked>>
      /\ cache' = Evicted(WorkerOf[t], Dropped(handler[t].seen, handler[t].key))
  BY DEF RefuseGrant
<1>3. cache' \in [Workers -> [Keys -> Grants \cup {None}]] /\ CacheSound'
  BY <1>2, EvictedSound DEF Workers
<1> QED
  BY <1>1, <1>2, <1>3, ContinuationKeeps

(* Cached or stored, the grant has the key that was looked up.             *)
LEMMA AcceptGrantKeeps ==
  ASSUME IInv, IdsOwned, NEW t \in Threads, AcceptGrant(t)
  PROVE  IInv'
<1> DEFINE h == handler[t]
           known == cache[WorkerOf[t]][handler[t].key]
           a == IF known = None THEN handler[t].seen.grant ELSE known
<1>1. PICK next \in Continuations(handler[t], a) : handler' = [handler EXCEPT ![t] = next]
  BY DEF AcceptGrant
<1>2. /\ h.at = "decide" /\ Live(h.seen, h.key) /\ UNCHANGED <<file, requested, issued, revoked>>
      /\ cache' = IF known = None THEN Cached(WorkerOf[t], h.seen.grant) ELSE cache
  BY DEF AcceptGrant
<1>3. h.at \in AtLook
  BY <1>2 DEF AtLook
<1>4. /\ h \in Looks /\ h.key \in Keys /\ h.seen \in Contents \cup {None}
      /\ \A g \in Grants : h.key \in KeysOf(g) /\ Unrevoked(h.seen) =>
           Written(g) /\ g \notin h.revokedBefore
  BY <1>2, <1>3 DEF IInv, LookSound, Looks
<1>5. Unrevoked(h.seen) /\ h.seen.grant # None /\ h.key \in KeysOf(h.seen.grant)
  BY <1>2 DEF Live, Unrevoked
<1>6. h.seen.grant \in Grants
  BY <1>4, <1>5 DEF Unrevoked, Decoded, Readable, Contents, Record
<1>7. known # None => known \in Grants /\ h.key \in KeysOf(known)
  BY <1>4 DEF IInv, GrantType, CacheSound, Workers
<1>8. a \in Grants /\ h.key \in KeysOf(a)
  BY <1>5, <1>6, <1>7
<1>9. Written(a) /\ a \notin h.revokedBefore
  BY <1>4, <1>5, <1>8
<1>10. cache' \in [Workers -> [Keys -> Grants \cup {None}]] /\ CacheSound'
  <2>1. CASE known = None
    BY <1>2, <1>6, <2>1, CachedSound DEF Workers
  <2>2. CASE known # None
    BY <1>2, <2>2, CacheStays
  <2> QED
    BY <2>1, <2>2
<1> HIDE DEF a, known
<1> QED
  BY <1>1, <1>2, <1>8, <1>9, <1>10, ContinuationKeeps

(* The record that revoke_access_contract saves is a revoked one.          *)
LEMMA LoadForRevokeKeeps ==
  ASSUME IInv, IdsOwned, NEW t \in Threads, LoadForRevoke(t)
  PROVE  IInv'
<1> DEFINE h == handler[t]
           contents == file[handler[t].key]
           next == IF Readable(contents) THEN Saving("revoke", h.grant, [contents EXCEPT !.revoked = TRUE])
                   ELSE IF h.key = h.grant THEN [h EXCEPT !.key = IdOf[h.grant]]
                   ELSE Saving("revoke", h.grant, [grant |-> None, revoked |-> TRUE])
<1>1. /\ h.at = "reload" /\ handler' = [handler EXCEPT ![t] = next]
      /\ UNCHANGED <<file, cache, requested, issued, revoked>>
  BY DEF LoadForRevoke
<1>2. /\ h \in Reloads /\ h.grant \in Grants /\ h.key \in Keys
      /\ h.key \in KeysOf(h.grant) /\ Written(h.grant)
  BY <1>1 DEF IInv, ReloadSound, Reloads
<1>3. PICK g \in Grants : g = h.grant
  BY <1>2
<1>4. g \in Keys /\ IdOf[g] \in Keys /\ g # IdOf[g]
  BY KeysApart
<1>5. contents \in Contents
  BY <1>2 DEF IInv, GrantType
<1>6. \/ next \in Reloads /\ next.at = "reload" /\ next.grant = g /\ next.key = IdOf[g]
      \/ next \in Saves /\ next.at = "open" /\ next.op = "revoke" /\ next.grant = g
         /\ next.key = g /\ next.record.revoked
  <2>1. ASSUME NEW record \in Record, record.revoked
        PROVE  LET s == Saving("revoke", g, record) IN
               s \in Saves /\ s.at = "open" /\ s.op = "revoke" /\ s.grant = g
               /\ s.key = g /\ s.record.revoked
    BY <1>4, <2>1 DEF Saving, FirstKey, Saves, AtSave
  <2>2. CASE Readable(contents)
    <3>1. [contents EXCEPT !.revoked = TRUE] \in Record /\ [contents EXCEPT !.revoked = TRUE].revoked
      BY <1>5, <2>2 DEF Readable, Contents, Record
    <3>2. next = Saving("revoke", g, [contents EXCEPT !.revoked = TRUE])
      BY <1>3, <2>2
    <3> HIDE DEF next
    <3> QED
      BY <2>1, <3>1, <3>2
  <2>3. CASE ~Readable(contents) /\ h.key = h.grant
    BY <1>2, <1>3, <1>4, <2>3 DEF Reloads
  <2>4. CASE ~Readable(contents) /\ h.key # h.grant
    <3>1. [grant |-> None, revoked |-> TRUE] \in Record /\ [grant |-> None, revoked |-> TRUE].revoked
      BY DEF Record
    <3>2. next = Saving("revoke", g, [grant |-> None, revoked |-> TRUE])
      BY <1>3, <2>4
    <3> HIDE DEF next
    <3> QED
      BY <2>1, <3>1, <3>2
  <2> QED
    BY <2>2, <2>3, <2>4
<1> HIDE DEF next, h
<1>7. /\ handler' = [u \in Threads |-> handler'[u]] /\ handler'[t] = next
      /\ \A u \in Threads \ {t} : handler'[u] = handler[u]
  BY <1>1, HandlerAt
<1>8. \A k \in Grants : ~Issuing(t, k)'
  BY <1>6, <1>7 DEF Issuing
<1>9. Written(g)'
  BY <1>1, <1>2, <1>3, <1>7, <1>8, WrittenStays
<1>10. cache' \in [Workers -> [Keys -> Grants \cup {None}]] /\ CacheSound'
  BY <1>1, CacheStays
<1>11. SaveSound(t)' /\ LookSound(t)' /\ ReloadSound(t)'
  <2>1. g \in KeysOf(g) /\ IdOf[g] \in KeysOf(g)
    BY DEF KeysOf
  <2>2. CASE next \in Reloads /\ next.at = "reload" /\ next.grant = g /\ next.key = IdOf[g]
    <3>1. SaveSound(t)' /\ LookSound(t)'
      BY <1>7, <2>2, AtApart DEF SaveSound, LookSound
    <3>2. ReloadSound(t)'
      BY <1>7, <1>9, <2>1, <2>2 DEF ReloadSound
    <3> QED
      BY <3>1, <3>2
  <2>3. CASE next \in Saves /\ next.at = "open" /\ next.op = "revoke" /\ next.grant = g
             /\ next.key = g /\ next.record.revoked
    <3>1. next.at \in AtSave
      BY <2>3 DEF AtSave
    <3>2. LookSound(t)' /\ ReloadSound(t)'
      BY <1>7, <3>1, AtApart DEF LookSound, ReloadSound
    <3>3. SaveSound(t)'
      BY <1>4, <1>7, <1>9, <2>1, <2>3 DEF SaveSound
    <3> QED
      BY <3>2, <3>3
  <2> QED
    BY <1>6, <2>2, <2>3
<1> QED
  BY <1>1, <1>7, <1>8, <1>10, <1>11, QuietStepKeeps

-----------------------------------------------------------------------------
(* A death ends the requests of one worker and empties its cache.          *)
LEMMA CrashKeeps ==
  ASSUME IInv, IdsOwned, NEW w \in Workers, Crash(w)
  PROVE  IInv'
<1>1. /\ cache' = [cache EXCEPT ![w] = [k \in Keys |-> None]]
      /\ handler' = [t \in Threads |-> IF t \in {u \in Threads : WorkerOf[u] = w} THEN Idle ELSE handler[t]]
      /\ UNCHANGED <<file, requested, issued, revoked>>
  BY DEF Crash
<1>2. /\ handler' = [t \in Threads |-> handler'[t]]
      /\ \A t \in Threads : handler'[t] = Idle \/ handler'[t] = handler[t]
  BY <1>1
<1>3. \A t \in Threads, g \in Grants : Issuing(t, g)' => Issuing(t, g)
  <2> SUFFICES ASSUME NEW t \in Threads, NEW g \in Grants, Issuing(t, g)'
               PROVE  Issuing(t, g)
    OBVIOUS
  <2>1. handler'[t] # Idle
    BY IdleSound
  <2> QED
    BY <1>2, <2>1 DEF Issuing
<1>4. \A g \in Grants : Written(g) => Written(g)'
  BY <1>1, <1>3 DEF Written
<1>5. \A k : Withdrawn(k) => Withdrawn(k)'
  BY <1>1 DEF Withdrawn
<1>6. \A t \in Threads : SaveSound(t)' /\ LookSound(t)' /\ ReloadSound(t)'
  <2>1. ASSUME NEW t \in Threads, handler'[t] = Idle
        PROVE  SaveSound(t)' /\ LookSound(t)' /\ ReloadSound(t)'
    BY <2>1, IdleSound
  <2>2. ASSUME NEW t \in Threads, handler'[t] = handler[t]
        PROVE  SaveSound(t)' /\ LookSound(t)' /\ ReloadSound(t)'
    BY <1>1, <1>4, <1>5, <2>2, OthersKeep
  <2> QED
    BY <1>2, <2>1, <2>2
<1>7. GrantType' /\ CacheSound'
  BY <1>1, <1>2 DEF IInv, GrantType, CacheSound
<1>8. OneIssuer'
  BY <1>3 DEF IInv, OneIssuer
<1>9. StoreSound'
  BY <1>1, <1>4, <1>5 DEF IInv, GrantType, StoreSound
<1> QED
  BY <1>6, <1>7, <1>8, <1>9 DEF IInv

LEMMA StepKeepsIInv ==
  ASSUME IInv, IdsOwned, NEW t \in Threads, Step(t)
  PROVE  IInv'
<1>1. ASSUME NEW g \in Grants, RequestAccess(t, g) PROVE IInv'
  BY <1>1, RequestAccessKeeps
<1>2. ASSUME NEW k \in Keys, NEW purpose \in {"use", "revoke"}, Lookup(t, k, purpose) PROVE IInv'
  BY <1>2, LookupKeeps
<1>3. CASE OpenFile(t)
  BY <1>3, OpenFileKeeps
<1>4. CASE WriteFile(t)
  BY <1>4, WriteFileKeeps
<1>5. CASE SaveFails(t)
  BY <1>5, SaveFailsKeeps
<1>6. CASE ReturnGrant(t)
  BY <1>6, ReturnGrantKeeps
<1>7. CASE LoadGrant(t)
  BY <1>7, SightKeeps DEF LoadGrant
<1>8. CASE LoadRaises(t)
  BY <1>8, SightKeeps DEF LoadRaises
<1>9. CASE RefuseGrant(t)
  BY <1>9, RefuseGrantKeeps
<1>10. CASE AcceptGrant(t)
  BY <1>10, AcceptGrantKeeps
<1>11. CASE Respond(t)
  BY <1>11, EndingKeeps DEF Respond
<1>12. CASE LoadForRevoke(t)
  BY <1>12, LoadForRevokeKeeps
<1>13. CASE LoadForRevokeRaises(t)
  BY <1>13, EndingKeeps DEF LoadForRevokeRaises
<1>14. CASE ConfirmRevocation(t)
  BY <1>14, ConfirmRevocationKeeps
<1> QED
  BY <1>1, <1>2, <1>3, <1>4, <1>5, <1>6, <1>7, <1>8, <1>9, <1>10, <1>11, <1>12, <1>13, <1>14
  DEF Step

(* A stuttering step changes nothing that the invariant reads.             *)
LEMMA StutterKeeps ==
  ASSUME IInv, UNCHANGED grantVars
  PROVE  IInv'
<1>1. UNCHANGED <<file, cache, handler, requested, issued, revoked>>
  BY DEF grantVars
<1>2. \A k : Withdrawn(k)' = Withdrawn(k)
  BY <1>1 DEF Withdrawn
<1>3. \A t, g : Issuing(t, g)' = Issuing(t, g)
  BY <1>1 DEF Issuing
<1>4. \A g : Written(g)' = Written(g)
  BY <1>1, <1>3 DEF Written
<1>5. GrantType' /\ CacheSound' /\ OneIssuer' /\ StoreSound'
  BY <1>1, <1>2, <1>3, <1>4 DEF IInv, GrantType, CacheSound, OneIssuer, StoreSound
<1>6. \A t \in Threads : SaveSound(t)' /\ LookSound(t)' /\ ReloadSound(t)'
  BY <1>1, <1>2, <1>4 DEF IInv, SaveSound, LookSound, ReloadSound
<1> QED
  BY <1>5, <1>6 DEF IInv

(* In every reachable state of request_access, get_access_contract and     *)
(* revoke_access_contract (services/capability_registry_service.py), the   *)
(* record under a request id is live only after the saves of its grant,    *)
(* no save of the grant is left that would overwrite a revocation, and     *)
(* neither file of a revoked grant holds a live record.                    *)
THEOREM GrantIInv ==
  ASSUME IdsOwned
  PROVE  Spec => []IInv
<1>1. Init => IInv
  BY InitIInv
<1>2. IInv /\ [Next]_grantVars => IInv'
  <2> SUFFICES ASSUME IInv, [Next]_grantVars
               PROVE  IInv'
    OBVIOUS
  <2>1. ASSUME NEW w \in Workers, Crash(w) PROVE IInv'
    BY <2>1, CrashKeeps
  <2>2. ASSUME NEW t \in Threads, Step(t) PROVE IInv'
    BY <2>2, StepKeepsIInv
  <2>3. CASE UNCHANGED grantVars
    BY <2>3, StutterKeeps
  <2> QED
    BY <2>1, <2>2, <2>3 DEF Next
<1> QED
  BY <1>1, <1>2, PTL DEF Spec

(* get_access_contract (services/capability_registry_service.py) returns   *)
(* no grant whose revocation was confirmed before the request began, by    *)
(* token or by request id, whatever the worker's own cache holds, whichever *)
(* saves and loads raise and whichever workers die.                        *)
THEOREM RevokedStayRefused ==
  ASSUME IdsOwned
  PROVE  Spec => []RevokedIsRefused
<1>1. IInv => RevokedIsRefused
  BY DEF IInv, LookSound, AtLook, RevokedIsRefused
<1>2. Spec => []IInv
  BY GrantIInv
<1> QED
  BY <1>1, <1>2, PTL
-----------------------------------------------------------------------------
(* What explains a refusal of a grant.                                     *)
Marked == begun \cup troubled

Whole(k) == Live(file[k], k)

(* As long as nothing explains a refusal of its grant, request_access      *)
(* leaves a live record under one key after the other.                     *)
IssueKept(t) ==
  handler[t].at \in AtSave =>
    LET h == handler[t] IN
      /\ h.op = "issue" /\ h.grant \notin Marked =>
           /\ h.record = [grant |-> h.grant, revoked |-> FALSE]
           /\ h.at = "write" => file[h.key] = Partial
           /\ h.at = "saved" \/ h.key = IdOf[h.grant] => Whole(h.grant)
           /\ h.at = "saved" => Whole(IdOf[h.grant])
      /\ h.op = "revoke" /\ h.at = "write" => h.grant \in begun

(* A lookup saw a live record of every grant issued before it.             *)
LookKept(t) ==
  handler[t].at \in AtLook =>
    LET h == handler[t] IN
      /\ h.issuedBefore \subseteq issued
      /\ h.at = "decide" /\ h.seen # None =>
           \A g \in h.issuedBefore \ Marked : h.key \in KeysOf(g) => Live(h.seen, h.key)
      /\ h.at = "answered" /\ h.grant = None /\ h.seen # None =>
           \A g \in h.issuedBefore : h.key \in KeysOf(g) => g \in Marked

IssuedKept == \A g \in issued \ Marked : Whole(g) /\ Whole(IdOf[g])

KeptInv == IssuedKept /\ \A t \in Threads : IssueKept(t) /\ LookKept(t)

LEMMA InitKept == ASSUME Init PROVE KeptInv
<1>1. \A t \in Threads : handler[t].at = "idle"
  BY IdleAt DEF Init
<1> QED
  BY <1>1, AtApart DEF Init, KeptInv, IssuedKept, IssueKept, LookKept

(* A step leaves the others be when it writes no file of a grant that is   *)
(* issued, or being issued by another.                                     *)
LEMMA OthersKept ==
  ASSUME KeptInv, IInv, NEW u \in Threads, handler'[u] = handler[u],
         issued \subseteq issued', begun \subseteq begun', troubled \subseteq troubled',
         \A g \in Grants : g \notin Marked' /\ (Written(g) \/ Issuing(u, g)) =>
           file'[g] = file[g] /\ file'[IdOf[g]] = file[IdOf[g]]
  PROVE  IssueKept(u)' /\ LookKept(u)'
<1>1. Marked \subseteq Marked'
  BY DEF Marked
<1>2. IssueKept(u)'
  <2> SUFFICES ASSUME handler[u].at \in AtSave
               PROVE  IssueKept(u)'
    BY DEF IssueKept
  <2> DEFINE h == handler[u]
  <2>1. /\ h \in Saves /\ h.key \in KeysOf(h.grant)
        /\ h.op = "issue" /\ h.at = "saved" => Written(h.grant)
    BY DEF IInv, SaveSound
  <2>2. h.grant \in Grants /\ h.at \in AtSave
    BY <2>1 DEF Saves
  <2>3. h.op = "issue" => Written(h.grant) \/ Issuing(u, h.grant)
    BY <2>1, <2>2 DEF Issuing, AtSave
  <2>4. h.op = "issue" /\ h.grant \notin Marked' =>
          file'[h.grant] = file[h.grant] /\ file'[IdOf[h.grant]] = file[IdOf[h.grant]]
    BY <2>2, <2>3
  <2>5. h.key = h.grant \/ h.key = IdOf[h.grant]
    BY <2>1 DEF KeysOf
  <2>6. IssueKept(u)
    BY DEF KeptInv
  <2> QED
    BY <1>1, <2>2, <2>4, <2>5, <2>6 DEF IssueKept, Whole
<1>3. LookKept(u)'
  <2>1. LookKept(u)
    BY DEF KeptInv
  <2> QED
    BY <1>1, <2>1 DEF LookKept
<1> QED
  BY <1>2, <1>3

(* What a step of a thread has to show.                                    *)
LEMMA StepKept ==
  ASSUME KeptInv, IInv, NEW t \in Threads,
         \A u \in Threads \ {t} : handler'[u] = handler[u],
         issued \subseteq issued', begun \subseteq begun', troubled \subseteq troubled',
         \A g \in Grants : g \notin Marked' /\ (Written(g) \/ \E u \in Threads \ {t} : Issuing(u, g)) =>
           file'[g] = file[g] /\ file'[IdOf[g]] = file[IdOf[g]],
         \A g \in issued' \ Marked' : g \in issued \/ (Whole(g)' /\ Whole(IdOf[g])'),
         IssueKept(t)', LookKept(t)'
  PROVE  KeptInv'
<1>1. ASSUME NEW u \in Threads \ {t} PROVE IssueKept(u)' /\ LookKept(u)'
  BY OthersKept
<1>2. IssuedKept'
  <2> SUFFICES ASSUME NEW g \in issued, g \notin Marked'
               PROVE  Whole(g)' /\ Whole(IdOf[g])'
    BY DEF IssuedKept
  <2>1. g \in Grants /\ Written(g)
    BY DEF IInv, StoreSound, GrantType
  <2>2. file'[g] = file[g] /\ file'[IdOf[g]] = file[IdOf[g]]
    BY <2>1
  <2>3. Whole(g) /\ Whole(IdOf[g])
    BY DEF KeptInv, IssuedKept, Marked
  <2> QED
    BY <2>2, <2>3 DEF Whole
<1> QED
  BY <1>1, <1>2 DEF KeptInv

(* The steps that touch neither the files nor what is issued.              *)
LEMMA QuietStepKept ==
  ASSUME KeptInv, IInv, NEW t \in Threads, NEW next, handler' = [handler EXCEPT ![t] = next],
         UNCHANGED <<file, issued>>, begun \subseteq begun', troubled \subseteq troubled',
         IssueKept(t)', LookKept(t)'
  PROVE  KeptInv'
<1>1. \A u \in Threads \ {t} : handler'[u] = handler[u]
  BY HandlerAt
<1> QED
  BY <1>1, StepKept

(* The ends of requests.                                                   *)
LEMMA IdleKept ==
  ASSUME NEW t \in Threads, handler'[t] = Idle
  PROVE  IssueKept(t)' /\ LookKept(t)'
  BY IdleAt, AtApart DEF IssueKept, LookKept

LEMMA RequestAccessKept ==
  ASSUME KeptInv, IInv, IdsOwned, NEW t \in Threads, NEW g \in Grants, RequestAccess(t, g)
  PROVE  KeptInv'
<1> DEFINE record == [grant |-> g, revoked |-> FALSE]
           next == Saving("issue", g, record)
<1>1. /\ next.at = "open" /\ next.op = "issue" /\ next.grant = g /\ next.key = g
      /\ next.record = record
  BY DEF Saving, FirstKey
<1>2. handler' = [handler EXCEPT ![t] = next] /\ UNCHANGED <<file, issued, begun, troubled>>
  BY DEF RequestAccess
<1>3. g # IdOf[g]
  BY KeysApart
<1> HIDE DEF next
<1>4. handler'[t] = next
  BY <1>2, HandlerAt
<1>5. IssueKept(t)'
  BY <1>1, <1>3, <1>4 DEF IssueKept
<1>6. LookKept(t)'
  BY <1>1, <1>4, AtApart DEF LookKept
<1> QED
  BY <1>2, <1>5, <1>6, QuietStepKept

LEMMA LookupKept ==
  ASSUME KeptInv, IInv, NEW t \in Threads, NEW k, NEW purpose, Lookup(t, k, purpose)
  PROVE  KeptInv'
<1>1. PICK next : next =
        [at |-> "load", purpose |-> purpose, left |-> IF purpose = "use" THEN 1 ELSE 3,
         key |-> k, seen |-> None, grant |-> None,
         issuedBefore |-> IF purpose = "use" THEN issued ELSE {},
         revokedBefore |-> IF purpose = "use" THEN revoked ELSE {}]
  OBVIOUS
<1>2. next.at = "load" /\ next.issuedBefore \subseteq issued
  BY <1>1
<1>3. handler' = [handler EXCEPT ![t] = next] /\ UNCHANGED <<file, issued, begun, troubled>>
  BY <1>1 DEF Lookup
<1>4. handler'[t] = next
  BY <1>3, HandlerAt
<1>5. IssueKept(t)' /\ LookKept(t)'
  BY <1>2, <1>3, <1>4, AtApart DEF IssueKept, LookKept, AtSave
<1> QED
  BY <1>3, <1>5, QuietStepKept

-----------------------------------------------------------------------------
(* A file is opened or written by the one thread that issues its grant, or *)
(* by a revocation that has begun.                                         *)
LEMMA SaverSpares ==
  ASSUME IInv, IdsOwned, NEW t \in Threads, handler[t].at \in {"open", "write"},
         \A k \in Keys : k # handler[t].key => file'[k] = file[k],
         handler[t].op = "revoke" => handler[t].grant \in Marked'
  PROVE  \A g \in Grants : g \notin Marked' /\ (Written(g) \/ \E u \in Threads \ {t} : Issuing(u, g)) =>
           file'[g] = file[g] /\ file'[IdOf[g]] = file[IdOf[g]]
<1> SUFFICES ASSUME NEW g \in Grants, g \notin Marked',
                    Written(g) \/ \E u \in Threads \ {t} : Issuing(u, g)
             PROVE  file'[g] = file[g] /\ file'[IdOf[g]] = file[IdOf[g]]
  OBVIOUS
<1>1. /\ handler[t].op \in {"issue", "revoke"}
      /\ \A h \in Grants : handler[t].key \in KeysOf(h) => h = handler[t].grant
  BY AtApart, SaverOf
<1>2. handler[t].key \notin KeysOf(g)
  <2> SUFFICES ASSUME handler[t].key \in KeysOf(g)
               PROVE  FALSE
    OBVIOUS
  <2>1. g = handler[t].grant /\ handler[t].op = "issue"
    BY <1>1
  <2>2. Issuing(t, g)
    BY <2>1 DEF Issuing
  <2> QED
    BY <2>2 DEF IInv, OneIssuer, Written
<1>3. g \in KeysOf(g) /\ IdOf[g] \in KeysOf(g) /\ g \in Keys /\ IdOf[g] \in Keys
  BY KeysApart DEF KeysOf
<1> QED
  BY <1>2, <1>3

LEMMA OpenFileKept ==
  ASSUME KeptInv, IInv, IdsOwned, NEW t \in Threads, OpenFile(t)
  PROVE  KeptInv'
<1> DEFINE h == handler[t]
<1>1. PICK next : next = [handler[t] EXCEPT !.at = "write"]
  OBVIOUS
<1>2. /\ h.at = "open" /\ file' = [file EXCEPT ![h.key] = Partial]
      /\ handler' = [handler EXCEPT ![t] = next]
      /\ begun' = IF h.op = "revoke" THEN begun \cup {h.grant} ELSE begun
      /\ UNCHANGED <<issued, troubled>>
  BY <1>1 DEF OpenFile
<1>3. /\ h \in Saves /\ h.key \in Keys /\ h.grant \in Grants
      /\ h.key = h.grant \/ h.key = IdOf[h.grant]
      /\ h.grant # IdOf[h.grant]
  BY <1>2, AtApart, SaverOf
<1>4. /\ next.at = "write" /\ next.op = h.op /\ next.grant = h.grant
      /\ next.key = h.key /\ next.record = h.record
  BY <1>1, <1>3 DEF Saves
<1>5. /\ h.op = "issue" /\ h.grant \notin Marked =>
           /\ h.record = [grant |-> h.grant, revoked |-> FALSE]
           /\ h.key = IdOf[h.grant] => Whole(h.grant)
  BY <1>2 DEF KeptInv, IssueKept, AtSave
<1> HIDE DEF h
<1>6. handler'[t] = next /\ \A u \in Threads \ {t} : handler'[u] = handler[u]
  BY <1>2, HandlerAt
<1>7. /\ begun \subseteq begun' /\ Marked \subseteq Marked'
      /\ h.op = "revoke" => h.grant \in begun' /\ h.grant \in Marked'
  BY <1>2 DEF Marked
<1>8. file'[h.key] = Partial /\ \A k \in Keys : k # h.key => file'[k] = file[k]
  BY <1>2, <1>3 DEF IInv, GrantType
<1>9. h.key = IdOf[h.grant] => file'[h.grant] = file[h.grant]
  BY <1>3, <1>8, KeysApart
<1>10. IssueKept(t)'
  <2>1. PICK g \in Grants : g = h.grant
    BY <1>3
  <2>2. h.op = "issue" /\ g \notin Marked' =>
          /\ h.record = [grant |-> g, revoked |-> FALSE]
          /\ h.key = IdOf[g] => Whole(g)'
    BY <1>5, <1>7, <1>9, <2>1 DEF Whole
  <2>3. /\ handler'[t].grant = g /\ handler'[t].at = "write" /\ handler'[t].op = h.op
        /\ handler'[t].record = h.record /\ handler'[t].key = h.key
    BY <1>4, <1>6, <2>1
  <2> QED
    BY <1>7, <1>8, <2>1, <2>2, <2>3 DEF IssueKept
<1>11. LookKept(t)'
  BY <1>4, <1>6, AtApart DEF LookKept
<1>12. \A g \in Grants : g \notin Marked' /\ (Written(g) \/ \E u \in Threads \ {t} : Issuing(u, g)) =>
         file'[g] = file[g] /\ file'[IdOf[g]] = file[IdOf[g]]
  BY <1>2, <1>7, <1>8, SaverSpares DEF h
<1> QED
  BY <1>2, <1>6, <1>7, <1>10, <1>11, <1>12, StepKept
(* What is written over an opened file is the record.                      *)
LEMMA WriteFileKept ==
  ASSUME KeptInv, IInv, IdsOwned, NEW t \in Threads, WriteFile(t)
  PROVE  KeptInv'
<1> DEFINE h == handler[t]
<1>1. PICK contents \in Overwritten(file[h.key], h.record) :
        file' = [file EXCEPT ![h.key] = contents]
  BY DEF WriteFile
<1>2. PICK next : next = AfterSave(handler[t])
  OBVIOUS
<1>3. /\ h.at = "write" /\ handler' = [handler EXCEPT ![t] = next]
      /\ UNCHANGED <<issued, begun, troubled>>
  BY <1>2 DEF WriteFile
<1>4. /\ next.op = h.op /\ next.grant = h.grant /\ next.record = h.record
      /\ \/ h.key = h.grant /\ next.at = "open" /\ next.key = IdOf[h.grant]
         \/ h.key = IdOf[h.grant] /\ h.key # h.grant /\ next.at = "saved" /\ next.key = h.key
  BY <1>2, <1>3, AfterSaveAt
<1>5. h.key \in Keys /\ h.grant \in Grants /\ h.op \in {"issue", "revoke"}
  BY <1>3, AtApart, SaverOf
<1>6. /\ h.op = "issue" /\ h.grant \notin Marked =>
           /\ h.record = [grant |-> h.grant, revoked |-> FALSE]
           /\ file[h.key] = Partial
           /\ h.key = IdOf[h.grant] => Whole(h.grant)
      /\ h.op = "revoke" => h.grant \in begun
  BY <1>3 DEF KeptInv, IssueKept, AtSave
<1>7. PICK g \in Grants : g = h.grant
  BY <1>5
<1>8. g # IdOf[g] /\ g \in Keys /\ IdOf[g] \in Keys /\ g \in KeysOf(g) /\ IdOf[g] \in KeysOf(g)
  BY KeysApart DEF KeysOf
<1>9. file'[h.key] = contents /\ \A k \in Keys : k # h.key => file'[k] = file[k]
  BY <1>1, <1>5 DEF IInv, GrantType
<1>10. g \notin Marked /\ h.op = "issue" => contents = [grant |-> g, revoked |-> FALSE]
  <2>1. h.key = g \/ h.key = IdOf[g]
    BY <1>4, <1>7
  <2>2. Partial # Absent
    BY MarksDistinct
  <2> QED
    BY <1>1, <1>6, <1>7, <2>2 DEF Overwritten
<1>11. handler'[t] = next /\ \A u \in Threads \ {t} : handler'[u] = handler[u]
  BY <1>3, HandlerAt
<1>12. Marked' = Marked
  BY <1>3 DEF Marked
<1>13. IssueKept(t)'
  <2>1. CASE h.op = "revoke"
    BY <1>4, <1>11, <2>1 DEF IssueKept
  <2>2. CASE h.op = "issue" /\ g \in Marked
    BY <1>4, <1>7, <1>11, <1>12, <2>2 DEF IssueKept
  <2>3. CASE h.op = "issue" /\ g \notin Marked
    <3>1. contents = [grant |-> g, revoked |-> FALSE]
      BY <1>10, <2>3
    <3>2. g # None /\ contents \in Record
      BY <3>1, GrantsAssumption DEF Record
    <3>3. Live(contents, g) /\ Live(contents, IdOf[g])
      BY <1>8, <3>1, <3>2, GrantsAssumption DEF Live, Decoded, Readable
    <3>4. next.record = [grant |-> g, revoked |-> FALSE] /\ next.op = "issue" /\ next.grant = g
      BY <1>4, <1>6, <1>7, <2>3
    <3>5. CASE h.key = g /\ next.at = "open" /\ next.key = IdOf[g]
      <4>1. Whole(g)'
        BY <1>8, <1>9, <3>3, <3>5 DEF Whole
      <4> QED
        BY <1>11, <3>4, <3>5, <4>1 DEF IssueKept
    <3>6. CASE h.key = IdOf[g] /\ next.at = "saved" /\ next.key = h.key
      <4>1. Whole(IdOf[g])'
        BY <1>8, <1>9, <3>3, <3>6 DEF Whole
      <4>2. Whole(g)'
        BY <1>6, <1>7, <1>8, <1>9, <2>3, <3>6 DEF Whole
      <4> QED
        BY <1>11, <3>4, <3>6, <4>1, <4>2 DEF IssueKept
    <3> QED
      BY <1>4, <1>7, <3>5, <3>6
  <2> QED
    BY <1>5, <2>1, <2>2, <2>3
<1>14. LookKept(t)'
  BY <1>4, <1>11, AtApart DEF LookKept, AtSave
<1>15. \A k \in Grants : k \notin Marked' /\ (Written(k) \/ \E u \in Threads \ {t} : Issuing(u, k)) =>
         file'[k] = file[k] /\ file'[IdOf[k]] = file[IdOf[k]]
  BY <1>3, <1>6, <1>9, <1>12, SaverSpares DEF Marked
<1> HIDE DEF h
<1> QED
  BY <1>3, <1>11, <1>13, <1>14, <1>15, StepKept

LEMMA SaveFailsKept ==
  ASSUME KeptInv, IInv, IdsOwned, NEW t \in Threads, SaveFails(t)
  PROVE  KeptInv'
<1> DEFINE h == handler[t]
<1>1. PICK next : next = IF h.op = "issue" THEN [h EXCEPT !.at = "saved"] ELSE Idle
  OBVIOUS
<1>2. /\ h.at \in {"open", "write"} /\ handler' = [handler EXCEPT ![t] = next]
      /\ troubled' = troubled \cup {h.grant} /\ UNCHANGED <<file, issued, begun>>
  BY <1>1 DEF SaveFails
<1>3. h \in Saves
  BY <1>2, AtApart, SaverOf
<1>4. h.grant \in Marked'
  BY <1>2 DEF Marked
<1>5. PICK g : g = h.grant
  OBVIOUS
<1>6. handler'[t] = next
  BY <1>2, HandlerAt
<1>7. IssueKept(t)' /\ LookKept(t)'
  <2>1. CASE h.op = "issue"
    <3>1. next.at = "saved" /\ next.op = "issue" /\ next.grant = g
      BY <1>1, <1>3, <1>5, <2>1 DEF Saves
    <3>2. g \in Marked'
      BY <1>2, <1>5 DEF Marked
    <3> QED
      BY <1>6, <3>1, <3>2, AtApart DEF IssueKept, LookKept, AtSave
  <2>2. CASE h.op # "issue"
    BY <1>1, <1>6, <2>2, IdleKept
  <2> QED
    BY <2>1, <2>2
<1> HIDE DEF h
<1>8. troubled \subseteq troubled'
  BY <1>2
<1> QED
  BY <1>2, <1>7, <1>8, QuietStepKept

(* A grant is issued when its saves are over.                              *)
LEMMA ReturnGrantKept ==
  ASSUME KeptInv, IInv, NEW t \in Threads, ReturnGrant(t)
  PROVE  KeptInv'
<1>1. PICK g : g = handler[t].grant
  OBVIOUS
<1>2. /\ handler[t].at = "saved" /\ handler[t].op = "issue"
      /\ handler' = [handler EXCEPT ![t] = Idle]
      /\ issued' = issued \cup {g} /\ UNCHANGED <<file, begun, troubled>>
  BY <1>1 DEF ReturnGrant
<1>3. g \notin Marked => Whole(g) /\ Whole(IdOf[g])
  BY <1>1, <1>2 DEF KeptInv, IssueKept, AtSave
<1>4. g \notin Marked' => Whole(g)' /\ Whole(IdOf[g])'
  BY <1>2, <1>3 DEF Whole, Marked
<1>5. /\ handler'[t] = Idle /\ \A u \in Threads \ {t} : handler'[u] = handler[u]
  BY <1>2, HandlerAt
<1>6. IssueKept(t)' /\ LookKept(t)'
  BY <1>5, IdleKept
<1>7. \A k \in issued' \ Marked' : k \in issued \/ (Whole(k)' /\ Whole(IdOf[k])')
  BY <1>2, <1>4
<1> QED
  BY <1>2, <1>5, <1>6, <1>7, StepKept

-----------------------------------------------------------------------------
(* The store vouches for the grants that nothing marks.                    *)
LEMMA SightKept ==
  ASSUME KeptInv, IInv, IdsOwned, NEW t \in Threads, LoadGrant(t) \/ LoadRaises(t)
  PROVE  KeptInv'
<1> DEFINE h == handler[t]
<1>1. PICK seen : /\ seen = file[h.key] \/ seen = None
                  /\ handler' = Looking(t, seen)
  BY DEF LoadGrant, LoadRaises
<1>2. h.at = "load" /\ UNCHANGED <<file, issued, begun, troubled>>
  BY DEF LoadGrant, LoadRaises
<1>3. PICK next : next = [h EXCEPT !.at = "decide", !.seen = seen]
  OBVIOUS
<1>4. handler' = [handler EXCEPT ![t] = next]
  BY <1>1, <1>3 DEF Looking
<1>5. h.at \in AtLook
  BY <1>2 DEF AtLook
<1>6. h \in Looks /\ h.issuedBefore \subseteq issued
  BY <1>5 DEF IInv, LookSound, KeptInv, LookKept
<1>7. /\ next.at = "decide" /\ next.seen = seen /\ next.key = h.key
      /\ next.issuedBefore = h.issuedBefore
  BY <1>3, <1>6 DEF Looks
<1> HIDE DEF h
<1>8. seen # None => \A g \in h.issuedBefore \ Marked : h.key \in KeysOf(g) => Live(seen, h.key)
  <2> SUFFICES ASSUME seen # None, NEW g \in h.issuedBefore, g \notin Marked, h.key \in KeysOf(g)
               PROVE  Live(seen, h.key)
    OBVIOUS
  <2>1. Whole(g) /\ Whole(IdOf[g])
    BY <1>6 DEF KeptInv, IssuedKept
  <2>2. h.key = g \/ h.key = IdOf[g]
    BY DEF KeysOf
  <2> QED
    BY <1>1, <2>1, <2>2 DEF Whole
<1>9. handler'[t] = next
  BY <1>4, HandlerAt
<1>10. Marked' = Marked
  BY <1>2 DEF Marked
<1>11. IssueKept(t)' /\ LookKept(t)'
  BY <1>2, <1>6, <1>7, <1>8, <1>9, <1>10, AtApart DEF IssueKept, LookKept, AtSave
<1> QED
  BY <1>2, <1>4, <1>11, QuietStepKept

(* The request goes on with the grant it got; it got none only if the      *)
(* stored grant was not live, or the load raised.                          *)
LEMMA ContinuationKept ==
  ASSUME KeptInv, IInv, NEW t \in Threads, handler[t].at = "decide",
         NEW a, a = None => ~Live(handler[t].seen, handler[t].key),
         NEW next \in Continuations(handler[t], a),
         handler' = [handler EXCEPT ![t] = next], UNCHANGED <<file, issued, begun, troubled>>
  PROVE  KeptInv'
<1> DEFINE h == handler[t]
<1>1. h.at \in AtLook
  BY DEF AtLook
<1>2. /\ h \in Looks /\ h.issuedBefore \subseteq issued
      /\ h.seen # None =>
           \A g \in h.issuedBefore \ Marked : h.key \in KeysOf(g) => Live(h.seen, h.key)
  BY <1>1 DEF IInv, LookSound, KeptInv, LookKept
<1>3. handler'[t] = next /\ Marked' = Marked
  BY HandlerAt DEF Marked
<1>4. \/ next = Idle
      \/ next = [at |-> "reload", grant |-> a, key |-> a]
      \/ next = [h EXCEPT !.at = "answered", !.grant = a]
      \/ \E n : next = [h EXCEPT !.at = "load", !.left = n, !.seen = None]
  BY DEF Continuations
<1>5. IssueKept(t)' /\ LookKept(t)'
  <2>1. CASE next = Idle
    BY <1>3, <2>1, IdleKept
  <2>2. CASE next = [at |-> "reload", grant |-> a, key |-> a]
    <3>1. next.at = "reload"
      BY <2>2
    <3> QED
      BY <1>3, <3>1, AtApart DEF IssueKept, LookKept
  <2>3. CASE next = [h EXCEPT !.at = "answered", !.grant = a]
    <3>1. /\ next.at = "answered" /\ next.grant = a /\ next.key = h.key /\ next.seen = h.seen
          /\ next.issuedBefore = h.issuedBefore
      BY <1>2, <2>3 DEF Looks
    <3>2. IssueKept(t)'
      BY <1>3, <3>1 DEF IssueKept, AtSave
    <3>3. LookKept(t)'
      BY <1>2, <1>3, <3>1 DEF LookKept
    <3> QED
      BY <3>2, <3>3
  <2>4. ASSUME NEW n, next = [h EXCEPT !.at = "load", !.left = n, !.seen = None]
        PROVE  IssueKept(t)' /\ LookKept(t)'
    <3>1. next.at = "load" /\ next.issuedBefore = h.issuedBefore
      BY <1>2, <2>4 DEF Looks
    <3> QED
      BY <1>2, <1>3, <3>1 DEF IssueKept, LookKept, AtSave
  <2> QED
    BY <1>4, <2>1, <2>2, <2>3, <2>4
<1> QED
  BY <1>5, QuietStepKept

LEMMA DecisionKept ==
  ASSUME KeptInv, IInv, NEW t \in Threads, RefuseGrant(t) \/ AcceptGrant(t)
  PROVE  KeptInv'
<1>1. CASE RefuseGrant(t)
  <2>1. PICK next \in Continuations(handler[t], None) : handler' = [handler EXCEPT ![t] = next]
    BY <1>1 DEF RefuseGrant
  <2>2. /\ handler[t].at = "decide" /\ ~Live(handler[t].seen, handler[t].key)
        /\ UNCHANGED <<file, issued, begun, troubled>>
    BY <1>1 DEF RefuseGrant
  <2> QED
    BY <2>1, <2>2, ContinuationKept
<1>2. CASE AcceptGrant(t)
  <2>1. PICK a : a = IF cache[WorkerOf[t]][handler[t].key] = None THEN handler[t].seen.grant
                     ELSE cache[WorkerOf[t]][handler[t].key]
    OBVIOUS
  <2>2. PICK next \in Continuations(handler[t], a) : handler' = [handler EXCEPT ![t] = next]
    BY <1>2, <2>1 DEF AcceptGrant
  <2>3. /\ handler[t].at = "decide" /\ Live(handler[t].seen, handler[t].key)
        /\ UNCHANGED <<file, issued, begun, troubled>>
    BY <1>2 DEF AcceptGrant
  <2>4. a # None
    BY <2>1, <2>3 DEF Live
  <2> QED
    BY <2>2, <2>3, <2>4, ContinuationKept
<1> QED
  BY <1>1, <1>2

(* A revocation saves, or looks for the record by the request id.          *)
LEMMA LoadForRevokeKept ==
  ASSUME KeptInv, IInv, NEW t \in Threads, LoadForRevoke(t)
  PROVE  KeptInv'
<1> DEFINE h == handler[t]
<1>1. PICK next : next =
        IF Readable(file[h.key]) THEN Saving("revoke", h.grant, [file[h.key] EXCEPT !.revoked = TRUE])
        ELSE IF h.key = h.grant THEN [h EXCEPT !.key = IdOf[h.grant]]
        ELSE Saving("revoke", h.grant, [grant |-> None, revoked |-> TRUE])
  OBVIOUS
<1>2. /\ h.at = "reload" /\ handler' = [handler EXCEPT ![t] = next]
      /\ UNCHANGED <<file, issued, begun, troubled>>
  BY <1>1 DEF LoadForRevoke
<1>3. h \in Reloads
  BY <1>2 DEF IInv, ReloadSound
<1>4. next.at = "reload" \/ (next.at = "open" /\ next.op = "revoke")
  <2>1. \A g, record : Saving("revoke", g, record).at = "open" /\ Saving("revoke", g, record).op = "revoke"
    BY DEF Saving
  <2>2. PICK other : other = [h EXCEPT !.key = IdOf[h.grant]]
    OBVIOUS
  <2>3. other.at = "reload"
    BY <1>2, <1>3, <2>2 DEF Reloads
  <2>4. \/ next = other
        \/ \E g, record : next = Saving("revoke", g, record)
    BY <1>1, <2>2
  <2> QED
    BY <2>1, <2>3, <2>4
<1>5. handler'[t] = next
  BY <1>2, HandlerAt
<1>6. IssueKept(t)' /\ LookKept(t)'
  BY <1>4, <1>5, AtApart DEF IssueKept, LookKept
<1> QED
  BY <1>2, <1>6, QuietStepKept

LEMMA EndingKept ==
  ASSUME KeptInv, IInv, NEW t \in Threads, Respond(t) \/ LoadForRevokeRaises(t) \/ ConfirmRevocation(t)
  PROVE  KeptInv'
<1>1. /\ handler' = [handler EXCEPT ![t] = Idle]
      /\ UNCHANGED <<file, issued, begun, troubled>>
  BY DEF Respond, LoadForRevokeRaises, ConfirmRevocation
<1>2. handler'[t] = Idle
  BY <1>1, HandlerAt
<1>3. IssueKept(t)' /\ LookKept(t)'
  BY <1>2, IdleKept
<1> QED
  BY <1>1, <1>3, QuietStepKept

(* A death marks the grants it cut a save of.                              *)
LEMMA CrashKept ==
  ASSUME KeptInv, IInv, NEW w \in Workers, Crash(w)
  PROVE  KeptInv'
<1>1. /\ handler' = [t \in Threads |-> IF t \in {u \in Threads : WorkerOf[u] = w} THEN Idle ELSE handler[t]]
      /\ troubled \subseteq troubled' /\ UNCHANGED <<file, issued, begun>>
  BY DEF Crash
<1>2. \A t \in Threads : handler'[t] = Idle \/ handler'[t] = handler[t]
  BY <1>1
<1>3. ASSUME NEW t \in Threads PROVE IssueKept(t)' /\ LookKept(t)'
  <2>1. CASE handler'[t] = Idle
    BY <2>1, IdleKept
  <2>2. CASE handler'[t] = handler[t]
    BY <1>1, <2>2, OthersKept
  <2> QED
    BY <1>2, <2>1, <2>2
<1>4. IssuedKept'
  BY <1>1 DEF KeptInv, IssuedKept, Marked, Whole
<1> QED
  BY <1>3, <1>4 DEF KeptInv

LEMMA NextKept ==
  ASSUME KeptInv, IInv, IdsOwned, [Next]_grantVars
  PROVE  KeptInv'
<1>1. ASSUME NEW t \in Threads, Step(t) PROVE KeptInv'
  <2>1. ASSUME NEW g \in Grants, RequestAccess(t, g) PROVE KeptInv'
    BY <2>1, RequestAccessKept
  <2>2. ASSUME NEW k \in Keys, NEW purpose \in {"use", "revoke"}, Lookup(t, k, purpose) PROVE KeptInv'
    BY <2>2, LookupKept
  <2>3. CASE OpenFile(t)
    BY <2>3, OpenFileKept
  <2>4. CASE WriteFile(t)
    BY <2>4, WriteFileKept
  <2>5. CASE SaveFails(t)
    BY <2>5, SaveFailsKept
  <2>6. CASE ReturnGrant(t)
    BY <2>6, ReturnGrantKept
  <2>7. CASE LoadGrant(t) \/ LoadRaises(t)
    BY <2>7, SightKept
  <2>8. CASE RefuseGrant(t) \/ AcceptGrant(t)
    BY <2>8, DecisionKept
  <2>9. CASE LoadForRevoke(t)
    BY <2>9, LoadForRevokeKept
  <2>10. CASE Respond(t) \/ LoadForRevokeRaises(t) \/ ConfirmRevocation(t)
    BY <2>10, EndingKept
  <2> QED
    BY <1>1, <2>1, <2>2, <2>3, <2>4, <2>5, <2>6, <2>7, <2>8, <2>9, <2>10 DEF Step
<1>2. ASSUME NEW w \in Workers, Crash(w) PROVE KeptInv'
  BY <1>2, CrashKept
<1>3. CASE UNCHANGED grantVars
  <2>1. UNCHANGED <<file, handler, issued, begun, troubled>>
    BY <1>3 DEF grantVars
  <2>2. \A k : Whole(k)' = Whole(k)
    BY <2>1 DEF Whole
  <2>3. Marked' = Marked
    BY <2>1 DEF Marked
  <2> QED
    BY <2>1, <2>2, <2>3 DEF KeptInv, IssuedKept, IssueKept, LookKept
<1> QED
  BY <1>1, <1>2, <1>3 DEF Next

(* get_access_contract (services/capability_registry_service.py) refuses a *)
(* grant that request_access returned before the lookup began only if its  *)
(* revocation has begun to save, a save of it was cut short, or the load   *)
(* raised: no other worker, cache or grant takes it away.                  *)
THEOREM RefusalsExplained ==
  ASSUME IdsOwned
  PROVE  Spec => []RefusalsAreExplained
<1>1. Init => KeptInv
  BY InitKept
<1>2. IInv /\ KeptInv /\ [Next]_grantVars => KeptInv'
  BY NextKept
<1>3. IInv /\ KeptInv => RefusalsAreExplained
  <2> SUFFICES ASSUME KeptInv, NEW t \in Threads,
                      handler[t].at = "answered", handler[t].grant = None, handler[t].seen # None
               PROVE  \A g \in handler[t].issuedBefore :
                        handler[t].key \in KeysOf(g) => g \in begun \cup troubled
    BY DEF RefusalsAreExplained
  <2> QED
    BY DEF KeptInv, LookKept, AtLook, Marked
<1>4. Spec => []IInv
  BY GrantIInv
<1> QED
  BY <1>1, <1>2, <1>3, <1>4, PTL DEF Spec
=============================================================================
