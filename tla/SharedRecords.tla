---------------------------- MODULE SharedRecords ----------------------------
(***************************************************************************)
(* The shared data platform (services/shared_record_store.py and the       *)
(* services of shared_platform_services.py): records with a version, a     *)
(* deprecation flag and a history of transitions, one file each.  Every    *)
(* change loads the record, decides, and saves it whole, without a lock.   *)
(* A payload is the set of required fields it has.                         *)
(***************************************************************************)
EXTENDS Naturals, FiniteSets, Sequences

CONSTANTS SThreads,    \* request threads
          Records,     \* record ids: <<service, name>>
          RequiredOf,  \* the required fields of each service
          NoRecord,    \* no file
          MaxChanges   \* bound: requests that load a record

Payloads == UNION {SUBSET RequiredOf[r[1]] : r \in Records}

(* What a record file holds. *)
Transitions == [version : Nat, action : {"REGISTERED", "UPDATED", "DEPRECATED"}]

SharedRecord ==
  [payload : Payloads, version : Nat,
   deprecated : BOOLEAN, history : Seq(Transitions)]

ASSUME NoRecordAssumption == NoRecord \notin SharedRecord

VARIABLES shared,    \* the record files
          sjob,      \* what each thread does
          saves,     \* history variable: saves per record that were confirmed
          withdrawn, \* history variable: records a client was told are deprecated
          raced,     \* history variable: records two requests changed at a time
          changes    \* requests so far, bounded

sharedVars == <<shared, sjob, saves, withdrawn, raced, changes>>

NotBusy == [at |-> "idle"]

SharedInit ==
  /\ shared = [r \in Records |-> NoRecord]
  /\ sjob = [t \in SThreads |-> NotBusy]
  /\ saves = [r \in Records |-> 0]
  /\ withdrawn = {} /\ raced = {} /\ changes = 0

-----------------------------------------------------------------------------
(* _validate_payload *)
Valid(r, payload) == RequiredOf[r[1]] \subseteq payload

Transition(version, action) == [version |-> version, action |-> action]

FirstRecord(payload) ==
  [payload |-> payload, version |-> 1, deprecated |-> FALSE,
   history |-> <<Transition(1, "REGISTERED")>>]

Updates(record, payload) ==
  [record EXCEPT !.payload = payload, !.version = @ + 1,
                 !.history = Append(@, Transition(record.version + 1, "UPDATED"))]

Deprecates(record) ==
  [record EXCEPT !.deprecated = TRUE, !.version = @ + 1,
                 !.history = Append(@, Transition(record.version + 1, "DEPRECATED"))]

(* update and deprecate refuse a record that is deprecated, or missing.    *)
MayChange(record) == record # NoRecord /\ ~record.deprecated

Busy(r) == \E t \in SThreads : sjob[t] # NotBusy /\ sjob[t].record = r

(* The thread holds the changed record, which it saves in its next step;   *)
(* a request that is refused ends at once and leaves nothing.              *)
Holds(t, r, changed) ==
  /\ sjob[t] = NotBusy /\ changes < MaxChanges
  /\ sjob' = [sjob EXCEPT ![t] = [at |-> "save", record |-> r, changed |-> changed]]
  /\ raced' = IF Busy(r) THEN raced \cup {r} ELSE raced
  /\ changes' = changes + 1
  /\ UNCHANGED <<shared, saves, withdrawn>>

(* A defect: a record that exists is registered again.                     *)
RegisterAgain(t, r, payload) ==
  Valid(r, payload) /\ Holds(t, r, FirstRecord(payload))

RegisterRecord(t, r, payload) ==
  /\ shared[r] = NoRecord /\ Valid(r, payload)
  /\ Holds(t, r, FirstRecord(payload))

UpdateRecord(t, r, payload) ==
  /\ MayChange(shared[r]) /\ Valid(r, payload)
  /\ Holds(t, r, Updates(shared[r], payload))

DeprecateRecord(t, r) ==
  /\ MayChange(shared[r])
  /\ Holds(t, r, Deprecates(shared[r]))

(* _save, and the answer.                                                  *)
SaveRecord(t) ==
  LET r == sjob[t].record
      changed == sjob[t].changed
  IN /\ sjob[t].at = "save"
     /\ shared' = [shared EXCEPT ![r] = changed]
     /\ saves' = [saves EXCEPT ![r] = @ + 1]
     /\ withdrawn' = IF changed.deprecated THEN withdrawn \cup {r} ELSE withdrawn
     /\ sjob' = [sjob EXCEPT ![t] = NotBusy]
     /\ UNCHANGED <<raced, changes>>

(* The save fails, or the process dies.                                    *)
SaveRecordFails(t) ==
  /\ sjob[t].at = "save"
  /\ sjob' = [sjob EXCEPT ![t] = NotBusy]
  /\ UNCHANGED <<shared, saves, withdrawn, raced, changes>>

SharedStep(t) ==
  \/ \E r \in Records, payload \in Payloads :
       RegisterRecord(t, r, payload) \/ UpdateRecord(t, r, payload)
  \/ \E r \in Records : DeprecateRecord(t, r)
  \/ SaveRecord(t) \/ SaveRecordFails(t)

-----------------------------------------------------------------------------
(* replay: the versions of the history are 1, 2, ..., and with the         *)
(* deprecations among them make the stored version and flag.               *)
Replays(record) ==
  /\ \A i \in DOMAIN record.history : record.history[i].version = i
  /\ record.version = Len(record.history)
  /\ record.deprecated = \E i \in DOMAIN record.history : record.history[i].action = "DEPRECATED"

EndsWithDeprecation(record) ==
  \A i \in DOMAIN record.history :
    record.history[i].action = "DEPRECATED" => i = Len(record.history)

(* Whatever overlapped, every stored record replays, and nothing follows   *)
(* its deprecation.                                                        *)
SharedRecordsReplay ==
  \A r \in Records :
    shared[r] # NoRecord => Replays(shared[r]) /\ EndsWithDeprecation(shared[r])

(* A stored version counts the changes that were confirmed, and a          *)
(* confirmed deprecation stays; requests that changed the record at one    *)
(* time lose changes, and never invent any.                                *)
ConfirmedChangesCount ==
  \A r \in Records :
    LET version == IF shared[r] = NoRecord THEN 0 ELSE shared[r].version
    IN /\ version <= saves[r]
       /\ r \notin raced => /\ version = saves[r]
                            /\ r \in withdrawn => shared[r].deprecated
=============================================================================
