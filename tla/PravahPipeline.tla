--------------------------- MODULE PravahPipeline ---------------------------
(***************************************************************************)
(* services/event_pipeline.py with the replay ledger and the entity state  *)
(* machine it drives.  The handlers of api/pravah.py are coroutines of one *)
(* event loop and none of their awaits ever suspends, so a handler runs    *)
(* through before the next one starts; it is cut into steps here only      *)
(* where the process may die in it or a call in it may raise.              *)
(*                                                                         *)
(* main.py gives the ledger no persistence_path, so ledger and states are  *)
(* both in memory only; of an event's payload the model keeps whether the  *)
(* rule of its target passes and what its "metadata" does to the state's.  *)
(***************************************************************************)
EXTENDS PackageLifecycle

CONSTANTS
  Entities,   \* entity ids
  Events,     \* the events clients post, retries of each included
  Pipelines,  \* the requests clients post to /pipeline/execute
  MaxMinted   \* bound: events the pipeline makes itself

VARIABLES
  ledger,     \* PravahReplayLedger._entries
  states,     \* PravahStateMachine._states
  task,       \* the handler that has the event loop
  pipeline,   \* the execute_pipeline in it, if it is one
  minted,     \* how many events pipelines have made
  trail       \* the last audit record about each event id, or that it was lost

vars == <<ledger, states, task, pipeline, minted, trail>>

-----------------------------------------------------------------------------

EventTypes ==
  {"INGESTION_REQUESTED", "VALIDATION_COMPLETED", "VERIFICATION_COMPLETED",
   "CERTIFICATION_GRANTED", "STATUS_CHANGED"}

(* A payload passes the rule of a status or not.  Its metadata, which may  *)
(* be any JSON value, can be put into a state's mapping or makes update()  *)
(* raise, and leaves there keys that can be sorted or keys that cannot.    *)
IsPayload(p) == p.passes \in BOOLEAN /\ p.mappable \in BOOLEAN /\ p.sortable \in BOOLEAN

(* An event carries the status it asks for or leaves it to its type.       *)
IsEvent(e) ==
  /\ e.entity_id \in Entities
  /\ e.event_type \in EventTypes
  /\ e.target_status \in PackageStatus \cup {"none"}
  /\ IsPayload(e.payload)
  /\ {"event_id", "idempotency_key", "topic"} \subseteq DOMAIN e

ASSUME EventsAreEvents == \A e \in Events : IsEvent(e)

(* A pipeline's request has a context, the payload of its hops, and        *)
(* metadata of its own, which is a mapping.                                *)
ASSUME PipelinesAreRequests ==
  \A r \in Pipelines :
    /\ r.entity_id \in Entities
    /\ {r.initial_status, r.target_status} \subseteq PackageStatus
    /\ IsPayload(r.context)
    /\ r.sortable \in BOOLEAN

(* The ids that execute_pipeline makes are new ones.                       *)
MintedId(n) == <<"evt", n>>

ASSUME MintedIdsAreNew ==
  MaxMinted \in Nat /\ \A e \in Events, n \in 1..MaxMinted : e.event_id # MintedId(n)

NoKey == "none"

(* process_event: the status an event asks for, explicitly or by its type. *)
TypeTarget(event_type) ==
  CASE event_type = "INGESTION_REQUESTED" -> "INGESTED"
    [] event_type = "VALIDATION_COMPLETED" -> "VALIDATED"
    [] event_type = "VERIFICATION_COMPLETED" -> "VERIFIED"
    [] event_type = "CERTIFICATION_GRANTED" -> "CERTIFIED"
    [] OTHER -> "none"

Target(e) == IF e.target_status # "none" THEN e.target_status ELSE TypeTarget(e.event_type)

-----------------------------------------------------------------------------
(* The state machine                                                       *)

NewState(status) == [status |-> status, applied |-> << >>, log |-> << >>, hashable |-> TRUE]

Unknown == NewState("none")

(* get_or_create_state                                                     *)
Known(n, initial) == IF states[n] = Unknown THEN NewState(initial) ELSE states[n]

(* applied_events.  For the properties an element also says which of the   *)
(* two callers of transition() applied the event.                          *)
Applied(state) == {state.applied[k].event_id : k \in 1..Len(state.applied)}

AppliedBy(state, caller) ==
  {state.applied[k].event_id : k \in {j \in 1..Len(state.applied) : state.applied[j].by = caller}}

(* The default rule engine: no rule for REGISTERED, and none that can fail *)
(* for the two withdrawn statuses.                                         *)
RulePasses(e, target) ==
  target \in {"DEPRECATED", "ARCHIVED"} \/ (target # "REGISTERED" /\ e.payload.passes)

(* A defect: the graph is not consulted.                                   *)
MovesByRule(state, e, target) == RulePasses(e, target)

(* transition() does not raise: an edge of the graph, or the status again. *)
Moves(state, e, target) ==
  /\ target \in LifecycleGraph[state.status] \cup {state.status}
  /\ RulePasses(e, target)

(* What transition() leaves.  The status, the version and applied_events   *)
(* change first; metadata.update() may raise before the log is appended to. *)
(* The version is one more than the number of events applied.              *)
Transitioned(state, e, target, caller) ==
  IF e.event_id \in Applied(state) THEN state
  ELSE [status |-> target,
        applied |-> Append(state.applied, [event_id |-> e.event_id, by |-> caller]),
        log |-> IF ~e.payload.mappable THEN state.log
                ELSE Append(state.log, [event_id |-> e.event_id, from_status |-> state.status,
                                        to_status |-> target, version |-> Len(state.applied) + 2]),
        hashable |-> state.hashable /\ e.payload.sortable]

-----------------------------------------------------------------------------
(* The ledger                                                              *)

SameId(e) == {i \in 1..Len(ledger) : ledger[i].event.event_id = e.event_id}

SameKey(e) ==
  {i \in 1..Len(ledger) : /\ e.idempotency_key # NoKey
                          /\ ledger[i].event.idempotency_key = e.idempotency_key}

(* The entry record_event finds for an event: by event_id, then by key.    *)
Found(e) == IF SameId(e) # {} THEN SameId(e) ELSE SameKey(e)

(* The sequence_number of the entry record_event returns.                  *)
Position(e) ==
  IF Found(e) = {} THEN Len(ledger) + 1 ELSE CHOOSE i \in Found(e) : TRUE

(* record_event                                                            *)
Recorded(e) ==
  IF Position(e) > Len(ledger) THEN Append(ledger, [event |-> e, status |-> "PENDING"])
  ELSE ledger

-----------------------------------------------------------------------------
(* process_event                                                           *)

Nobody == [at |-> "nobody"]
NoPipeline == [at |-> "none"]

(* A defect: an event that is applied already is processed again.          *)
RecordAgain(e) ==
  LET state == Known(e.entity_id, "REGISTERED") IN
    /\ task = Nobody
    /\ ledger' = Recorded(e)
    /\ states' = [states EXCEPT ![e.entity_id] = state]
    /\ task' = [at |-> "settle", event |-> e, position |-> Position(e)]
    /\ UNCHANGED trail

(* Record the event and make sure the entity has a state; an event that is *)
(* applied already is done with.                                           *)
Record(e) ==
  LET state == Known(e.entity_id, "REGISTERED") IN
    /\ task = Nobody
    /\ ledger' = Recorded(e)
    /\ states' = [states EXCEPT ![e.entity_id] = state]
    /\ task' = IF e.event_id \in Applied(state) THEN Nobody
               ELSE [at |-> "settle", event |-> e, position |-> Position(e)]
    /\ UNCHANGED trail

Accepts(e) == Target(e) = "none" \/ Moves(states[e.entity_id], e, Target(e))

(* The state that an accepted event leaves of its entity.                  *)
Settled(e) ==
  IF Target(e) = "none" THEN states[e.entity_id]
  ELSE Transitioned(states[e.entity_id], e, Target(e), "event")

(* Something other than InvalidStateTransitionError is raised: by the      *)
(* update of the metadata, or by the hash of the state, which sorts keys.  *)
Breaks(e) == (Target(e) # "none" /\ ~e.payload.mappable) \/ ~Settled(e).hashable

(* Transition the entity, if the event asks for a status, and commit the   *)
(* entry.                                                                  *)
Commit ==
  /\ task.at = "settle"
  /\ Accepts(task.event)
  /\ ~Breaks(task.event)
  /\ states' = [states EXCEPT ![task.event.entity_id] = Settled(task.event)]
  /\ ledger' = [ledger EXCEPT ![task.position].status = "COMMITTED"]
  /\ task' = [at |-> "emit", event |-> task.event, outcome |-> "committed"]
  /\ UNCHANGED <<pipeline, minted, trail>>

(* A defect: the entry is committed although the transition was illegal.   *)
RejectCommits ==
  /\ task.at = "settle"
  /\ ~Accepts(task.event)
  /\ ledger' = [ledger EXCEPT ![task.position].status = "COMMITTED"]
  /\ task' = [at |-> "emit", event |-> task.event, outcome |-> "failed"]
  /\ UNCHANGED <<states, pipeline, minted, trail>>

(* The transition is illegal: fail the entry.                              *)
Reject ==
  /\ task.at = "settle"
  /\ ~Accepts(task.event)
  /\ ledger' = [ledger EXCEPT ![task.position].status = "FAILED"]
  /\ task' = [at |-> "emit", event |-> task.event, outcome |-> "failed"]
  /\ UNCHANGED <<states, pipeline, minted, trail>>

(* The state has changed when the handler breaks; the entry keeps its      *)
(* status, nothing is emitted, and a pipeline ends.                        *)
BreakOff ==
  /\ task.at = "settle"
  /\ Accepts(task.event)
  /\ Breaks(task.event)
  /\ states' = [states EXCEPT ![task.event.entity_id] = Settled(task.event)]
  /\ task' = Nobody
  /\ pipeline' = NoPipeline
  /\ UNCHANGED <<ledger, minted, trail>>

(* The trail with an audit record about an event, or the loss of one.      *)
Audited(e, outcome) ==
  [id \in DOMAIN trail \cup {e.event_id} |-> IF id = e.event_id THEN outcome ELSE trail[id]]

(* A defect: the audit record of a failed event is not emitted.            *)
EmitCommitted ==
  /\ task.at = "emit"
  /\ trail' = IF task.outcome = "failed" THEN trail
              ELSE Audited(task.event, task.outcome)
  /\ task' = Nobody
  /\ pipeline' = IF task.outcome = "failed" THEN NoPipeline ELSE pipeline
  /\ UNCHANGED <<ledger, states, minted>>

(* Emit the audit record.  A failed event then raises, which also ends the *)
(* pipeline the event is a hop of.                                         *)
Emit ==
  /\ task.at = "emit"
  /\ trail' = Audited(task.event, task.outcome)
  /\ task' = Nobody
  /\ pipeline' = IF task.outcome = "failed" THEN NoPipeline ELSE pipeline
  /\ UNCHANGED <<ledger, states, minted>>

(* The audit emitter raises AuditPersistenceError, and so does the handler: *)
(* the client is told the event failed, whatever its outcome is.           *)
EmitRaises ==
  /\ task.at = "emit"
  /\ trail' = Audited(task.event, "lost")
  /\ task' = Nobody
  /\ pipeline' = NoPipeline
  /\ UNCHANGED <<ledger, states, minted>>

(* POST /pravah/events                                                     *)
IngestEvent(e) == pipeline = NoPipeline /\ Record(e) /\ UNCHANGED <<pipeline, minted>>

-----------------------------------------------------------------------------
(* execute_pipeline                                                        *)

(* The walks of k hops in the lifecycle graph that start at a status.      *)
Walks[k \in 0..7, start \in PackageStatus] ==
  IF k = 0 THEN {<<start>>}
  ELSE UNION {{Append(w, s) : s \in LifecycleGraph[w[k]]} : w \in Walks[k - 1, start]}

PathLengths(start, goal) ==
  {k \in 0..7 : \E w \in Walks[k, start] : w[k + 1] = goal}

(* _find_lifecycle_path: the breadth-first search returns a shortest walk. *)
LifecyclePath(start, goal) ==
  LET lengths == PathLengths(start, goal)
      shortest == CHOOSE k \in lengths : \A j \in lengths : k <= j
  IN CHOOSE w \in Walks[shortest, start] : w[shortest + 1] = goal

(* POST /pipeline/execute, when there is a path; otherwise it raises       *)
(* before any change.  The state is created with the requested status, and *)
(* the request's own metadata is put into it.                              *)
StartPipeline(request) ==
  /\ task = Nobody
  /\ pipeline = NoPipeline
  /\ PathLengths(request.initial_status, request.target_status) # {}
  /\ states' = [states EXCEPT ![request.entity_id] =
                  [Known(request.entity_id, request.initial_status) EXCEPT
                     !.hashable = @ /\ request.sortable]]
  /\ pipeline' = [at |-> "hops", entity_id |-> request.entity_id, context |-> request.context,
                  path |-> Tail(LifecyclePath(request.initial_status, request.target_status))]
  /\ UNCHANGED <<ledger, task, minted, trail>>

(* The event of a hop: a fresh id, no key, an explicit target.  Its type   *)
(* is not read, for it has a target.                                       *)
HopEvent(request, target) ==
  [event_id |-> MintedId(minted + 1), entity_id |-> request.entity_id,
   event_type |-> "STATUS_CHANGED", target_status |-> target, topic |-> "pipeline",
   idempotency_key |-> NoKey, payload |-> request.context]

Hop ==
  /\ pipeline # NoPipeline
  /\ pipeline.path # << >>
  /\ minted < MaxMinted
  /\ Record(HopEvent(pipeline, Head(pipeline.path)))
  /\ pipeline' = [pipeline EXCEPT !.path = Tail(@)]
  /\ minted' = minted + 1

(* Every hop is committed; the pipeline emits its own audit record, which  *)
(* no property looks at, and returns.                                      *)
FinishPipeline ==
  /\ task = Nobody
  /\ pipeline # NoPipeline
  /\ pipeline.path = << >> \/ minted = MaxMinted
  /\ pipeline' = NoPipeline
  /\ UNCHANGED <<ledger, states, task, minted, trail>>

-----------------------------------------------------------------------------
(* replay_ledger                                                           *)

Selected(i, from, to, topic, entity) ==
  /\ i \in from..to
  /\ topic \in {"any", ledger[i].event.topic}
  /\ entity \in {"any", ledger[i].event.entity_id}

(* POST /pravah/replay of the selected entries, whatever their status.     *)
StartReplay(from, to, topic, entity) ==
  LET selected == {i \in 1..Len(ledger) : Selected(i, from, to, topic, entity)} IN
    /\ task = Nobody
    /\ pipeline = NoPipeline
    /\ selected # {}
    /\ task' = [at |-> "replay", entries |-> selected]
    /\ UNCHANGED <<ledger, states, pipeline, minted, trail>>

(* The next entry in sequence: its event is applied again unless it is     *)
(* applied already, asks for no explicit status or is illegal now.  What   *)
(* transition() raises is counted, and what it has changed stays changed.  *)
ReplayEntry ==
  /\ task.at = "replay"
  /\ \E i \in task.entries :
       LET e == ledger[i].event
           state == Known(e.entity_id, "REGISTERED")
           target == e.target_status
           applies == /\ target # "none"
                      /\ e.event_id \notin Applied(state)
                      /\ Moves(state, e, target)
       IN /\ \A j \in task.entries : i <= j
          /\ states' = [states EXCEPT ![e.entity_id] =
                          IF applies THEN Transitioned(state, e, target, "replay") ELSE state]
          /\ task' = IF task.entries = {i} THEN Nobody ELSE [task EXCEPT !.entries = @ \ {i}]
  /\ UNCHANGED <<ledger, pipeline, minted, trail>>

-----------------------------------------------------------------------------

(* The process dies, in or between handlers, and starts again with a new   *)
(* ledger and without states.                                              *)
Restart ==
  /\ ledger' = << >>
  /\ states' = [n \in Entities |-> Unknown]
  /\ trail' = IF task.at = "emit" THEN Audited(task.event, "lost") ELSE trail
  /\ task' = Nobody
  /\ pipeline' = NoPipeline
  /\ UNCHANGED minted

Init ==
  /\ ledger = << >>
  /\ states = [n \in Entities |-> Unknown]
  /\ task = Nobody
  /\ pipeline = NoPipeline
  /\ minted = 0
  /\ trail = << >>

Next ==
  \/ \E e \in Events : IngestEvent(e)
  \/ Commit
  \/ Reject
  \/ BreakOff
  \/ Emit
  \/ EmitRaises
  \/ \E request \in Pipelines : StartPipeline(request)
  \/ Hop
  \/ FinishPipeline
  \/ \E from \in 1..Len(ledger), to \in 1..Len(ledger), topic \in {"any", "events", "pipeline"},
        entity \in Entities \cup {"any"} : StartReplay(from, to, topic, entity)
  \/ ReplayEntry
  \/ Restart

Spec == Init /\ [][Next]_vars

-----------------------------------------------------------------------------
(* Properties                                                              *)

(* The event of an applied id, as the ledger has it.                       *)
RecordedEvent(id) ==
  ledger[CHOOSE i \in 1..Len(ledger) : ledger[i].event.event_id = id].event

(* The status an entity reached with the k-th event applied to it.         *)
Reached(state, k) == Target(RecordedEvent(state.applied[k].event_id))

(* CODE_PACKET.md "Strict transition graph enforcement": the events that   *)
(* are applied to an entity are recorded for it in the ledger, each occurs *)
(* once, the statuses they ask for are a walk along the graph that ends at *)
(* the entity's status, and its transition log tells this walk, version by *)
(* version, but for the events whose metadata made transition() raise.     *)
(* For events that share no idempotency key.                               *)
StatesAreExplained ==
  \A n \in Entities :
    LET state == states[n]
        applied == state.applied
        last == Len(applied)
    IN /\ \A k \in 1..last :
            /\ \E i \in 1..Len(ledger) : /\ ledger[i].event.event_id = applied[k].event_id
                                         /\ ledger[i].event.entity_id = n
            /\ \A j \in 1..last : applied[k].event_id = applied[j].event_id => k = j
            /\ k > 1 => Reached(state, k) \in LifecycleGraph[Reached(state, k - 1)]
                                             \cup {Reached(state, k - 1)}
            /\ RecordedEvent(applied[k].event_id).payload.mappable
                 <=> \E i \in 1..Len(state.log) : state.log[i].version = k + 1
       /\ last > 0 => state.status = Reached(state, last)
       /\ \A i \in 1..Len(state.log) :
            LET k == state.log[i].version - 1 IN
              /\ k \in 1..last
              /\ state.log[i].event_id = applied[k].event_id
              /\ state.log[i].to_status = Reached(state, k)
              /\ k > 1 => state.log[i].from_status = Reached(state, k - 1)
              /\ i > 1 => state.log[i - 1].version < state.log[i].version

(* The ledger and the states agree: an entry says COMMITTED only when the  *)
(* status its event asks for was reached through it; and an event that was *)
(* applied has an entry that says COMMITTED, unless it was a replay that   *)
(* applied it, or its metadata or the keys of its entity's broke the       *)
(* handler off.  For events that share no idempotency key.                 *)
LedgerAgreesWithStates ==
  \A i \in 1..Len(ledger) :
    LET e == ledger[i].event
        state == states[e.entity_id]
        applied == e.event_id \in Applied(state)
    IN /\ ledger[i].status = "COMMITTED" /\ Target(e) # "none" => applied
       /\ applied => \/ ledger[i].status = "COMMITTED"
                     \/ e.event_id \in AppliedBy(state, "replay")
                     \/ ~e.payload.mappable
                     \/ ~state.hashable

(* process_event "Guarantees ... audit trail emission": the last audit     *)
(* record about an event agrees with the outcome its entry has, or is      *)
(* about to be emitted, or was lost to an emitter that raised or a crash.  *)
OutcomesAreAudited ==
  \A i \in 1..Len(ledger) :
    LET e == ledger[i].event
        outcome == IF ledger[i].status = "COMMITTED" THEN "committed" ELSE "failed"
    IN ledger[i].status # "PENDING" =>
         \/ task.at = "emit" /\ task.event = e /\ task.outcome = outcome
         \/ e.event_id \in DOMAIN trail /\ trail[e.event_id] \in {outcome, "lost"}

(* The ledger is append-only until a restart: an entry keeps its sequence  *)
(* number and its event, and what is COMMITTED stays so through retries,   *)
(* replays, pipelines and handlers that break off.  For events that share  *)
(* no key.                                                                 *)
CommittedStays ==
  [][ledger' # << >> =>
       \A i \in 1..Len(ledger) :
         /\ i <= Len(ledger')
         /\ ledger'[i].event = ledger[i].event
         /\ ledger[i].status = "COMMITTED" => ledger'[i].status = "COMMITTED"]_vars
=============================================================================
