-------------------------- MODULE MCPravahPipeline --------------------------
(***************************************************************************)
(* Instances of PravahPipeline for TLC.                                    *)
(***************************************************************************)
EXTENDS PravahPipeline

Payload(mappable, sortable) == [passes |-> TRUE, mappable |-> mappable, sortable |-> sortable]

Event(id, type, target, key, payload) ==
  [event_id |-> <<"client", id>>, entity_id |-> "pkg-a", event_type |-> type,
   target_status |-> target, idempotency_key |-> key, topic |-> "events", payload |-> payload]

(* A move that is asked for by its type, an event that asks for nothing,   *)
(* and a move with metadata that makes update() raise.                     *)
DistinctEvents ==
  {Event(1, "INGESTION_REQUESTED", "none", "k1", Payload(TRUE, TRUE)),
   Event(2, "STATUS_CHANGED", "none", NoKey, Payload(TRUE, TRUE)),
   Event(3, "STATUS_CHANGED", "INGESTED", NoKey, Payload(FALSE, TRUE))}

(* A pipeline of two hops, which the moves fail after and which fails      *)
(* where its own hops were made before, and one of a hop whose context has *)
(* metadata that makes the hash of the state raise.                        *)
TwoPipelines ==
  {[entity_id |-> "pkg-a", initial_status |-> "REGISTERED", target_status |-> "VALIDATED",
    context |-> Payload(TRUE, TRUE), sortable |-> TRUE],
   [entity_id |-> "pkg-a", initial_status |-> "INGESTED", target_status |-> "VALIDATED",
    context |-> Payload(TRUE, FALSE), sortable |-> TRUE]}
=============================================================================
