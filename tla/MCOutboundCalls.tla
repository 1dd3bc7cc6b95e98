---------------------------- MODULE MCOutboundCalls ----------------------------
(* Two callers of one client, whose breaker opens after two failures, and   *)
(* two threads asking for flights in three boxes, one of them empty.  In    *)
(* the times of OpenSkyService a tick is fifteen seconds; the life of a     *)
(* token is the provider's to choose.                                       *)
EXTENDS OutboundCalls, TLC

CONSTANTS f1, f2

MCAreaOf == f1 :> "east" @@ f2 :> "west"
MCBoxesFor(a) == IF a.credentials THEN {"east"} ELSE {"east", "west", "everywhere"}
=============================================================================
