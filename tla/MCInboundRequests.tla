--------------------------- MODULE MCInboundRequests ---------------------------
(* One worker, an administrator and another actor, under every              *)
(* choice of passwords and secret, with and without roles and operators     *)
(* named in the environment.                                                *)
EXTENDS InboundRequests, TLC

CONSTANTS j1, j2, j3

MCExpiryOf == j1 :> 2 @@ j2 :> 3 @@ j3 :> 4
MCOwnerOf == j1 :> Anyone @@ j2 :> "guest" @@ j3 :> Anyone

Given(roles, operators) == [roles |-> [a \in Actors |-> roles], operators |-> operators]

MCSettings ==
  {[adminPassword |-> a, authPassword |-> b, secret |-> s,
    roles |-> given.roles, operators |-> given.operators] :
     a \in BOOLEAN, b \in BOOLEAN, s \in BOOLEAN,
     given \in {Given({}, {"guest"}), Given({"admin", "auditor"}, {}), Given({"admin"}, {})}}
=============================================================================
