---------------------------- MODULE InboundRequests ----------------------------
(* Requests as they arrive at the workers: for a token, with a token, or    *)
(* under /production/.                                                      *)
EXTENDS RequestLimits

inboundVars == <<now, authVars, limitVars>>

InboundInit == AuthInit /\ LimitsInit

Passwords == {"ADMIN_PASSWORD", "AUTH_PASSWORD"}

(* The token endpoints are counted by address as every other request is. *)
LogIn(w, address) ==
  /\ Free(w)
  /\ Limit(w, address)
  /\ UNCHANGED tableVars
  /\ IF ~Allows(w, address) THEN UNCHANGED <<now, authVars>>
     ELSE \E actor \in Actors, password \in Passwords :
            Refuse(actor, password) \/ Authenticate(w, actor, password)

Visit(w, address) ==
  /\ \E token \in issued \cup {Anyone} : Request(w, token, address)
  /\ UNCHANGED <<now, authVars>>

VisitProduction(w, address) ==
  /\ (\E jti \in Jtis : Verify(w, jti)) \/ Register(w, address)
  /\ UNCHANGED <<now, authVars>>

Tick ==
  /\ now < LastTick
  /\ now' = now + 1
  /\ UNCHANGED <<authVars, limitVars>>

Restart(w) ==
  /\ StartAgain(w) /\ Forget(w)
  /\ UNCHANGED <<now, env, issued>>

Next ==
  \/ \E w \in Workers, address \in Addresses :
       LogIn(w, address) \/ Visit(w, address) \/ VisitProduction(w, address)
  \/ \E w \in Workers : Restart(w)
  \/ Tick

Spec == InboundInit /\ [][Next]_inboundVars
=============================================================================
