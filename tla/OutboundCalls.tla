----------------------------- MODULE OutboundCalls -----------------------------
(* The calls the service makes: through a client with a breaker, or of      *)
(* OpenSky, whose service has a break and a cache of its own.  The two have *)
(* no state in common: a behaviour is about one of them.                    *)
EXTENDS OutboundClients, OpenSky

VARIABLE about

callVars == <<about, clientVars, skyVars>>

CallsInit ==
  /\ about \in {"clients", "flights"}
  /\ ClientsInit /\ SkyInit
  /\ about = "clients" => account = [live |-> FALSE, credentials |-> FALSE] /\ ~sky
  /\ about = "flights" => client = "mdu" /\ upstream = "up"

Clients(step) == about = "clients" /\ step /\ UNCHANGED <<about, skyVars>>
Flying(step) == about = "flights" /\ step /\ UNCHANGED <<about, clientVars>>

CallsNext == Clients(ClientsNext) \/ Flying(SkyNext)

(* Time passes, and what has begun ends: the clients and OpenSkyService set *)
(* a timeout on every call.  That requests keep coming is up to those who   *)
(* send them; they are not assumed to be of any kind, or about any box.     *)
Fairness ==
  /\ WF_callVars(Clients(ClientTick)) /\ WF_callVars(Flying(SkyTick))
  /\ \A c \in Callers : WF_callVars(Clients(Send(c))) /\ WF_callVars(Clients(Return(c)))
  /\ \A c \in Askers : WF_callVars(Flying(Ask(c))) /\ WF_callVars(Flying(Step(c)))

CallsSpec == CallsInit /\ [][CallsNext]_callVars /\ Fairness
=============================================================================
