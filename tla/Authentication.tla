---------------------------- MODULE Authentication ----------------------------
(* AuthService in several workers: who gets a token of which roles, and     *)
(* which worker honours it.  A password is named for the variable it is     *)
(* compared with, and a secret for the process that made it up.             *)
EXTENDS Naturals, FiniteSets

CONSTANTS
  Actors, Admins, \* Admins is AUTH_ADMIN_ACTORS
  Workers,
  Lifetime,       \* of a token
  Settings,       \* the environments in question
  LastTick, MaxRestarts, MaxTokens  \* bounds

ASSUME AuthAssumption == Admins \subseteq Actors /\ Lifetime \in Nat \ {0}

Privileged == {"bhiv-admin", "admin"}
AdminRoles == Privileged \cup {"operator", "ingest:operator", "bcaes-editor"}
OperatorRoles == {"operator", "ingest:operator", "bcaes-editor"}
ViewerRoles == {"viewer", "dashboard-viewer"}

VARIABLES
  now,
  env,     \* passwords, roles mapped to actors, operators, whether a secret is set
  starts,  \* worker -> how often it was started again
  issued   \* the tokens given out, with the password each was given for

authVars == <<env, starts, issued>>

AuthInit ==
  /\ now = 0
  /\ env \in Settings
  /\ starts = [w \in Workers |-> 0]
  /\ issued = {}

(* Without a configured secret each process makes one up when it starts. *)
SecretOf(w) == IF env.secret THEN "configured" ELSE <<w, starts[w]>>

(* authenticate: whether a password is taken, and as an administrator's.    *)
TakenAsAdmins(actor, password) ==
  env.adminPassword /\ password = "ADMIN_PASSWORD" /\ actor \in Admins

Taken(actor, password) ==
  \/ env.adminPassword /\ password = "ADMIN_PASSWORD"
  \/ /\ env.authPassword /\ password = "AUTH_PASSWORD"
     /\ env.adminPassword \/ actor \notin Admins

(* resolve_roles: the roles mapped to an actor, less the privileged ones,   *)
(* then those of an operator, then a viewer's.                              *)
AllMappedRoles(actor) == env.roles[actor] \* a defect: the privileged ones too

MappedRoles(actor) == env.roles[actor] \ Privileged

ResolveRoles(actor, asAdmin) ==
  IF asAdmin THEN AdminRoles
  ELSE IF MappedRoles(actor) # {} THEN MappedRoles(actor)
  ELSE IF actor \in env.operators THEN OperatorRoles
  ELSE ViewerRoles

(* authenticate and issue_token. *)
Refuse(actor, password) == ~Taken(actor, password) /\ UNCHANGED <<now, authVars>>

Authenticate(w, actor, password) ==
  /\ Taken(actor, password)
  /\ Cardinality(issued) < MaxTokens
  /\ issued' = issued \cup
       {[actor |-> actor, exp |-> now + Lifetime, secret |-> SecretOf(w), for |-> password,
         roles |-> ResolveRoles(actor, TakenAsAdmins(actor, password))]}
  /\ UNCHANGED <<now, env, starts>>

(* decode_token, of a token this service issued. *)
Decodes(w, token) == token.secret = SecretOf(w) /\ token.exp > now

(* The worker's process starts again. *)
StartAgain(w) ==
  /\ starts[w] < MaxRestarts
  /\ starts' = [starts EXCEPT ![w] = @ + 1]

------------------------------------------------------------------------------
(* Whatever roles the environment maps to actors, and whichever of the two  *)
(* passwords are set, a token with an administrator's role was given to one *)
(* of the administrators, for their own password.                           *)
PrivilegeIsEarned ==
  \A token \in issued : token.roles \cap Privileged # {} =>
    token.actor \in Admins /\ token.for = "ADMIN_PASSWORD"
=============================================================================
