---------------------------- MODULE SourceRequests ----------------------------
(* The requests of main.py that work with sources: they register them, or  *)
(* feed them.  The records of a feed are not touched by registrations, so  *)
(* a behaviour is about a feed or about registrations.                     *)
EXTENDS ObservationFeeds, SourceRegistration

ASSUME FeedKindsAssumption == FeedKinds \subseteq Kinds \cup {"registration"}

sourceVars == <<feedVars, registrationVars>>

SourcesInit == Init /\ RegistrationInit

Next ==
  \/ feed # "registration" /\ FeedNext /\ UNCHANGED registrationVars
  \/ feed = "registration" /\ RegistrationNext /\ UNCHANGED feedVars

Spec == SourcesInit /\ [][Next]_sourceVars
=============================================================================
