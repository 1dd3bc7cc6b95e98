---------------------------- MODULE RecordRequests ----------------------------
(* Requests of main.py on knowledge objects and on shared records.  The    *)
(* two keep apart stores, so a behaviour exercises one of them.            *)
EXTENDS KnowledgeObjects, SharedRecords

recordVars == <<knowledgeVars, sharedVars>>

Init == KnowledgeInit /\ SharedInit

Next ==
  \/ \E t \in KThreads : KnowledgeStep(t) /\ changes = 0 /\ UNCHANGED sharedVars
  \/ KnowledgeCrash /\ UNCHANGED sharedVars
  \/ \E t \in SThreads : SharedStep(t) /\ KnowledgeInit /\ UNCHANGED knowledgeVars

Spec == Init /\ [][Next]_recordVars
=============================================================================
