\* Retries, replays, a pipeline, emitter failures and restarts at any step.
CONSTANTS
  Entities = {"pkg-a"}
  Events <- DistinctEvents
  Pipelines <- TwoPipelines
  MaxMinted = 2
SPECIFICATION Spec
INVARIANTS
  StatesAreExplained
  LedgerAgreesWithStates
  OutcomesAreAudited
PROPERTIES
  CommittedStays
