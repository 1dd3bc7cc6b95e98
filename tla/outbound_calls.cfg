SPECIFICATION CallsSpec
CONSTANTS
  Callers = {"c1", "c2"}
  Threshold = 2
  Timeout = 2
  f1 = f1
  f2 = f2
  Askers = {"a1", "a2"}
  Flights = {f1, f2}
  AreaOf <- MCAreaOf
  Boxes = {"east", "west"}
  BoxesFor <- MCBoxesFor
  Everywhere = "everywhere"
  Recorded = {f1}
  Nowhere = Nowhere
  Ttl = 2
  Backoff = 3
  Life = 4
  Margin = 2
  CallTicks = 1
INVARIANTS
  BearersAreValid
  SequentialAnswersAreWhole
PROPERTIES
  BreakerRecovers
  OutageOpensBreaker
  FeedComesBack
