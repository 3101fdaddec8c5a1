\* One blocked thread, one CQ, two domains one after the other, one device reset.
SPECIFICATION CqFairSpec
CONSTANTS
  Ids = {i1}
  Ports = {p1}
  Objs <- TwoDomains
  Files = {f1}
  None = None
  Kinds = {"cq"}
  MaxDevs = 1
  MaxResets = 1
  MaxRounds = 1
  MaxLeaks = 1
  PortOutcomes = {"ok", "no_answer", "no_interrupt"}
  ResetOutcomes = {TRUE}
  FdOutcomes = {TRUE}
  Threads = {t1}
  MaxEvents = 1
INVARIANTS CqTypeOK WaitersKeepDomain
PROPERTIES
  WaitersReturn
  EventsEndWait
  ResetEnds
