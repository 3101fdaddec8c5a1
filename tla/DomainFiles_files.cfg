\* Two domain ids and two ports, three domains one after or beside another,
\* one device reset; domain resets, file allocations and port configurations
\* may fail.
SPECIFICATION Spec
CONSTANTS
  Ids = {i1, i2}
  Ports = {p1, p2}
  Objs <- ThreeDomains
  Files = {f1, f2}
  None = None
  Kinds = {"pp", "cq"}
  MaxDevs = 1
  MaxResets = 1
  MaxRounds = 1
  MaxLeaks = 1
  PortOutcomes = {"ok", "no_answer", "no_interrupt"}
  ResetOutcomes = {TRUE, FALSE}
  FdOutcomes = {TRUE, FALSE}
SYMMETRY Symmetry
INVARIANTS
  RefcountsExact
  NoDanglingDomain
  MappedPortsOwned
  CqMemoryHeld
  ValidDomainsConfigured
