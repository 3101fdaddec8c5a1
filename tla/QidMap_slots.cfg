\* One port with two slots and three queues: slots with removals, and maps
\* that wait for them, in every order.
CONSTANTS
  Ports = {p1}
  Queues = {q1, q2, q3}
  None = None
  NumSlots = 2
  MaxInflights = 2
SPECIFICATION Spec
CONSTRAINT NeverRerequested
INVARIANT HardwareMatchesDriver
PROPERTIES
  UnmapOnlyWhenDrained
  ImplementsRequests
