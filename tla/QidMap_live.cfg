\* Two ports, one queue: its events are completed at one port while it is
\* mapped to the other.
CONSTANTS
  Ports = {p1, p2}
  Queues = {q1}
  None = None
  NumSlots = 1
  MaxInflights = 1
SPECIFICATION FairSpec
PROPERTIES
  RemovalsComplete
  PendingCompletes
