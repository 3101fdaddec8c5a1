\* Two ports that share two queues, one slot each: a queue's map waits for
\* the other port, and a port's map waits for its only slot.
CONSTANTS
  Ports = {p1, p2}
  Queues = {q1, q2}
  None = None
  NumSlots = 1
  MaxInflights = 1
SPECIFICATION Spec
SYMMETRY Symmetry
INVARIANTS
  TypeOK
  PortCounters
  RemovalKeepsCqOff
  EnabledPortServed
  QueueAndDomainCounters
PROPERTIES
  MapOnlyWhenQuiet
