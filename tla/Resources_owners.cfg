\* The PF and one vdev; two domains, queues and load-balanced ports, one directed
\* pair, one group of sequence numbers, one kind of plain counted resource.
SPECIFICATION Spec
CONSTANTS
  PF = PF
  Vdevs = {v1}
  d1 = d1
  d2 = d2
  q1 = q1
  q2 = q2
  p1 = p1
  p2 = p2
  t1 = t1
  Members <- MCMembers
  CosOrder <- MCCosOrder
  HistSize = 2
  Counts = {"atomic"}
  Amount <- MCAmount
  SnGroups = {"sn0"}
  SnModes = {1, 2}
  SnTotal = 2
  U32 = 8
  Requests <- MCRequests
  QueueArgs <- MCQueueArgs
  PortArgs <- MCPortArgs
  MaxAssigned = 2
  ReregisterInUse = FALSE
SYMMETRY MCSymmetry
INVARIANTS
  OneOwner
  CountsConserved
  VirtualIdsUnique
PROPERTY
  LockedKeepsResources
