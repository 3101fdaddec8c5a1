\* Two processes that attach; a ring of 4 alerts with 2-bit indices; a bound on
\* unread alerts that never fills the ring.
SPECIFICATION FairSpec
CONSTANTS
  Attachers = {a1, a2}
  Nobody = Nobody
  RingSize = 4
  IndexSize = 4
  MaxUnread = 2
  AttachRaces = FALSE
INVARIANTS
  TypeOK
  DomainOutlivesUsers
PROPERTIES
  ImplementsQueue
  ResetCompletes
