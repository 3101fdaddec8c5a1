\* DLB 2.5: a producer s and a worker w; the port of w is disabled and enabled.
SPECIFICATION Spec
CONSTANTS
  Ports = {s, w}
  DirPorts = {}
  Senders = {s, w}
  AdvSenders = {}
  Receivers = {w}
  EpollPorts = {}
  Disabled = {w}
  Combined = TRUE
  Total <- Combined3
  Batch = 1
  ZeroDeqThres = 1
  EnqFailThres = 1
  BatchThres = 1
  ChunkSize = 2
  MaxSend = 2
  MaxRecv = 2
  Exclusive = TRUE
INVARIANTS NoWrapAround WorkerKeepsCredits
PROPERTIES ImplementsAccount
