\* DLB 2.5: the port of r may be disabled while r is blocked in a receive.
SPECIFICATION Spec
CONSTANTS
  Ports = {s, r}
  DirPorts = {}
  Senders = {s}
  AdvSenders = {}
  Receivers = {r}
  EpollPorts = {}
  Disabled = {r}
  Combined = TRUE
  Total <- Combined2
  Batch = 1
  ZeroDeqThres = 1
  EnqFailThres = 1
  BatchThres = 1
  ChunkSize = 1
  MaxSend = 1
  MaxRecv = 1
  Exclusive = FALSE
INVARIANTS StorageSuffices
