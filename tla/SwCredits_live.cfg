\* DLB 2.5: a producer s and a worker w that may block without a timeout.
SPECIFICATION FairSpec
CONSTANTS
  Ports = {s, w}
  DirPorts = {}
  Senders = {s, w}
  AdvSenders = {}
  Receivers = {w}
  EpollPorts = {}
  Disabled = {}
  Combined = TRUE
  Total <- Combined2
  Batch = 2
  ZeroDeqThres = 1
  EnqFailThres = 1
  BatchThres = 1
  ChunkSize = 1
  MaxSend = 1
  MaxRecv = 2
  Exclusive = TRUE
PROPERTIES SomeoneSends
