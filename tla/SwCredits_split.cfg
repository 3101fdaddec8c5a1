\* DLB 2.0: a load-balanced port a with dlb_adv_send, a directed port d with epoll.
SPECIFICATION Spec
CONSTANTS
  Ports = {a, d}
  DirPorts = {d}
  Senders = {}
  AdvSenders = {a}
  Receivers = {a, d}
  EpollPorts = {d}
  Disabled = {}
  Combined = FALSE
  Total <- Split11
  Batch = 2
  ZeroDeqThres = 1
  EnqFailThres = 1
  BatchThres = 1
  ChunkSize = 1
  MaxSend = 2
  MaxRecv = 1
  Exclusive = TRUE
INVARIANTS TypeOK CreditsConserved
