SPECIFICATION ThreatSpec
CONSTANTS
  host = host
  net = net
  comment = comment
  worker1 = worker1
  worker2 = worker2
  Loop = Loop
  NoIp = NoIp
  Ips = {host}
  Networks = {net}
  Covered <- MCCovered
  Junk = {comment}
  Workers = {worker1, worker2}
  MemoryTTL = 1
  RedisTTL = 2
  NothingTTL = 1
  LookupTime = 1
  MaxTime = 4
  MaxLines = 2
  MaxStarts = 2
INVARIANTS
  ThreatTypeOK
  SetsMatchFile
  SearchFindsListed
  VerdictCatchesUp
CHECK_DEADLOCK FALSE
