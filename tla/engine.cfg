SPECIFICATION MCSpec
CONSTANTS
  f1 = f1
  Packets = {1, 2, 3}
  Flows = {f1}
  FlowOf <- MCFlowOf
  Rules = {r1}
  Window <- MCWindow
  ML = ML
  Tasks = {1, 2, 3, 4}
  WorkerCount = 2
  QueueCap = 2
  MaxTime = 2
  NoPacket = NoPacket
INVARIANTS
  EngineTypeOK
  AcceptedInOnePlace
  CountersBalance
  EmissionsSpaced
  CrewComplete
PROPERTIES
  FateRefined
  QueueServed
  StopCompletes
CHECK_DEADLOCK FALSE
