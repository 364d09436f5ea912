SPECIFICATION FairEventSpec
CONSTANTS
  Messages = {e1, e2}
  NoMessage = NoMessage
  MaxFaults = 3
  MaxStarts = 2
INVARIANTS
  EventPathTypeOK
  EventsAccounted
  RowsFollowEmissions
  StopSilencesConsumer
PROPERTIES
  QueueDrains
CHECK_DEADLOCK FALSE
