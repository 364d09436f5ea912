SPECIFICATION FairNotifySpec
CONSTANTS
  k = k
  slack = slack
  teams = teams
  Alerts = {a1, a2}
  Keys = {k}
  KeyOf <- MCKeyOf
  NoKey = NoKey
  Channels <- MCChannels
  Enabled = {slack}
  Threads = {w1, w2}
  NoThread = NoThread
  QueueCap = 2
  MaxRetries = 1
  Window = 1
  MaxTime = 2
INVARIANTS
  NotifyTypeOK
  NoticeInOnePlace
  DedupHolds
PROPERTIES
  NoticesSettle
  NoticeRefined
CHECK_DEADLOCK FALSE
