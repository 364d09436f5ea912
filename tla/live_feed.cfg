SPECIFICATION LiveSpec
CONSTANTS
  Sockets <- MCSockets
  Budgets <- MCBudgets
  Room = 1
  None = None
  MaxReconnectAttempts = 1
INVARIANTS LiveTypeOK NoGaps SocketsKept
PROPERTY FeedRecovers
CHECK_DEADLOCK FALSE
