SPECIFICATION PlaybookSpec
CONSTANTS
  Ids = {1, 2, 3}
  Founding <- MCThree
  Drafts <- MCDrafts
  Effect = Effect
  Events = {1}
  Reported = {2}
  Runs = {r1, r2}
  NoEvent = NoEvent
  Samples = {}
  MaxEdits = 0
INVARIANTS
  EscalationOnlyRaises
CHECK_DEADLOCK FALSE
