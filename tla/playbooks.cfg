SPECIFICATION PlaybookSpec
CONSTANTS
  Ids = {1, 2, 3}
  Founding <- MCFounding
  Drafts <- MCDrafts
  Effect = Effect
  Events = {1}
  Reported = {2, 4}
  Runs = {r1, r2}
  NoEvent = NoEvent
  Samples = {1}
  MaxEdits = 2
SYMMETRY MCSymmetry
INVARIANTS
  NeverBelowReport
  CountersTrue
CHECK_DEADLOCK FALSE
