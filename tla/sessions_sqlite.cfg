SPECIFICATION SessionSpec
CONSTANTS
  event = event
  list = list
  execution = execution
  note = note
  loop = loop
  worker1 = worker1
  worker2 = worker2
  Calls = {event, list, execution, note}
  Threads = {loop, worker1, worker2}
  ThreadOf <- MCThreadOf
  Program <- MCProgram
  MaxErrors = 0
INVARIANTS
  ExecutionsPersisted
CHECK_DEADLOCK FALSE
