\* The server may die while a handler waits for it.
CONSTANTS
  Names = {"speaker"}
  TypeOf <- AllOutput
  Levels = {"low"}
  Refreshes = {r1, r2}
  ServerMayDie = TRUE
  MaxEvents = 1
  Absent = Absent
  None = None
SPECIFICATION Spec
PROPERTY EveryRequestReturns
