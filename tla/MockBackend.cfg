\* A thread of a test that pushes lists and the worker that runs commands.
CONSTANTS
  Ids = {"out1", "out2", "in1"}
  TypeOf <- OutputsAndInput
  Levels = {0, 1}
  Testers = {"test"}
  Absent = Absent
  None = None
SPECIFICATION MockSpec
INVARIANTS
  SubscriberHasTheList
