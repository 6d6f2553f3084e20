\* Two sinks whose levels are set and that compete for the default, while the server
\* changes them, takes one away, adds one or dies.  Two changes, so that a report under
\* way may be older than the request that comes next.
CONSTANTS
  Names = {"speaker", "headset"}
  TypeOf <- AllOutput
  Levels = {"low", "high"}
  Refreshes = {r1, r2, r3}
  ServerMayDie = TRUE
  MaxEvents = 2
  Absent = Absent
  None = None
SPECIFICATION Spec
INVARIANTS
  FramesOutliveCallbacks
  RefreshIsFresh
  SettledReportIsCurrent
PROPERTIES
  OkMeansExecuted
  HandlersReturn
  ReportsCatchUp
