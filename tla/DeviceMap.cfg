\* Two backends, one of them with two devices: reports that add, change, drop,
\* bring back or repeat devices, interleaved with prunes.
CONSTANTS
  Keys <- TwoAndOne
  TypeOf <- AllOutput
  Levels = {0, 1}
  MaxReport = 2
  Absent = Absent
  Idle = Idle
SPECIFICATION Spec
INVARIANTS
  ConnectedMatchesLastReport
  ChangesAreAnnounced
PROPERTIES
  NoopIsSilent
  ImplementsDeviceView
