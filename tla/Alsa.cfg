\* Cards that come, go, swap numbers and change around a command and the refreshes.
CONSTANTS
  Slots = {0, 1}
  Cards = {"onboard", "usb"}
  Channels <- OnboardAndUsb
  Pcms <- OnePcm
  Levels = {0, 1}
  FullLevel = 1
  MaxChanges = 2
  MaxCommands = 1
  None = None
SPECIFICATION Spec
INVARIANTS
  ReportedDevicesAreKnown
  StatusIsTrue
PROPERTY ReportsCatchUp
