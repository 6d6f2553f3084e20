\* An endpoint of each flow that may come, go and change, and three events: changes,
\* requests and COM calls that fail, at any point of a refresh or a command.
SPECIFICATION Spec
CONSTANTS
  speaker = speaker
  headset = headset
  microphone = microphone
  Ids = {speaker, microphone}
  FlowOf <- MCFlowOf
  Levels = {"low", "high"}
  NoLevel = "none"
  MaxEvents = 3
  None = None
INVARIANTS
  NothingHeldOnceReleased
  OnlyLateNotificationsAbort
PROPERTIES
  ReportsCatchUp
  CommandsShow
