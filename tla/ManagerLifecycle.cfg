\* Two backends that are registered while calls are made, and three calls: one that
\* starts a refresh, one that joins it, and one made by a callback or a subscriber, or
\* racing with the completion; the manager may be destroyed at any time.  Without a
\* backend a callback that calls refresh_async() stops the system (Reentered), so a
\* state without a successor is no error.
CONSTANTS
  Backends = {b1, b2}
  Calls = {c1, c2, c3}
  None = None
  App = App
SPECIFICATION ManagerSpec
CHECK_DEADLOCK FALSE
INVARIANTS
  AcksAreNotConfused
  StarterIsFresh
  CallbacksRunOnce
  MembersOutliveUse
PROPERTIES
  EveryCallIsAnswered
  DestructorReturns
