\* Two backends that report changes, two subscriptions that come and go, and a
\* limit of two ticks: a change can fall before, inside and at the end of it.
CONSTANTS
  Sources = {b1, b2}
  Subscriptions = {s1, s2}
  RateLimit = 2
  Nobody = Nobody
SPECIFICATION Spec
INVARIANTS
  NoChangeIsForgotten
PROPERTIES
  RoundsAreSpaced
  DestructorReturns
  EveryChangeIsNotified
