\* Two requests, one of which may be made by the callback of the other, around
\* subscriptions, polls, events, a push from outside and one destruction.
CONSTANTS
  Requests = {r1, r2}
  MaxPushes = 1
SPECIFICATION Spec
INVARIANTS
  HandlersAreImplemented
  NoDeliveryOnceUnsubscribed
PROPERTIES
  EveryFutureResolves
  DestructorReturns
