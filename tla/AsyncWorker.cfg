\* Two outside threads and three tasks: a task posted from outside, one posted
\* concurrently and one posted by a task, around one shutdown.
CONSTANTS
  Clients = {c1, c2}
  Tasks = {t1, t2, t3}
  UninitStop <- ZeroedMemory
SPECIFICATION Spec
INVARIANTS
  NoLostWakeup
  DrainedWhenDestroyed
PROPERTIES
  EveryTaskRuns
  DestructorReturns
  ImplementsTaskQueue
