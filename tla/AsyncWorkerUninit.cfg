\* As AsyncWorker.cfg, but the memory of stop_ held anything before.
CONSTANTS
  Clients = {c1, c2}
  Tasks = {t1, t2, t3}
  UninitStop <- AnyMemory
SPECIFICATION Spec
PROPERTY EveryTaskRuns
