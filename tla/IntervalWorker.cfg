\* Three starts, so that a thread is started after a stop() twice, and intervals
\* long enough for a stop() to fall at the beginning, inside and at the end.
CONSTANTS
  MaxInterval = 3
  MaxStarts = 3
SPECIFICATION IntervalSpec
INVARIANTS
  QuietAfterStop
PROPERTIES
  StopReturns
  KeepsCallingBack
