SPECIFICATION LibrarySpec
CONSTANTS
  Workers = {w1, w2, w3}
  Jobs = {j1}
  dispatch = dispatch
  collect = collect
  None = None
  Second = 1
  Long = 2
  Uses <- SomeUses
  Durations <- SomeDurations
  MaxTime = 7
  MaxTasks = 2
INVARIANTS LibraryTypeOK FirstAlarmInTime LastWorkerStays
PROPERTIES FirstAlarmComes QueuedTaskRuns ShutdownEnds
\* All workers leave in a shutdown; at the horizon of the timer nothing happens.
CHECK_DEADLOCK FALSE
