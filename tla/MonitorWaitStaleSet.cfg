SPECIFICATION Spec
CONSTANTS
  Thread = {t1, t2}
  SB = {s1, s2}
  NoThread = NoThread
  NoSB = NoSB
  TimedWaits = {TRUE}
  PulseAlls = {FALSE}
  OwnEvent <- MCOwnEvent
  Pool = {e1, e2}
  MaxNesting = 2
  MaxEntries = 2
  MaxInterrupts = 0
  MaxRudeAborts = 0
  MaxStoreFailures = 0
INVARIANTS RemovedBySignaller
CHECK_DEADLOCK FALSE
