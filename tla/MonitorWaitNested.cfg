SPECIFICATION Spec
CONSTANTS
  Thread = {t1, t2}
  SB = {s1, s2}
  NoThread = NoThread
  NoSB = NoSB
  TimedWaits = {TRUE}
  PulseAlls = {FALSE}
  OwnEvent <- MCOwnEvent
  Pool = {e1, e2}
  MaxNesting = 2
  MaxEntries = 2
  MaxInterrupts = 1
  MaxRudeAborts = 1
  MaxStoreFailures = 1
SYMMETRY Symmetry
INVARIANT EventsExclusive
CHECK_DEADLOCK FALSE
