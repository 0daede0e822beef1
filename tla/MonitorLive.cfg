SPECIFICATION LiveSpec
CONSTANTS
  Thread = {t1, t2, t3}
  First = t1
  Second = t2
  NoThread = NoThread
  SB = {s1}
  NoSB = NoSB
  TimedWaits = {TRUE, FALSE}
  PulseAlls = {TRUE, FALSE}
  OwnEvent <- MCOwnEvent
  Pool = {}
  MaxNesting = 1
  MaxEntries = 1
  MaxInterrupts = 0
  MaxRudeAborts = 0
  MaxStoreFailures = 0
  Hash = {h1}
  NoHash = NoHash
  NoBlock = NoBlock
PROPERTIES CallsReturn
CHECK_DEADLOCK FALSE
