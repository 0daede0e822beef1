SPECIFICATION MCSpec
CONSTANTS
  Thread = {t1, t2, t3}
  NoThread = NoThread
  EnterOps = {"Enter", "Contention", "TryEnter", "TryEnterTimed"}
  TimeOut = 0
  MaxRecursion = 2
  MaxExceptions = 1
  LargeId = {t3}
  MaxThinRecursion = 1
  MaxEntries = 3
  Hash = {h1, h2}
  NoHash = NoHash
  NoBlock = NoBlock
  SB = {s1}
  NoSB = NoSB
  WaitEntries = 2
  WaitInterrupts = 1
SYMMETRY Symmetry
INVARIANTS MonitorTypeOK MutualExclusion NoLostWakeup WaiterAccounting PinnedWhileUsed HashStable NoUseAfterDeflation RemovedBySignaller NoLostPulse NoDanglingLink PulsedLinkAlive
PROPERTIES ImplementsMonitor HeaderFrozen HeaderImplementsMonitor
