SPECIFICATION Spec
CONSTANTS
  Thread = {t1, t2, t3}
  NoThread = NoThread
  EnterOps = {"Enter", "Contention", "TryEnter", "TryEnterTimed"}
  TimeOut = 0
  MaxRecursion = 1
  MaxExceptions = 1
INVARIANTS CountedWaiterExists
