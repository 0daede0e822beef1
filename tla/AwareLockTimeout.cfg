SPECIFICATION Spec
CONSTANTS
  Thread = {t1, t2, t3}
  NoThread = NoThread
  EnterOps = {"Enter", "TryEnterTimed"}
  TimeOut = 1
  MaxRecursion = 1
  MaxExceptions = 0
INVARIANTS TimeOutHonoured
