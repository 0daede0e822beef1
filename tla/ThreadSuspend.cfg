SPECIFICATION MCSpec
CONSTANTS
  Thread = {t1, t2, t3}
  NoThread = NoThread
  Collectors = {t1}
  Suspenders = {t2}
  Starters = {t1, t2}
  Mortals = {t2, t3}
  BufferSize = 2
  Pair = {t1, t2}
INVARIANTS TypeOK StopTheWorld ListedWhenManaged RequestHonoured RegionSettled WaiterWillBeWoken AborterWillBeWoken
