SPECIFICATION LiveSpec
CONSTANTS
  Worker = {t1, t2}
  First = t1
  Second = t2
  Client = Client
  Finalizer = Finalizer
  NoThread = NoThread
  ProcessorCount = 2
  Mortals = {t2}
  Disturbed = {t1}
  MaxItems = 2
PROPERTIES WorkHappens StoreReleased
CHECK_DEADLOCK FALSE
