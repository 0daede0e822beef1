SPECIFICATION MCSpec
CONSTANTS
  Worker = {w1, w2}
  Client = Client
  Gate = Gate
  Finalizer = Finalizer
  MinThreads = {0, 1, 2}
  MaxThreads = {1, 2}
  MaxRequests = 2
  MaxChanges = 1
  MaxFailures = 1
  Owner = Owner
  Thief = s1
  Other = s2
  NoThread = NoThread
SYMMETRY Symmetry
INVARIANTS PoolTypeOK TakenOnce NothingLost AbsentWasTaken RequestsInSync NothingStranded CountsMatch RequestServed GateWatches
CHECK_DEADLOCK FALSE
