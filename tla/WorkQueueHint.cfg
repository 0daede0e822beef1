SPECIFICATION Spec
CONSTANTS
  Worker = {w1, w2, w3}
  Client = Client
  Finalizer = Finalizer
  ProcessorCount = 2
  Mortals = {}
  Disturbed = {}
  MaxItems = 3
SYMMETRY Symmetry
INVARIANTS InactiveIsEmpty
CHECK_DEADLOCK FALSE
