SPECIFICATION Spec
CONSTANTS
  Object = {o1, o2, o3}
  NoObject = NoObject
  Block = {b1, b2, b3}
  NoBlock = NoBlock
  InitialSize = 3
  Limit = 4
  CardSize = 2
  BlocksPerArray = 2
  MaxFailures = 1
SYMMETRY Symmetry
INVARIANTS TypeOK BackPointers EphemeralCarded BlocksPartitioned CleanupAnnounced
