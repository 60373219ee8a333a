CONSTANTS
  Messages = {1, 2, 3}
  Users = {"u1", "u2"}
  Owner <- MCOwner
  Empty = {3}
  Untitled = {2}
  Unfit = {1}
  Batch = 1
  JobBatch = 1
  MaxChanges = 1
  MaxFaults = 1
SPECIFICATION Spec
INVARIANTS MarkedIsStored JobTruth
PROPERTIES IndexCatchesUp
CHECK_DEADLOCK FALSE
