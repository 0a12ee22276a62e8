SPECIFICATION Spec
CONSTANTS
  Release = {"old", "new", "lacking", "wrong"}
  Fit = {"old", "new", "lacking"}
  Complete = {"old", "new"}
  First = "old"
  Damaged = "damaged"
  Cut = "cut"
  None = "none"
  MaxUpdates = 2
  MaxFaults = 2
INVARIANTS InstalledAsTold
PROPERTIES RollbackKept UpdateEnds
