SPECIFICATION LinkSpec
CONSTANTS
  Outlet = {1, 2}
  Identified = {1}
  MaxTaps = 2
  MaxChanges = 2
INVARIANTS StaleAtMostOnce
PROPERTIES PageSettles
