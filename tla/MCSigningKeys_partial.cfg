SPECIFICATION Spec
CONSTANTS
  None = None
  Keys = {k1, k2}
  MaxFaults = 1
SYMMETRY Symmetry
INVARIANTS MintedIsOnePair
CHECK_DEADLOCK FALSE
