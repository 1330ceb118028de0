\* Two keypairs (a provisioning and a rotation) and three crashes.
SPECIFICATION Spec
CONSTANTS
  None = None
  Keys = {k1, k2}
  MaxFaults = 3
SYMMETRY Symmetry
INVARIANTS TypeOK SignedIsPublished StoredKeysVerify PrivateHalfKept CacheCovers
CHECK_DEADLOCK FALSE
