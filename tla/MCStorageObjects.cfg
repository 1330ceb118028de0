\* Two requests over two paths, two presigned uploads, the sweep, and a crash or an error.
SPECIFICATION Spec
CONSTANTS
  Names = {a, b}
  Reqs = {r1, r2}
  Ids = {1, 2}
  MaxSize = 2
  Ceiling = 3
  Tolerance = 1
  MaxCalls = 3
  MaxFaults = 1
SYMMETRY Symmetry
INVARIANTS TypeOK RowDescribesBytes OvershootIsCrowded
PROPERTIES TrueUpIsTrue SweepIsThorough
CHECK_DEADLOCK FALSE
