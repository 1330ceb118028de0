\* Three projects, two nodes with room for two each, two workers.
SPECIFICATION Spec
CONSTANTS
  a = a
  b = b
  c = c
  Projects = {1, 2, 3}
  Workers = {a, b}
  Nodes = {1, 2}
  Stop <- StopEach
  RamTotal <- TotalEach
  Reconciles = {}
  Ram <- RamEach
  Disk <- DiskEach
  MaxSlot = 2
  Apart <- ApartByCallers
SYMMETRY WorkerSymmetry
INVARIANTS TypeOK Accounted NotOversold SlotsDistinct
