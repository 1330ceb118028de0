\* Two projects, two runners, one node with its reconciler running.
SPECIFICATION FairSpec
CONSTANTS
  Projects = {1, 2}
  a = a
  b = b
  c = c
  Workers = {a, b}
  Nodes = {1}
  Stop <- StopEach
  RamTotal <- TotalEach
  Reconciles = {1}
  Ram <- RamEach
  Disk <- DiskEach
  MaxSlot = 2
  Apart <- ApartByCallers
PROPERTIES RepairConverges
