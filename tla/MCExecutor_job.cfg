SPECIFICATION Spec
CONSTANTS
  a1 = a1
  a2 = a2
  j1 = j1
  j2 = j2
  None = None
  Attempts = {a1, a2}
  Jobs = {j1}
  Slots = {s1, s2}
  Gpus = {}
  JobOf <- OneJob
  GenOf <- Generations
  CpuOf <- One
  GpuOf <- AllGpus
  Streamed = {}
  Limits = {2}
  Admits <- AllJobs
  MaxLease = 1
  MaxTime = 1
  MaxSeq = 1
  MaxRev = 1
  MaxBoot = 1
  StopTries = 1
INVARIANTS TypeOK WorkloadHeld Exclusive
PROPERTIES ImplementsBoard
SYMMETRY SlotSymmetry
CHECK_DEADLOCK FALSE
