SPECIFICATION Spec
CONSTANTS
  a1 = a1
  a2 = a2
  j1 = j1
  j2 = j2
  None = None
  Attempts = {a1}
  Jobs = {j1}
  Slots = {s1}
  Gpus = {g1}
  JobOf <- OneJob
  GenOf <- Generations
  CpuOf <- One
  GpuOf <- AllGpus
  Streamed = {a1}
  Limits = {1}
  Admits <- AllOrNone
  MaxLease = 1
  MaxTime = 2
  MaxSeq = 2
  MaxRev = 2
  MaxBoot = 2
  StopTries = 1
INVARIANT HonestOutcome
CHECK_DEADLOCK FALSE
