SPECIFICATION LiveSpec
CONSTANTS
  a1 = a1
  a2 = a2
  j1 = j1
  j2 = j2
  None = None
  Attempts = {a1}
  Jobs = {j1}
  Slots = {s1}
  Gpus = {g1}
  JobOf <- OneJob
  GenOf <- Generations
  CpuOf <- One
  GpuOf <- AllGpus
  Streamed = {}
  Limits = {1}
  Admits <- AllJobs
  MaxLease = 1
  MaxTime = 2
  MaxSeq = 2
  MaxRev = 1
  MaxBoot = 2
  StopTries = 1
PROPERTIES ExpiredStops
CHECK_DEADLOCK FALSE
