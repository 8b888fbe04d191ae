SPECIFICATION ScenesSpec
CONSTANTS
  Scenes = {"records_job", "loop_retry"}
  Jobs = {j1}
  Attempts = {a1, a2}
  Nodes = {n1, n2}
  JobOf <- TheJob
  GenOf <- TheGeneration
  NodeOf <- Places
  CpuOf <- TheCpu
  GpuOf <- TheGpu
  Capacity = 2
  Details = {"d"}
  Ledgers = {1}
  MaxLeases = 1
  Detail = "d"
  Outcomes = {"unknown"}
  Revocable = {}
  Unstable = {}
  Delayed = {"prepare", "start"}
  MaxLate = 1
  MaxLedgers = 1
  None = None
  a1 = a1
  a2 = a2
  j1 = j1
  n1 = n1
  n2 = n2
INVARIANTS
  ScenesTypeOK
  ValidRecords
  OlderReleased
  JobMirrorsAttempt
  OneRunPerJob
  RowsAgree
PROPERTIES
  OutcomeFixed
CHECK_DEADLOCK FALSE
