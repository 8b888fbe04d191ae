SPECIFICATION LiveSpec
CONSTANTS
  Scenes = {"job_live", "adapter_one", "editor_one"}
  None = None
  x1 = x1
  x2 = x2
PROPERTIES
  OutcomesArrive
CHECK_DEADLOCK FALSE
