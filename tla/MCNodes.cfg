SPECIFICATION ScenesSpec
CONSTANTS
  Scenes = {"adapter_pair", "agent_direct", "agent_late", "agent_outbox", "editor_race", "editor_late", "editor_batch", "inference_control", "inference_attached", "inference_pair", "inference_gateway", "inference_endpoint", "job_pair", "job_one", "model_power", "model_read", "model_share", "inputs_stage", "inputs_cache", "loop_reinstall", "loop_pair", "board"}
  None = None
  x1 = x1
  x2 = x2
INVARIANTS
  ScenesTypeOK
  DoneOnce
  OutcomesTrue
  ContentKept
PROPERTIES
  DecisionsStand
SYMMETRY Symmetry
CHECK_DEADLOCK FALSE
