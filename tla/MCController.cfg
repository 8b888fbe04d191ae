SPECIFICATION ScenesSpec
CONSTANTS
  Scenes = {"contributor", "audit", "audit_rows", "backup_damage", "backup_race", "history_epochs", "history_nodes", "policy", "transactions", "workspaces", "federation_pair", "federation_work", "federation_replay", "federation_removal"}
  Network = TRUE
  Blocks = 3
  Writes = 3
  DEPTH = 2
  None = None
  Foreign = Foreign
  x1 = x1
  x2 = x2
  y1 = y1
  y2 = y2
  t1 = t1
  t2 = t2
  t3 = t3
INVARIANTS
  ScenesTypeOK
  AllOrNothing
  AuthorityCurrent
  RecordsKept
  AnswersTrue
PROPERTIES
  OwnedWrites
  RemovedVerified
SYMMETRY Symmetry
CHECK_DEADLOCK FALSE
