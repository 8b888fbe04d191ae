SPECIFICATION LiveSpec
CONSTANTS
  Scenes = {"access_issuer", "renewal_once", "ssh_lapse", "migration_alone", "inspection_ends", "source_one", "terminal_fair", "viewer_revoked", "module_call", "endpoint_plain"}
  Dir = {"a", "b"}
  EDITS = 2
  CRASHES = 2
  None = None
  x1 = x1
  x2 = x2
  y1 = y1
  y2 = y2
  t1 = t1
  t2 = t2
  t3 = t3
PROPERTIES
  SessionsEnd
CHECK_DEADLOCK FALSE
