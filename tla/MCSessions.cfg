SPECIFICATION ScenesSpec
CONSTANTS
  Scenes = {"access_local", "access_remote", "renewal_pair", "renewal_kills", "ssh_race", "ssh_trust", "ssh_lapse", "migration", "inspection_files", "inspection_lineage", "inspection_ends", "source_runs", "source_serial", "terminal_tmux", "terminal_pair", "viewer", "module_versions", "module_calls", "endpoint_pair", "records_share"}
  Dir = {"a", "b"}
  EDITS = 2
  CRASHES = 2
  None = None
  x1 = x1
  x2 = x2
  y1 = y1
  y2 = y2
  t1 = t1
  t2 = t2
  t3 = t3
INVARIANTS
  ScenesTypeOK
  ServesHome
  ActsOnCurrent
  HeldAccounted
  EndsTrue
  ServedThroughout
PROPERTIES
  RetainedUntilImported
  NothingUndone
SYMMETRY Symmetry
CHECK_DEADLOCK FALSE
