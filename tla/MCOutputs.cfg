SPECIFICATION ScenesSpec
CONSTANTS
  Scenes = {"transfer", "transfer_late", "file_operation", "file_late", "module_batch", "module_nodes", "module_pair", "upload_parts", "upload_key", "podman_shared", "podman_copied", "proxmox", "publication_held", "publication_late", "viewer_bridge"}
  None = None
  Bad = Bad
  x1 = x1
  x2 = x2
  y1 = y1
  y2 = y2
INVARIANTS
  ScenesTypeOK
  ReportsTrue
  EffectsOwed
PROPERTIES
  NothingOverwritten
SYMMETRY Symmetry
CHECK_DEADLOCK FALSE
