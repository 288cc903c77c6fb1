SPECIFICATION MCSpec
CONSTANTS
  n1 = n1
  n2 = n2
  n3 = n3
  None = None
  e1 = e1
  e2 = e2
  Parts = {"leases", "maintenance", "deploy", "drain", "snapshot"}
SYMMETRY Symmetry
CHECK_DEADLOCK FALSE
INVARIANTS
  LeasesHold
  MaintenanceKeepsUp
  ProcessesAreOrderly
  SnapshotIsTrusted
PROPERTIES
  NothingIsUndone
