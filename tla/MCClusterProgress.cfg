SPECIFICATION MCFairSpec
CONSTANTS
  Parts = {"leases", "maintenance", "snapshot"}
CHECK_DEADLOCK FALSE
PROPERTIES
  SharesSettle
  PartitionsCatchUp
  ChangesArrive
