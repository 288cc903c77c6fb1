SPECIFICATION MCFairSpec
CONSTANTS
  Parts = {"client", "process", "keys", "counts", "replay"}
CHECK_DEADLOCK FALSE
PROPERTIES
  WorkEnds
  KeyIsNotWedged
  CountsConverge
  RepeatedRecoveryReaches
