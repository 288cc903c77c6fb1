SPECIFICATION MCFairSpec
CONSTANTS
  Parts = {"recovers", "dead", "switched"}
CHECK_DEADLOCK FALSE
PROPERTIES
  MarkFollowsHealth
