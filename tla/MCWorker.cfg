SPECIFICATION MCSpec
CONSTANTS
  t1 = t1
  t2 = t2
  Tasks = {t1, t2}
  RequestTimeout = 3
  TaskLockTTL = 0
  LaneWaitTimeout = 2
  Slack = 1
  MaxInflight = 1
  ClaimBatchSize = 2
  MaxTime = 11
  Parts = {"time", "lane", "health", "events", "client"}
CHECK_DEADLOCK FALSE
INVARIANTS
  WithinBudget
  LaneAddsUp
  BreakerAdmitsOne
  BlipNeverDisables
  OutboundIsGuarded
