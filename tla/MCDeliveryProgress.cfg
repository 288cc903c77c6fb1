CONSTANTS
  m1 = m1
  m2 = m2
  e2 = e2
  t1 = t1
  t2 = t2
  t3 = t3
  t4 = t4
  e1 = e1
  h1 = h1
  h2 = h2
  h3 = h3
  w1 = w1
  w2 = w2
  Workers = {w1}
  Handlers = {h1, h2}
  TaskIds = {t1, t2, t3}
  Msgs = {m1}
  Endpoints = {e1}
  Subscribed <- MCSubscribed
  Unsendable = {}
  ScheduleLen = 1
  ClaimBatchSize = 2
  MaxInflight = 2
  BufferSize = 2
  BatchSize = 2
  MaxFaults = 1
  None = None
SPECIFICATION FairSpec
CHECK_DEADLOCK FALSE
PROPERTIES
  QueueDrains
  OwedIsSettled
