SPECIFICATION MCSpec
CONSTANTS
  Schedule <- ScheduleDef
  OverloadFloor = 15
  Second = 5
  HalfRange = 128
  Headers <- HeadersDef
  Parts = {"retry", "keys", "intake", "shares", "stable", "log", "replay", "admin", "rollover", "types", "agree", "lookup"}
CHECK_DEADLOCK FALSE
INVARIANTS
  RetriesAreBounded
  KeysAnswerOnce
  IntakeIsSound
  LimitIsKept
  LogReadsAreExact
  ReplayTakesTheFailed
  RolloverHasNoGap
  EditsAreKept
  OperationalEventsArrive
PROPERTIES
  RetiredStaysRetired
