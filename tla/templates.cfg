SPECIFICATION TemplateSpec
CONSTANTS
  MaxTime = 4
  Rules <- TwoRules
  Shifts <- NearShift
  HorizonDays = 2
  TPollers = {w1, w2}
  Setups <- Plain
  TOps = {"skip", "shift", "regenerate", "horizon", "disable", "enable", "rule", "drop", "delete", "cancel", "fault"}
  MaxTOps = 2
INVARIANTS OneLivePerRole EditionsKept SkipHolds RoundsAccounted
CHECK_DEADLOCK FALSE
