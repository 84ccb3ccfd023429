SPECIFICATION Spec
CONSTANTS
  MaxLaunches = 2
  SlowLaunches = 1
  CmdCap = 1
  RespCap = 1
  MaxLates = 2
CHECK_DEADLOCK FALSE
INVARIANTS GoneIsGone AnswersFit
PROPERTIES SnapshotIsFresh BatteryKept BridgeEnds
