CONSTANTS
  PoolSize = 1
  IceConfigs <- SomeIce
  Players = {1}
  MaxSaves = 2
  Alone = TRUE
  MaxUpgrades = 1
SPECIFICATION DaemonSpec
INVARIANTS PoolSound SavesKept UpdateHolds
PROPERTIES Restocked UpdateIsTold
CHECK_DEADLOCK FALSE
