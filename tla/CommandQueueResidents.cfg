SPECIFICATION Spec
CONSTANTS
    u1 = u1
    u2 = u2
    Users <- OneUser
    Owner = u1
    Games <- TwoGames
    MaxCmds = 2
    MaxSess = 2
    MaxBoot = 2
    MaxReqs = 0
    MaxTasks = 1
    MaxAttempts = 2
    ScanSize = 1
    FlagGames <- OneGame
    MachineReboots = FALSE
INVARIANTS OneResidentPerGame
PROPERTIES CurrentProcessIsHeard CommandSettles
CHECK_DEADLOCK FALSE
