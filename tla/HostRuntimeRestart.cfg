SPECIFICATION HostSpec
CONSTANTS
    u1 = u1
    Users <- OneUser
    Owner = u1
    Games <- OneGame
    MaxCmds = 2
    MaxSess = 1
    MaxBoot = 2
    MaxReqs = 1
    MaxTasks = 1
    MaxAttempts = 2
    ScanSize = 1
    FlagGames <- NoGames
    MachineReboots = FALSE
    MaxTries = 2
    LostReplies = FALSE
INVARIANTS PromotedHasRuntime CoresAccounted
PROPERTIES DeathIsReported
CHECK_DEADLOCK FALSE
