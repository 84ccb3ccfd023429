SPECIFICATION HostSpec
CONSTANTS
    u1 = u1
    Users <- OneUser
    Owner = u1
    Games <- OneGame
    MaxCmds = 3
    MaxSess = 2
    MaxBoot = 1
    MaxReqs = 1
    MaxTasks = 0
    MaxAttempts = 1
    ScanSize = 1
    FlagGames <- NoGames
    MachineReboots = FALSE
    MaxTries = 2
    LostReplies = TRUE
INVARIANTS StoppedMeansGone
CHECK_DEADLOCK FALSE
