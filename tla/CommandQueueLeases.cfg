SPECIFICATION Spec
CONSTANTS
    u1 = u1
    u2 = u2
    Users <- OneUser
    Owner = u1
    Games <- OneGame
    MaxCmds = 3
    MaxSess = 2
    MaxBoot = 2
    MaxReqs = 1
    MaxTasks = 1
    MaxAttempts = 2
    ScanSize = 2
    FlagGames <- NoGames
    MachineReboots = FALSE
INVARIANTS TypeOK LeasesHold CancelledMeansOver OneLaunchPerUser
PROPERTIES PromotionByCurrentBoot NothingRevives
CHECK_DEADLOCK FALSE
