SPECIFICATION Spec
CONSTANTS
    v1 = v1
    p1 = p1
    None = None
    Tokens <- BothTokens
    Players <- OnePlayer
    MaxPcs = 3
    MaxGuests = 3
INVARIANTS PeersTracked
PROPERTIES NoCancelUnderHost ClaimKept
CHECK_DEADLOCK FALSE
