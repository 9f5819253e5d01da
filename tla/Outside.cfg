SPECIFICATION FairSpec
CONSTANTS
    MinIdleTime = 5
    Delay = 3
    Rounds = {1, 2, 4}
    Chains = {c1, c2, c3}
    Connections = {k1, k2}
    nil = nil
CHECK_DEADLOCK FALSE
INVARIANTS
    PresenceKept
    ChainsBounded
PROPERTIES
    RoundsGoOn
