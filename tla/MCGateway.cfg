SPECIFICATION BeaconSpec
CONSTANTS
    Handles = {h1, h2}
    NoHandle = nil
    Packets = {"message", "acked", "position", "other"}
    NoPacket = "nil"
    MaxInbox = 1
    Beacons = TRUE
    MaxInits = 2
    MaxRuns = 2
    MaxSaves = 3
    MaxNest = 2
CHECK_DEADLOCK FALSE
INVARIANTS
    DisconnectedOnce
    RunEndsClean
    ExitCodeTellsReceive
    AnsweredAfterAck
    
PROPERTIES
    RunEnds
