SPECIFICATION Spec
CONSTANTS
    Handles = {h1}
    NoHandle = nil
    Packets = {"message", "acked", "position", "other"}
    NoPacket = "nil"
    MaxInbox = 1
    Beacons = FALSE
    MaxInits = 1
    MaxRuns = 1
    MaxSaves = 3
    MaxNest = 2
CHECK_DEADLOCK FALSE
INVARIANTS
    ClosedIsReported
