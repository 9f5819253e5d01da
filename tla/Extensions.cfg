SPECIFICATION Spec
SYMMETRY Symmetry
CONSTANTS
    nil = nil
    Sockets = {s1}
    Descriptors = {d1, d2}
    Datas = {data1}
    Peers = {p1, p2}
    Size = 3
    MaxArrivals = 2
    Base = 4
    MachineIs = "LITTLE"
    Buffers = {b1, b2}
    Capacity = 3
    Widths = {1, 2}
    Values = {14}
    MaxCalls = 5
    Libraries = {Socket, ByteBuffer}
    Forgetful = {Socket}
    Requirers = {Socket}
    Shared = ByteBuffer
    Handles = {h1, h2, h3}
    ExitCodes = {1001, 33000}
    MaxLoads = 5
    TicksPerMs = 3
    Interval = 2
    Starts = {0, 1, 2, 3, 5}
    Works = {1, 4, 13}
    Lates = {0, 1, 2, 5}
    MaxNow = 32
CHECK_DEADLOCK FALSE
INVARIANTS
    TypeOK
    TransfersInOrder
    ResourcesBalanced
    GlobalsFollowLibraries
    TimeKept
PROPERTIES
    SocketsOwned
    IntegersKept
    OnScheduleAgain
