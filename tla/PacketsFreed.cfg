SPECIFICATION Spec
CONSTANTS
    Handles = {h1, h2}
    Messages = {m1, m2}
    Positions = {p1}
    Others = {o1}
    Monitors = 2
    nil = nil
    Freed = freed
INVARIANTS
    PacketForEachCallback
