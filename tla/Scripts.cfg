SPECIFICATION Spec
CONSTANTS
    nil = nil
    Trackers = {s1, s2}
    Fires = {f1, f2}
    Positions = {p1, p2}
    EndPoints = {e1, e2, e3}
    Stations = {t1, t2, t3}
    Places = {0, 200}
    Threshold = 200
    Patterns = {{t2, t3}}
    Handles = {h1, h2}
    Messages = {m1, m2}
    Reports = {r1}
    Others = {o1}
    Monitors = 2
    Freed = freed
    Numbered = {n1, n2}
    AckLike = {n2}
    Crashes = TRUE
    Main = main
    Workers = {w1, w2}
    Careless = {w1}
CHECK_DEADLOCK FALSE
INVARIANTS
    TypeOK
    
    SkipIsCurrent
    PacketsHandled
    ThreadsJoined
    ConfirmedHandled
    RepeatedByTrouble
PROPERTIES
    SourcesPolled
    
