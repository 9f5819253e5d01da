SPECIFICATION FairSpec
CONSTANTS
    Messages = {m1, m2}
    AckLike = {m2}
    Crashes = TRUE
    nil = nil
CHECK_DEADLOCK FALSE
PROPERTIES
    MessagesDelivered
