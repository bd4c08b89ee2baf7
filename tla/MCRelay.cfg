SPECIFICATION FairSpec
CONSTANTS
    Sockets = {s1, s2}
    Requests = {r1}
    None = None
    BaseDelay = 1
    MaxDelay = 4
INVARIANTS
    TypeOK
    SingleConnection
    Supervised
    NeverStuck
    CloseIsFinal
PROPERTIES
    ReplyDelivery
    RejectionIsTerminal
    HalfOpenDetected
    ReconnectsAutomatically
CHECK_DEADLOCK FALSE
