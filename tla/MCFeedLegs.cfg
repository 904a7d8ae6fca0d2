CONSTANTS
    Legs = {b, q}
    Offers <- MCOffers
    Ages <- MCAges
    BPS_DENOM = 4
    MaxAge = 0
    MaxConfBps = 1
    ClockSkew = 0
    MinPause = 1
    MaxPause = 2
    Bound = 2
    Heartbeat = 2
    Retry = 1
    Busy = 1
    MaxQueue = 1
    None = None

SPECIFICATION Spec
CHECK_DEADLOCK FALSE

PROPERTIES
    RejectedStaysOff
