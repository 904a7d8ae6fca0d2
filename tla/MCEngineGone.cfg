CONSTANTS
    Quotes <- MCFar
    Threshold = 1
    MaxInFlight = 1
    MaxFaults = 1
    Off = Off
    Unknown = Unknown
    NoOrder = NoOrder
    Silent = Silent
    Unquotable = Unquotable
    NoPrice = NoPrice

SPECIFICATION FairSpec
CHECK_DEADLOCK FALSE

PROPERTY GoneIsOff
