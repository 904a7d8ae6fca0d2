CONSTANTS
    Quotes <- MCQuotes
    Off = Off
    None = None
    BPS_DENOM = 10000
    Grain = 1
    LANDING_SLOTS = 1
    BLOCKHASH_MAX_AGE_SLOTS = 3
    SEND_BACKOFF_MAX = 1
    Envs <- MCEnvs
    Default <- MCDefault
    Absent = Absent
    Placeholder = Placeholder
    Junk = Junk
    Limits = {5, 6}
    MaxLead = 1
    MaxStale = 7
    MaxFlight = 2
    MaxTrouble = 1

SPECIFICATION Spec
CHECK_DEADLOCK FALSE

INVARIANTS
    TypeOK
    NeverExpires
    RepeatsAreNew
    MisfitIsSeen
