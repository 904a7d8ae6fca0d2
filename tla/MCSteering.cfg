CONSTANTS
    BPS_DENOM = 100
    PRICE_SCALE = 10
    U64Max = 255
    U128Max = 100000
    I128Max = 50000
    Mids = {10}
    Spreads = {0}
    Skews = {0}
    Sizes = {3}
    Ages = {2}
    SkewBounds = {20}
    Holdings = {10, 12, 15}
    Amounts = {1}
    Models <- MCWide

SPECIFICATION Spec

INVARIANT BidSteersBack
