CONSTANTS
    BPS_DENOM = 4
    PRICE_SCALE = 3
    U64Max = 15
    U128Max = 255
    I128Max = 127
    Mids = {0, 1, 2, 5, 9}
    Spreads = {0, 1, 3, 4}
    Skews <- MCSkews
    Sizes = {3, 15}
    Ages = {2}
    SkewBounds = {0, 2}
    Holdings = {0, 1, 4, 9, 15}
    Amounts = {0, 1, 2, 3, 4, 5, 6, 9, 15}
    Models <- MCModels

SPECIFICATION Spec

INVARIANTS
    RoundTripNeverProfits
    SplittingNeverPays
    PricesAreTight
    SkewIsSymmetricShare
    QuotedIsExecutable
    AcceptedOrdersAreSafe
    ModelSteersBack
