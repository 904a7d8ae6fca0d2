CONSTANTS
    owner = owner
    engine = engine
    baseMint = baseMint
    quoteMint = quoteMint
    BPS_DENOM = 4
    PRICE_SCALE = 2
    RADIX = 2
    PRICE_SCALE_POW = 1
    MAX_SCALE = 3
    U64Max = 6
    U128Max = 255
    I128Max = 127
    Keys = {owner, engine}
    OwnerKey = owner
    DefaultKey = DefaultKey
    NoKey = NoKey
    Nil = Nil
    Mints = {baseMint, quoteMint}
    Base = baseMint
    Quote = quoteMint
    Extensions <- MCExtensions
    Decimals <- MCDecimals
    QuoteInputs <- MCQuoteInputs
    LimitInputs <- MCLimitInputs
    Amounts = {1, 2}
    Gifts = {1}
    MaxSlot = 2
    MaxUntold = 1
    Funds <- MCFunds
    Sets <- MCSets
    Limits <- MCLimits
    BLOCKHASH = 1
    Amm = Amm
    Rival = Rival
    Pools <- MCPools
    FeeBps = 1
    RouterOrders <- MCOrders
    NoView = NoView
    NoRoute = NoRoute
    Starts <- MCStatusStarts

SPECIFICATION DeskSpec
CHECK_DEADLOCK FALSE

INVARIANT FreshWhenShown
