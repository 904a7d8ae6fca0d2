CONSTANTS
    k1 = k1
    k2 = k2
    plain = plain
    meta = meta
    fee = fee
    BPS_DENOM = 4
    PRICE_SCALE = 2
    U64Max = 6
    U128Max = 255
    I128Max = 127
    Keys = {k1, k2}
    DefaultKey = DefaultKey
    Mints = {plain, meta, fee}
    Extensions <- MCExtensions
    QuoteInputs <- MCQuotes
    LimitInputs <- MCLimits
    Amounts = {0, 1, 2, 3}
    Gifts = {1}
    MaxSlot = 3
    MaxUntold = 1

SPECIFICATION Spec
SYMMETRY Symmetry

INVARIANTS
    TypeOK
    PriceIsTheAuthoritys
    PriceIsWhole
    EventsTellTheState

PROPERTIES
    WorthNeverFalls
    TradingKeepsBalance
    HaltFreezesTrading
    ImplementsQuoteBook
