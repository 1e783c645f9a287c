SPECIFICATION Spec
CONSTANTS
    Bps = 3
    MaxUint = 17
    MaxEth = 3
    MaxToken = 6
    AllParameters <- MCParameters
    Trades = {1, 2, 9}
    PoolReserves = {0, 17}
    Texts <- MCTexts
    MaxRows = 3
INVARIANTS
    ParametersAgree
    RebuildsMarket
    ServiceFaithful
    QuoteFaithful
    RoundsLikeReference
CHECK_DEADLOCK FALSE
