\* The reserves of the incremental writer against the rebuild.
SPECIFICATION Spec
CONSTANTS
    t1 = t1
    u1 = u1
    Tokens = {t1}
    Users = {u1}
    Prices = {1, 2}
    Widths = {1, 2}
    Ops = {"launchBuy", "sell", "graduate", "swapBuy", "swapSell", "donate"}
    Supply = 4
    LpTokens = 2
    MaxTxs = 4
    MaxHeight = 3
INVARIANT ReservesAgree
