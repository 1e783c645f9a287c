SPECIFICATION Spec
CONSTANTS
    t1 = t1
    t2 = t2
    u1 = u1
    u2 = u2
    Tokens = {t1, t2}
    Users = {u1, u2}
    Prices = {1, 2}
    Widths = {1, 2}
    Ops = {"launch", "launchBuy", "buy", "sell", "graduate", "swapBuy", "swapSell", "donate", "transfer", "mint", "burn", "claim", "factory"}
    Supply = 4
    LpTokens = 2
    MaxTxs = 3
    MaxHeight = 3
SYMMETRY Symmetry
INVARIANTS
    RebuildAgrees
    NeverRefused
PROPERTY ChangeMarksDirty
