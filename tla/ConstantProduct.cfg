SPECIFICATION MarketSpec
CONSTANTS
    MaxAmount = 20000000
    MaxWide = 40000000
    Amounts <- MCAmounts
    Slippages = {0, 500, 10000}
    Markets <- MCMarkets
    Purse = 60
    MaxTrades = 4
INVARIANTS VaultSolvent NothingGained QuotesCover
\* The trader stops after MaxTrades trades.
CHECK_DEADLOCK FALSE
