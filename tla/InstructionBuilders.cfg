SPECIFICATION BuilderSpec
CONSTANTS
    Pools <- MCPools
    Wallets <- MCWallets
    Amounts = {2}
    Wanted = {3}
    Estimates = {1, 2}
    Slippages = {0, 5000, 10000}
    MaxTrades = 2
INVARIANT NoAccountIsMissing
PROPERTY SpendsWithinAllowance
CHECK_DEADLOCK FALSE
