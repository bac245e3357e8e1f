----------------------- MODULE MCInstructionBuilders -----------------------
EXTENDS InstructionBuilders

Pool(dex, base, quote, variant) ==
    [dex |-> dex, base |-> base, quote |-> quote, variant |-> variant,
     state |-> "active", minimum |-> 0]
V3Curve(quote, state, minimum) ==
    [Pool("pumpfun", "T", quote, "V3") EXCEPT !.state = state, !.minimum = minimum]

\* Every builder with every kind of pool it tells apart.
MCPools ==
    {Pool("pumpfun", "T", q, v) : q \in {"WSOL", "USDC"}, v \in {"V1", "V2", "any"}}
    \cup {V3Curve("WSOL", s, 0) : s \in {"active", "graduating", "closed"}}
    \cup {V3Curve(q, "active", 3) : q \in {"WSOL", "USDC"}}
    \cup {Pool("pumpswap", "T", "WSOL", "-"), Pool("pumpswap", "WSOL", "T", "-"),
          Pool("pumpswap", "T", "USDC", "-")}
    \cup {Pool("bonk", "T", q, "-") : q \in {"WSOL", "USD1"}}
    \cup {Pool(d, "WSOL", q, "-") : d \in {"cpmm", "ammV4"}, q \in {"T", "USDC"}}
    \cup {Pool("cpmm", "T", "USDC", "-"), Pool("ammV4", "T", "USDC", "-"),
          Pool("cpmm", "USD1", "T", "-")}
    \cup {Pool("damm", "T", "WSOL", m) : m \in {"exactIn", "partial", "exactOut"}}
    \cup {Pool("damm", "USDC", "T", "partial")}

Wallet(sol, acct) == [ok |-> TRUE, sol |-> sol, acct |-> acct]
MCWallets ==
    {Wallet(4, [m \in {} |-> 0]), Wallet(3, [m \in Mints |-> 3]),
     Wallet(2, [m \in {"T", "WSOL"} |-> 2]), Wallet(0, [m \in {"USDC"} |-> 3])}
=============================================================================
