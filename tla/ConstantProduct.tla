-------------------------- MODULE ConstantProduct --------------------------
(***************************************************************************)
(* The market arithmetic of src/calc/index.ts, pumpfun_exact.ts and        *)
(* pump_v3.ts, and a market that trades at the amounts it quotes.          *)
(*                                                                         *)
(* A quote is a set with at most one element: empty where the code throws. *)
(* The on-chain program is external: it moves exactly the quoted amounts.  *)
(* One trader trades against one pool, any number of times up to           *)
(* MaxTrades, through any of the functions that quote that pool.           *)
(***************************************************************************)
EXTENDS Integers, FiniteSets

CONSTANTS MaxAmount,       \* 2^64 - 1 in the code
          MaxWide,         \* 2^128 - 1 in the code
          Amounts,         \* the amounts a trader asks for
          Slippages,       \* slippage, in basis points
          Markets,         \* the pools a behaviour may start with
          Purse,           \* what the trader has of each token at first
          MaxTrades

ASSUME AmountsAssumption ==
    /\ MaxAmount \in Nat /\ MaxWide \in Nat /\ MaxAmount <= MaxWide
    /\ Amounts \subseteq 1..MaxAmount /\ Slippages \subseteq Nat
    /\ Purse \in Nat /\ MaxTrades \in Nat

MarketVenues == {"pumpswap", "pumpfun", "pumpV3", "curve", "bonk", "ammV4", "cpmm", "damm"}

\* The state a quote is computed from: of a pool or launch curve, and of a Pump v3 curve.
PoolStates ==
    [venue : MarketVenues \ {"pumpV3"}, base : Nat, vault : Nat, lp : Nat, protocol : Nat,
     creator : Nat, offset : Int, real : Nat]
CurveStates ==
    [venue : {"pumpV3"}, base : Nat, vault : Nat, left : Nat, real : Nat, balance : Int,
     migration : Nat, protocol : Nat, creator : Nat, complete : BOOLEAN, mayhem : BOOLEAN]

\* Only PumpSwap's quotes ask whether there is liquidity: the others are of pools that
\* were funded.  The supply of a token is a u64, what a PumpFun curve is priced by and
\* what the trader has of it together, so that no product of two is wider than MaxWide.
ASSUME MarketsAssumption ==
    /\ Markets \subseteq PoolStates \cup CurveStates
    /\ \A m \in Markets :
          /\ m.venue \notin {"pumpswap", "pumpV3"} => m.base > 0 /\ m.vault > 0
          /\ m.venue = "pumpfun" => (m.base + Purse) * (m.vault + Purse) <= MaxWide

VARIABLES market,    \* venue, reserves and fee rates of the pool
          base,      \* what the trader holds of the base token
          quote,     \* ... and of the quote token
          trades     \* how often the trader traded

marketVars == <<market, base, quote, trades>>

Least(a, b) == IF a < b THEN a ELSE b
Most(a, b) == IF a > b THEN a ELSE b
IsAmount(a) == a \in 0..MaxAmount
NoQuote == {}

-----------------------------------------------------------------------------
(* Rounding, fees and slippage. *)

computeFee(amount, bps) == (amount * bps + 9999) \div 10000
ceilDivBug(a, b) == a \div b
ceilDiv(a, b) == (a \div b) + (IF a % b = 0 THEN 0 ELSE 1)
ClampBps(bps) == Least(bps, 9999)
calculateWithSlippageBuy(amount, bps) ==
    Least(amount + (amount * ClampBps(bps)) \div 10000, MaxAmount)
calculateWithSlippageSell(amount, bps) == amount - (amount * ClampBps(bps)) \div 10000
minimumPumpSwapOutput(amount, bps) == (amount * (10000 - ClampBps(bps))) \div 10000

-----------------------------------------------------------------------------
(* PumpSwap: a pool whose quote side is its vault plus a signed offset.    *)
(* A pool m has base, vault, offset and the three fee rates.               *)

effectiveQuoteReserves(m) == m.vault + m.offset
legacyPumpSwapFeeBasisPoints(m, hasCoinCreator) ==
    [m EXCEPT !.lp = 25, !.protocol = 5, !.creator = IF hasCoinCreator THEN 5 ELSE 0]
ThreeFees(m, amount) ==
    computeFee(amount, m.lp) + computeFee(amount, m.protocol) + computeFee(amount, m.creator)
\* What both sides of every PumpSwap quote require of the pool.
HasLiquidity(m) ==
    m.base > 0 /\ m.vault > 0 /\ effectiveQuoteReserves(m) \in 1..MaxAmount

buyBaseInput(m, amount, bps) ==
    IF ~HasLiquidity(m) \/ amount >= m.base THEN NoQuote
    ELSE LET raw == ceilDiv(effectiveQuoteReserves(m) * amount, m.base - amount)
             ui == raw + ThreeFees(m, raw)
         IN  IF ~IsAmount(raw) \/ ~IsAmount(ui) THEN NoQuote
             ELSE {[raw |-> raw, ui |-> ui, max |-> calculateWithSlippageBuy(ui, bps)]}

buyQuoteInputBug(m, amount, bps) ==
    LET raw == (amount * 10000) \div (10000 + m.lp + m.protocol + m.creator)
        out == (m.base * raw) \div (effectiveQuoteReserves(m) + raw)
    IN  {[base |-> out, raw |-> raw, max |-> calculateWithSlippageBuy(amount, bps)]}
buyQuoteInput(m, amount, bps) ==
    LET net == (amount * 10000) \div (10000 + m.lp + m.protocol + m.creator)
        over == Most(0, net + ThreeFees(m, net) - amount)
        raw == net - over
        out == (m.base * (raw - 1)) \div (effectiveQuoteReserves(m) + raw - 1)
    IN  IF ~HasLiquidity(m) \/ raw <= 0 THEN NoQuote
        ELSE {[base |-> out, raw |-> raw, max |-> calculateWithSlippageBuy(amount, bps)]}

\* The vault pays the output and the fees, except the part left to liquidity providers.
PaidByVaultBug(m, raw) == raw <= effectiveQuoteReserves(m)
PaidByVault(m, raw) == raw - computeFee(raw, m.lp) <= m.vault

sellBaseInput(m, amount, bps) ==
    LET raw == (effectiveQuoteReserves(m) * amount) \div (m.base + amount)
        ui == raw - ThreeFees(m, raw)
    IN  IF ~HasLiquidity(m) \/ ui < 0 \/ ~PaidByVault(m, raw) THEN NoQuote
        ELSE {[raw |-> raw, ui |-> ui, min |-> minimumPumpSwapOutput(ui, bps)]}

calculateQuoteAmountOut(m, amount) ==
    LET left == 10000 - m.lp - m.protocol - m.creator
    IN  IF left <= 0 THEN NoQuote ELSE {ceilDiv(amount * 10000, left)} \cap 0..MaxAmount

sellQuoteInput(m, amount, bps) ==
    LET needed(r) == ceilDiv(m.base * r, effectiveQuoteReserves(m) - r)
    IN  IF ~HasLiquidity(m) \/ amount > m.vault THEN NoQuote
        ELSE {[raw |-> r, base |-> needed(r), min |-> minimumPumpSwapOutput(amount, bps)] :
                r \in {q \in calculateQuoteAmountOut(m, amount) :
                          /\ PaidByVault(m, q) /\ q < effectiveQuoteReserves(m)
                          /\ IsAmount(needed(q))}}

-----------------------------------------------------------------------------
(* PumpFun: virtual reserves base and vault, of which real can be bought.  *)

pumpFunBuyExact(m, amount) ==
    LET net == (amount * 10000) \div (m.protocol + 10000)
        curveIn == Most(net - 1, 0)
        out == IF curveIn * m.base > MaxWide THEN 0
               ELSE (curveIn * m.base) \div (m.vault + curveIn)
    IN  IF m.base = 0 \/ curveIn = 0 \/ m.vault + curveIn > MaxWide THEN 0
        ELSE Least(Least(out, m.real), MaxAmount)

pumpFunSellExact(m, amount) ==
    LET sum == IF m.base + amount > MaxWide THEN 1 ELSE m.base + amount
        gross == (amount * m.vault) \div sum
    IN  IF m.base = 0 THEN 0
        ELSE IF amount * m.vault > MaxWide THEN MaxAmount
        ELSE Least(Most(gross - computeFee(gross, m.protocol), 0), MaxAmount)

\* The same curve as its decoded account prices it; a sale's fee is rounded down.
CurveReserves(m, amount) == (m.vault * m.base) \div (m.vault + amount) + 1
getBuyPrice(m, amount) ==
    IF CurveReserves(m, amount) > m.base THEN NoQuote
    ELSE {Least(m.base - CurveReserves(m, amount), m.real)}
getSellPrice(m, amount) ==
    LET gross == (amount * m.vault) \div (m.base + amount)
        fee == (gross * m.protocol) \div 10000
    IN  IF fee > gross THEN NoQuote ELSE {gross - fee}

-----------------------------------------------------------------------------
(* Bonk: fees of 25 and 100 basis points, each rounded down.               *)

BonkFees(amount) == (amount * 25) \div 10000 + (amount * 100) \div 10000
getBonkBuyTokenAmountFromSolAmount(m, amount, bps) ==
    LET net == amount - BonkFees(amount)
    IN  calculateWithSlippageSell((net * m.base) \div (m.vault + net), bps)
getBonkSellSolAmountFromTokenAmount(m, amount, bps) ==
    LET out == (amount * m.vault) \div (m.base + amount)
    IN  calculateWithSlippageSell(out - BonkFees(out), bps)

-----------------------------------------------------------------------------
(* Raydium and Meteora: reserves in and out, whichever side is which.      *)

raydiumAmmV4GetAmountOut(amount, in, out) ==
    IF in = 0 \/ out = 0 THEN 0
    ELSE (amount * 9975 * out) \div (in * 10000 + amount * 9975)
\* ceilDiv validates its operands as u64, the products of two reserves are not.
raydiumAmmV4GetAmountIn(amount, in, out) ==
    IF in = 0 \/ out = 0 \/ amount >= out THEN {0}
    ELSE IF in * amount * 10000 > MaxAmount \/ (out - amount) * 9975 > MaxAmount THEN NoQuote
    ELSE {ceilDiv(in * amount * 10000, (out - amount) * 9975)}
\* The swap fee is a share of the trade fee, in the input token, taken from the output.
computeRaydiumAmmV4SwapAmount(amount, in, out) ==
    LET fee == computeFee(amount, 25)
        net == amount - fee
    IN  (out * net) \div (in + net) - (fee * 25) \div 10000
computeRaydiumCpmmSwapAmount(amount, in, out) ==
    LET net == amount - (amount * 2500 + 999999) \div 1000000
    IN  (out * net) \div (in + net)
meteoraDammV2GetAmountOut(amount, in, out, bps) ==
    LET net == (amount * (10000 - bps)) \div 10000
    IN  IF bps >= 10000 \/ in = 0 \/ out = 0 THEN 0 ELSE (net * out) \div (in + net)
meteoraDammV2GetAmountIn(amount, in, out, bps) ==
    IF bps >= 10000 \/ in = 0 \/ out = 0 \/ amount >= out THEN 0
    ELSE LET gross == ceilDiv(ceilDiv(in * amount, out - amount) * 10000, 10000 - bps)
         IN  IF gross > MaxAmount THEN 0 ELSE gross

-----------------------------------------------------------------------------
(* Pump v3: the buy that completes the curve continues in the pool to be.  *)
(* The curve c has base, vault, left (base still to sell), real (quote),   *)
(* balance, migration, protocol, creator, complete and mayhem.             *)

ValidCurve(c) ==
    ~c.complete /\ c.base > c.left /\ c.vault > 0 /\ c.protocol + c.creator <= 10000
TwoFees(c, amount) == computeFee(amount, c.protocol) + computeFee(amount, c.creator)
NetOf(c, budget) ==
    LET n == (budget * 10000) \div (10000 + c.protocol + c.creator)
    IN  n - Most(0, n + TwoFees(c, n) - budget)
curveCost(c, amount) ==
    IF amount = 0 THEN 0 ELSE (amount * c.vault) \div (c.base - amount) + 1
PoolToBe(c, cost) ==
    LET b == c.balance - c.left  q == c.real + cost - c.migration
    IN  IF b <= 0 \/ q <= 0 THEN NoQuote ELSE {[base |-> b, quote |-> q]}
QuoteV3(c, curveBase, curveQuote, poolBase, poolQuote) ==
    LET in == curveQuote + poolQuote + TwoFees(c, curveQuote) + TwoFees(c, poolQuote)
    IN  IF ~IsAmount(curveBase + poolBase) \/ ~IsAmount(in) THEN NoQuote
        ELSE {[out |-> curveBase + poolBase, in |-> in, curveBase |-> curveBase,
               curveQuote |-> curveQuote]}

quotePumpBuyV3ExactOut(c, amount, partialFill) ==
    LET fromCurve == Least(amount, c.left)
        cost == curveCost(c, fromCurve)
        rest == amount - fromCurve
    IN  IF ~ValidCurve(c) \/ (rest > 0 /\ c.mayhem /\ ~partialFill) THEN NoQuote
        ELSE IF rest = 0 \/ c.mayhem THEN QuoteV3(c, fromCurve, cost, 0, 0)
        ELSE UNION {QuoteV3(c, fromCurve, cost, rest, ceilDiv(p.quote * rest, p.base - rest)) :
                       p \in {q \in PoolToBe(c, cost) : rest < q.base}}

quotePumpBuyV3ExactIn(c, budget) ==
    LET n == NetOf(c, budget)
        tokens == ((n - 1) * c.base) \div (c.vault + n - 1)
        fromCurve == Least(tokens, c.left)
        cost == curveCost(c, fromCurve)
        leg == NetOf(c, budget - cost - TwoFees(c, cost))
        fromPool(p) == ((leg - 1) * p.base) \div (p.quote + leg - 1)
    IN  IF ~ValidCurve(c) THEN NoQuote
        ELSE IF n <= 1 THEN QuoteV3(c, 0, 0, 0, 0)
        ELSE IF tokens <= c.left \/ c.mayhem \/ leg <= 1 THEN QuoteV3(c, fromCurve, cost, 0, 0)
        ELSE UNION {IF fromPool(p) = 0 THEN QuoteV3(c, fromCurve, cost, 0, 0)
                    ELSE QuoteV3(c, fromCurve, cost, fromPool(p), leg) : p \in PoolToBe(c, cost)}

-----------------------------------------------------------------------------
(* The market: the trader trades what it was quoted. *)

MarketInit == market \in Markets /\ base = Purse /\ quote = Purse /\ trades = 0

\* The trader pays p.quote for p.base tokens, or the reverse where they are negative.
Settle(p, pool) ==
    /\ trades < MaxTrades /\ trades' = trades + 1
    /\ base + p.base >= 0 /\ quote - p.quote >= 0
    /\ base' = base + p.base /\ quote' = quote - p.quote
    /\ market' = pool

\* PumpSwap keeps the fee of its liquidity providers in the vault.
AfterPumpSwap(m, out, raw) ==
    [m EXCEPT !.base = @ - out, !.vault = @ + raw + computeFee(IF raw < 0 THEN -raw ELSE raw, m.lp)]

BuyBase(a) ==
    /\ market.venue = "pumpswap"
    /\ \E q \in buyBaseInput(market, a, 0) :
          Settle([base |-> a, quote |-> q.ui], AfterPumpSwap(market, a, q.raw))

BuyQuote(a) ==
    /\ market.venue = "pumpswap"
    /\ \E q \in buyQuoteInput(market, a, 0) :
          Settle([base |-> q.base, quote |-> q.raw + ThreeFees(market, q.raw)],
                 AfterPumpSwap(market, q.base, q.raw))

SellBase(a) ==
    /\ market.venue = "pumpswap"
    /\ \E q \in sellBaseInput(market, a, 0) :
          Settle([base |-> -a, quote |-> -q.ui], AfterPumpSwap(market, -a, -q.raw))

\* What sellQuoteInput asks for is sold as it is, and paid as a sale.
SellQuote(a) ==
    /\ market.venue = "pumpswap"
    /\ \E q \in sellQuoteInput(market, a, 0) :
          \E r \in sellBaseInput(market, q.base, 0) :
             Settle([base |-> -q.base, quote |-> -r.ui], AfterPumpSwap(market, -q.base, -r.raw))

BuyV3(a) ==
    /\ market.venue = "pumpV3"
    /\ \E q \in quotePumpBuyV3ExactIn(market, a) \cup quotePumpBuyV3ExactOut(market, a, TRUE) :
          Settle([base |-> q.out, quote |-> q.in],
                 [market EXCEPT !.base = @ - q.curveBase, !.vault = @ + q.curveQuote,
                                !.left = @ - q.curveBase, !.real = @ + q.curveQuote,
                                !.balance = @ - q.curveBase,
                                !.complete = (q.curveBase = market.left)])

\* What the other venues give for an amount, and what of it reaches the reserves.
OutOf(m, a, in, out) ==
    CASE m.venue = "ammV4" -> computeRaydiumAmmV4SwapAmount(a, in, out)
      [] m.venue = "cpmm" -> computeRaydiumCpmmSwapAmount(a, in, out)
      [] m.venue = "damm" -> meteoraDammV2GetAmountOut(a, in, out, m.lp)

SwapReserves(a) ==
    /\ market.venue \in {"ammV4", "cpmm", "damm"}
    /\ \/ LET out == OutOf(market, a, market.vault, market.base)
          IN  Settle([base |-> out, quote |-> a],
                     [market EXCEPT !.base = @ - out, !.vault = @ + a])
       \/ LET out == OutOf(market, a, market.base, market.vault)
          IN  Settle([base |-> -a, quote |-> -out],
                     [market EXCEPT !.base = @ + a, !.vault = @ - out])

CurveAccount(a) ==
    /\ market.venue = "curve"
    /\ \/ \E out \in getBuyPrice(market, a) :
             Settle([base |-> out, quote |-> a],
                    [market EXCEPT !.base = @ - out, !.real = @ - out, !.vault = @ + a])
       \/ \E out \in getSellPrice(market, a) :
             Settle([base |-> -a, quote |-> -out],
                    [market EXCEPT !.base = @ + a, !.real = @ + a,
                                   !.vault = @ - (a * market.vault) \div (market.base + a)])

\* A launchpad takes its fees from the quote side.
BuyFromCurve(a) ==
    \/ /\ market.venue = "pumpfun"
       /\ LET out == pumpFunBuyExact(market, a)
              net == (a * 10000) \div (market.protocol + 10000)
          IN  Settle([base |-> out, quote |-> a],
                     [market EXCEPT !.base = @ - out, !.real = @ - out, !.vault = @ + net])
    \/ /\ market.venue = "bonk"
       /\ LET out == getBonkBuyTokenAmountFromSolAmount(market, a, 0)
          IN  Settle([base |-> out, quote |-> a],
                     [market EXCEPT !.base = @ - out, !.vault = @ + a - BonkFees(a)])

SellToCurve(a) ==
    \/ /\ market.venue = "pumpfun"
       /\ Settle([base |-> -a, quote |-> -pumpFunSellExact(market, a)],
                 [market EXCEPT !.base = @ + a, !.real = @ + a,
                                !.vault = @ - (a * market.vault) \div (market.base + a)])
    \/ /\ market.venue = "bonk"
       /\ Settle([base |-> -a, quote |-> -getBonkSellSolAmountFromTokenAmount(market, a, 0)],
                 [market EXCEPT !.base = @ + a,
                                !.vault = @ - (a * market.vault) \div (market.base + a)])

MarketNext == \E a \in Amounts :
    \/ BuyBase(a) \/ BuyQuote(a) \/ SellBase(a) \/ SellQuote(a)
    \/ BuyV3(a) \/ SwapReserves(a) \/ CurveAccount(a) \/ BuyFromCurve(a) \/ SellToCurve(a)

MarketSpec == MarketInit /\ [][MarketNext]_marketVars

-----------------------------------------------------------------------------
(* Properties *)

\* No sequence of quoted trades overdraws the pool: neither its base side nor, where
\* virtual reserves raise the price a sale is quoted at, the vault that has to pay it.
VaultSolvent ==
    /\ market.venue \in MarketVenues /\ base \in Nat /\ quote \in Nat /\ trades \in 0..MaxTrades
    /\ market.base \in Nat /\ market.vault \in Nat /\ market.real \in Nat

\* Rounding never pays: whatever sequence of buys and sells a trader makes at the quoted
\* amounts, it never ends with at least as much of both tokens and more of one.
NothingGained == base >= Purse /\ quote >= Purse => base = Purse /\ quote = Purse

\* Fees rounded one by one: what a sale for a given amount of quote may fall short by.
ShortBy == 2

\* The two directions of a quote agree: what a budget is said to buy can be bought for
\* that budget, and what an output is said to cost brings that output when it is paid.
QuotesCover == \A a \in Amounts :
    /\ market.venue = "pumpswap" =>
          /\ \A q \in buyQuoteInput(market, a, 0) : q.base = 0 \/
                \E r \in buyBaseInput(market, q.base, 0) : r.ui <= a
          /\ \A q \in sellQuoteInput(market, a, 0), r \in Slippages :
                \A s \in sellBaseInput(market, q.base, r) : s.ui >= a - ShortBy /\ s.min <= s.ui
    /\ market.venue = "pumpV3" =>
          \A q \in quotePumpBuyV3ExactIn(market, a) :
             q.in <= a /\ \E r \in quotePumpBuyV3ExactOut(market, q.out, TRUE) : r.in <= a
    /\ market.venue = "ammV4" =>
          \A in \in raydiumAmmV4GetAmountIn(a, market.vault, market.base) :
             in = 0 \/ raydiumAmmV4GetAmountOut(in, market.vault, market.base) >= a
    /\ market.venue = "damm" =>
          LET in == meteoraDammV2GetAmountIn(a, market.vault, market.base, market.lp)
          IN  in = 0 \/ meteoraDammV2GetAmountOut(in, market.vault, market.base, market.lp) >= a
=============================================================================
