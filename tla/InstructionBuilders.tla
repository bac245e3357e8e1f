------------------------ MODULE InstructionBuilders ------------------------
(***************************************************************************)
(* What the instruction builders of src/instruction put in a transaction,  *)
(* and what a wallet is left with when it lands.                           *)
(*                                                                         *)
(* A caller asks for a buy or a sell; a builder throws or answers with a   *)
(* sequence of instructions; the chain then runs all of them or none.  The *)
(* number a pool quotes is any number of Estimates (ConstantProduct is     *)
(* about that number): here it is what the builder makes of it.            *)
(*                                                                         *)
(* Rent, program accounts and the fee recipients are left out.  The chain  *)
(* is external: Run says what the runtime does with one instruction.       *)
(***************************************************************************)
EXTENDS Integers, Sequences, SequencesExt

CONSTANTS Pools,        \* pools and curves: dex, base, quote, variant
          Amounts, Wanted, Estimates, Slippages,
          Wallets,      \* the wallets a behaviour starts with
          MaxTrades

Mints == {"WSOL", "USDC", "USD1", "T"}
Coins == {"SOL", "WSOL", "USDC", "USD1"}     \* TradeTokenType
Sizings == {"ExactInput", "ExactOutput", "WithMaxInput"}
Policies == {"unset", "Auto", "HotPathMinimal", "CreateMissing"}
Stable == {"WSOL", "USDC"}

VARIABLES wallet,   \* lamports, and the balance of every token account there is
          trade,    \* what was asked for and built and has not landed, or NoTrade
          trades

walletVars == <<wallet, trade, trades>>

NoTrade == [dex |-> "none"]
Thrown == {}

IsWallet(w) ==
    /\ w = [ok |-> w.ok, sol |-> w.sol, acct |-> w.acct] /\ w.ok \in BOOLEAN /\ w.sol \in Nat
    /\ DOMAIN w.acct \subseteq Mints /\ w.acct \in [DOMAIN w.acct -> Nat]

\* A curve and a launch are of the traded token; only a V3 curve is given a minimum.
ASSUME PoolsAssumption ==
    \A p \in Pools :
        /\ {p.base, p.quote} \subseteq Mints /\ p.base # p.quote /\ p.minimum \in Nat
        /\ p.dex \in {"pumpfun", "bonk"} => p.base = "T"
        /\ p.dex = "pumpfun" => p.variant \in {"V1", "V2", "V3", "any"}
        /\ p.minimum # 0 => p.dex = "pumpfun" /\ p.variant = "V3"
ASSUME AmountsAssumption ==
    Amounts \cup Wanted \cup Estimates \cup Slippages \subseteq Nat
ASSUME WalletsAssumption == (\A w \in Wallets : IsWallet(w) /\ w.ok) /\ MaxTrades \in Nat

-----------------------------------------------------------------------------
(* Amounts, for a slippage that validateSlippage let through: the builders *)
(* that clamp begin to at 10000.  Most take the slippage off rounded down; *)
(* PumpSwap and AMM v4 round down what is left, which can be one less.  A  *)
(* sell minimum of the PumpFun builders is never below one.                *)

More(amount, bps) == amount + (amount * bps) \div 10000
Less(amount, bps) == amount - (amount * bps) \div 10000
minimumPumpSwapOutput(amount, bps) == (amount * (10000 - bps)) \div 10000
AtLeastOne(amount) == IF amount > 0 THEN amount ELSE 1

-----------------------------------------------------------------------------
(* Instructions. *)

Create(m) == <<[op |-> "create", mint |-> m, idempotent |-> TRUE]>>
CreateNew(m) == <<[op |-> "create", mint |-> m, idempotent |-> FALSE]>>
wrapSolOnly(n) == <<[op |-> "fund", amount |-> n]>>
Swap(mode, from, to, in, out) ==
    <<[op |-> "swap", mode |-> mode, from |-> from, to |-> to, in |-> in, out |-> out]>>
CloseAccount(m) == <<[op |-> "close", mint |-> m]>>
When(asked, instructions) == IF asked THEN instructions ELSE <<>>

handleWsol(n) == Create("WSOL") \o wrapSolOnly(n)
pushCreateOrWrapUserTokenAccount(m, n) ==
    Create(m) \o When(m = "WSOL", wrapSolOnly(n))
\* The seed account of wrapWsolToSol is the wallet's own wrapped account.
wrapWsolToSolWithoutCreate(n) ==
    <<[op |-> "move", mint |-> "WSOL", amount |-> n]>> \o CloseAccount("WSOL")
wrapWsolToSol(n) == Create("WSOL") \o wrapWsolToSolWithoutCreate(n)
claimCashbackPumpfun == <<[op |-> "claim", mint |-> "SOL"]>>
claimCashbackPumpswap == Create("WSOL") \o <<[op |-> "claim", mint |-> "WSOL"]>>

-----------------------------------------------------------------------------
(* A request r as TradingClient hands it to a builder.                     *)

Fixed(r) == IF r.sizing = "ExactOutput" THEN r.want ELSE 0
ExactSol(r) == r.sizing # "WithMaxInput"
CreatesInput(r) ==
    \/ r.policy = "CreateMissing"
    \/ r.policy = "unset" /\ r.pool.dex # "pumpfun"
CreatesOutput(r) ==
    IF r.side = "buy" THEN r.policy # "HotPathMinimal"
    ELSE r.policy = "CreateMissing" \/ (r.policy = "Auto" /\ r.coin # "SOL")

getInputMint(coin) == coin
Canonical(m) == IF m = "SOL" THEN "WSOL" ELSE m
isMintMatch(requested, expected) ==
    requested = expected \/ (expected = "WSOL" /\ requested = "SOL")

\* What most builders do around their swap.
BuyLayout(r, in, out, swap) ==
    When(CreatesInput(r), pushCreateOrWrapUserTokenAccount(in, r.amount))
        \o When(CreatesOutput(r), Create(out)) \o swap
        \o When(r.close /\ in = "WSOL", CloseAccount(in))
SellLayout(r, in, out, swap) ==
    When(CreatesOutput(r), Create(out)) \o swap
        \o When(r.close /\ out = "WSOL", CloseAccount(out))
        \o When(r.close, CloseAccount(in))
minAmountOut(r) ==
    IF r.pool.dex \in {"pumpswap", "ammV4"} THEN minimumPumpSwapOutput(r.estimate, r.bps)
    ELSE Less(r.estimate, r.bps)
SwapFor(r, in, out) ==
    IF Fixed(r) # 0 THEN Swap("exactOut", in, out, r.amount, Fixed(r))
    ELSE Swap("exactIn", in, out, r.amount, minAmountOut(r))

-----------------------------------------------------------------------------
(* Raydium CPMM: the side that is wSOL or USDC pays, whatever coin is named. *)

\* A buy looks for the paying side at the base first, a sell at the quote.
CpmmBuySides(r) ==
    IF r.pool.base \in Stable THEN <<r.pool.base, r.pool.quote>>
    ELSE <<r.pool.quote, r.pool.base>>
CpmmSellSides(r) ==
    IF r.pool.quote \in Stable THEN <<r.pool.base, r.pool.quote>>
    ELSE <<r.pool.quote, r.pool.base>>

buildRaydiumCpmmBuyInstructions(r) ==
    LET in == CpmmBuySides(r)[1]  out == CpmmBuySides(r)[2]
    IN  IF {r.pool.base, r.pool.quote} \cap Stable = {} \/ r.mint # out THEN Thrown
        ELSE {BuyLayout(r, in, out, SwapFor(r, in, out))}
buildRaydiumCpmmSellInstructions(r) ==
    LET in == CpmmSellSides(r)[1]  out == CpmmSellSides(r)[2]
    IN  IF {r.pool.base, r.pool.quote} \cap Stable = {} \/ r.mint # in THEN Thrown
        ELSE {SellLayout(r, in, out, SwapFor(r, in, out))}

-----------------------------------------------------------------------------
(* Raydium AMM v4: the traded mint gives the direction, the other must be  *)
(* the coin that was named.                                                *)

v2Pair(r) ==
    LET coinIn == r.mint = (IF r.side = "buy" THEN r.pool.quote ELSE r.pool.base)
    IN  IF coinIn THEN <<r.pool.base, r.pool.quote>> ELSE <<r.pool.quote, r.pool.base>>

buildRaydiumAmmV4BuyInstructions(r) ==
    LET in == v2Pair(r)[1]  out == v2Pair(r)[2]
    IN  IF r.mint # out \/ ~isMintMatch(getInputMint(r.coin), in) THEN Thrown
        ELSE {BuyLayout(r, in, out, SwapFor(r, in, out))}
buildRaydiumAmmV4SellInstructions(r) ==
    LET in == v2Pair(r)[1]  out == v2Pair(r)[2]
    IN  IF r.mint # in \/ ~isMintMatch(getInputMint(r.coin), out) THEN Thrown
        ELSE {SellLayout(r, in, out, SwapFor(r, in, out))}

-----------------------------------------------------------------------------
(* Meteora DAMM v2: the output amount must be given; the pool's swap mode  *)
(* says whether it is a minimum or the amount itself.                      *)

MeteoraSides(r) ==
    LET aIn == r.mint = (IF r.side = "buy" THEN r.pool.quote ELSE r.pool.base)
    IN  IF aIn THEN <<r.pool.base, r.pool.quote>> ELSE <<r.pool.quote, r.pool.base>>
MeteoraSwapBug(r, in, out) ==
    IF r.pool.variant = "exactOut" THEN Swap("exactOut", in, out, Fixed(r), r.amount)
    ELSE Swap(r.pool.variant, in, out, r.amount, Fixed(r))
MeteoraSwap(r, in, out) == Swap(r.pool.variant, in, out, r.amount, Fixed(r))

buildMeteoraDammV2BuyInstructions(r) ==
    LET in == MeteoraSides(r)[1]  out == MeteoraSides(r)[2]
    IN  IF \/ Fixed(r) = 0 \/ {in, out} \cap Stable = {} \/ r.mint # out
           \/ ~isMintMatch(getInputMint(r.coin), in)
        THEN Thrown ELSE {BuyLayout(r, in, out, MeteoraSwap(r, in, out))}
buildMeteoraDammV2SellInstructions(r) ==
    LET in == MeteoraSides(r)[1]  out == MeteoraSides(r)[2]
    IN  IF \/ Fixed(r) = 0 \/ {in, out} \cap Stable = {} \/ r.mint # in
           \/ ~isMintMatch(getInputMint(r.coin), out)
        THEN Thrown ELSE {SellLayout(r, in, out, MeteoraSwap(r, in, out))}

-----------------------------------------------------------------------------
(* Bonk: a USD1 pool or a wSOL pool; an account is created as if it could  *)
(* not exist, and a fixed output is only a minimum.                        *)

BonkSwap(r, in, out) ==
    Swap("exactIn", in, out, r.amount,
         IF Fixed(r) # 0 THEN Fixed(r) ELSE Less(r.estimate, r.bps))
buildBonkBuyInstructions(r) ==
    LET wsol == r.pool.quote = "WSOL"
    IN  {When(CreatesInput(r) /\ wsol, CreateNew("WSOL") \o wrapSolOnly(r.amount))
         \o When(CreatesOutput(r), CreateNew(r.mint)) \o BonkSwap(r, r.pool.quote, r.mint)
         \o When(r.close /\ wsol, CloseAccount("WSOL"))}
buildBonkSellInstructions(r) ==
    LET wsol == r.pool.quote = "WSOL"
    IN  {When(CreatesOutput(r) /\ wsol, CreateNew("WSOL"))
         \o BonkSwap(r, r.mint, r.pool.quote)
         \o When(r.close /\ wsol, CloseAccount("WSOL")) \o When(r.close, CloseAccount(r.mint))}

-----------------------------------------------------------------------------
(* PumpSwap: both endpoints are named, and a pool may be traded either way.*)
(* On chain a pool sells its base token or buys it, so a purchase of its   *)
(* quote token is a sell.                                                  *)

Endpoints(r) ==
    IF r.side = "buy" THEN <<Canonical(getInputMint(r.coin)), r.mint>>
    ELSE <<r.mint, Canonical(getInputMint(r.coin))>>
quoteDirection(r) ==
    LET asked == Endpoints(r)
    IN  IF asked = <<r.pool.quote, r.pool.base>> THEN {r.side = "buy"}
        ELSE IF asked = <<r.pool.base, r.pool.quote>> THEN {r.side = "sell"}
        ELSE Thrown

\* How much is wrapped for a swap that may cost more than the input.
WrapAmountBug(r, onChainBuy) == r.amount
WrapAmount(r, onChainBuy) ==
    IF onChainBuy /\ ~ExactSol(r) /\ Fixed(r) = 0 THEN More(r.amount, r.bps) ELSE r.amount
PumpSwapSwap(r, in, out, onChainBuy) ==
    IF onChainBuy /\ r.side = "buy" /\ ~ExactSol(r)
    THEN Swap("exactOut", in, out, More(r.amount, r.bps), r.estimate)
    ELSE SwapFor(r, in, out)

buildBuyInstructions(r) ==
    {When(CreatesInput(r),
          pushCreateOrWrapUserTokenAccount(Endpoints(r)[1], WrapAmount(r, toBase)))
     \o When(CreatesOutput(r), Create(Endpoints(r)[2]))
     \o PumpSwapSwap(r, Endpoints(r)[1], Endpoints(r)[2], toBase)
     \o When(r.close, CloseAccount("WSOL"))
     : toBase \in {d \in quoteDirection(r) : Fixed(r) # 0 => d}}
buildSellInstructions(r) ==
    {SellLayout(r, Endpoints(r)[1], Endpoints(r)[2],
                PumpSwapSwap(r, Endpoints(r)[1], Endpoints(r)[2], ~toQuote))
     : toQuote \in {d \in quoteDirection(r) : Fixed(r) # 0 => ~d}}

-----------------------------------------------------------------------------
(* PumpFun.  A native curve is quoted in lamports: V1 and V3 settle the    *)
(* wallet's own, V2 wrapped ones.                                          *)

Native(r) == r.pool.quote = "WSOL"
usesPumpFunV2Layout(r) == ~Native(r) \/ r.coin = "WSOL"
PumpFunBuySwap(r, in) ==
    IF Fixed(r) = 0 /\ ExactSol(r)
    THEN Swap("exactIn", in, r.mint, r.amount, AtLeastOne(Less(r.estimate, r.bps)))
    ELSE IF Fixed(r) # 0 THEN Swap("exactOut", in, r.mint, r.amount, Fixed(r))
    ELSE Swap("exactOut", in, r.mint, More(r.amount, r.bps), r.estimate)
PumpFunSellSwap(r, out) ==
    Swap("exactIn", r.mint, out, r.amount,
         IF Fixed(r) # 0 THEN Fixed(r) ELSE AtLeastOne(Less(r.estimate, r.bps)))

\* A curve quoted in a token is settled in it, a native one in either kind of SOL.
validateV2QuoteMint(r) ==
    IF Native(r) THEN r.coin \in {"SOL", "WSOL"} ELSE r.coin = r.pool.quote

buildPumpFunBuyV2Instructions(r) ==
    IF ~validateV2QuoteMint(r) THEN Thrown
    ELSE {When(CreatesOutput(r), Create(r.mint))
          \o When(CreatesInput(r),
                  pushCreateOrWrapUserTokenAccount(r.pool.quote, WrapAmount(r, TRUE)))
          \o PumpFunBuySwap(r, r.pool.quote)
          \o When(r.close /\ Native(r), CloseAccount("WSOL"))}
buildPumpFunSellV2Instructions(r) ==
    IF ~validateV2QuoteMint(r) THEN Thrown
    ELSE {When(CreatesOutput(r), Create(r.pool.quote))
          \o PumpFunSellSwap(r, r.pool.quote) \o When(r.close, CloseAccount(r.mint))}

\* V3 refuses what it cannot price: a token quote without an explicit
\* minimum, and a purchase that would empty the curve without a limit.
V3Minimum(r) == IF Fixed(r) # 0 THEN Fixed(r) ELSE r.pool.minimum
V3Refuses(r) ==
    \/ getInputMint(r.coin) # (IF Native(r) THEN "SOL" ELSE r.pool.quote)
    \/ r.pool.state = "closed" \/ r.bps > 9999
    \/ ~Native(r) /\ r.pool.minimum = 0
    \/ r.side = "buy" /\ ~ExactSol(r) /\ (~Native(r) \/ r.pool.state = "graduating")
    \/ r.side = "buy" /\ V3Minimum(r) = 0 /\ r.pool.state = "graduating"
buildPumpFunV3Instructions(r) ==
    LET coin == IF Native(r) THEN "SOL" ELSE r.pool.quote
        swap == IF r.side = "sell"
                THEN Swap("exactIn", r.mint, coin, r.amount,
                          IF V3Minimum(r) # 0 THEN V3Minimum(r)
                          ELSE AtLeastOne(Less(r.estimate, r.bps)))
                ELSE IF ExactSol(r) /\ Fixed(r) = 0 /\ r.pool.minimum # 0
                THEN Swap("exactIn", coin, r.mint, r.amount, r.pool.minimum)
                ELSE PumpFunBuySwap(r, coin)
    IN  IF V3Refuses(r) THEN Thrown
        ELSE {When(r.side = "buy" /\ CreatesOutput(r), Create(r.mint))
              \o When(~Native(r) /\ (IF r.side = "buy" THEN CreatesInput(r) ELSE CreatesOutput(r)),
                      Create(r.pool.quote))
              \o swap \o When(r.side = "sell" /\ r.close, CloseAccount(r.mint))}

\* The version of a curve picks the builder; V1 settles lamports and nothing else.
buildPumpFunBuyInstructions(r) ==
    CASE r.pool.variant = "V3" -> buildPumpFunV3Instructions(r)
      [] r.pool.variant = "V2" -> buildPumpFunBuyV2Instructions(r)
      [] r.pool.variant = "V1" /\ (~Native(r) \/ r.coin # "SOL") -> Thrown
      [] r.pool.variant = "any" /\ usesPumpFunV2Layout(r) -> buildPumpFunBuyV2Instructions(r)
      [] r.pool.variant = "any" /\ r.coin # "SOL" /\ ~usesPumpFunV2Layout(r) -> Thrown
      [] OTHER -> {When(CreatesOutput(r), Create(r.mint)) \o PumpFunBuySwap(r, "SOL")}
buildPumpFunSellInstructions(r) ==
    CASE r.pool.variant = "V3" -> buildPumpFunV3Instructions(r)
      [] r.pool.variant = "V2" -> buildPumpFunSellV2Instructions(r)
      [] r.pool.variant = "V1" /\ (~Native(r) \/ r.coin # "SOL") -> Thrown
      [] r.pool.variant = "any" /\ usesPumpFunV2Layout(r) -> buildPumpFunSellV2Instructions(r)
      [] r.pool.variant = "any" /\ r.coin # "SOL" /\ ~usesPumpFunV2Layout(r) -> Thrown
      [] OTHER -> {PumpFunSellSwap(r, "SOL") \o When(r.close, CloseAccount(r.mint))}

-----------------------------------------------------------------------------
(* The dispatch of TradingClient, and what a caller may count on.          *)

BuildersOfBuy(r) ==
    CASE r.pool.dex = "pumpfun" -> buildPumpFunBuyInstructions(r)
      [] r.pool.dex = "pumpswap" -> buildBuyInstructions(r)
      [] r.pool.dex = "bonk" -> buildBonkBuyInstructions(r)
      [] r.pool.dex = "cpmm" -> buildRaydiumCpmmBuyInstructions(r)
      [] r.pool.dex = "ammV4" -> buildRaydiumAmmV4BuyInstructions(r)
      [] OTHER -> buildMeteoraDammV2BuyInstructions(r)
BuildersOfSell(r) ==
    CASE r.pool.dex = "pumpfun" -> buildPumpFunSellInstructions(r)
      [] r.pool.dex = "pumpswap" -> buildSellInstructions(r)
      [] r.pool.dex = "bonk" -> buildBonkSellInstructions(r)
      [] r.pool.dex = "cpmm" -> buildRaydiumCpmmSellInstructions(r)
      [] r.pool.dex = "ammV4" -> buildRaydiumAmmV4SellInstructions(r)
      [] OTHER -> buildMeteoraDammV2SellInstructions(r)
\* buy() and sell() refuse a slippage of 100% and more before anything is built.
validateSlippage(bps) == bps < 10000
buildInstructions(r) ==
    IF ~validateSlippage(r.bps) \/ (r.coin = "USD1" /\ r.pool.dex # "bonk") THEN Thrown
    ELSE IF r.side = "buy" THEN BuildersOfBuy(r) ELSE BuildersOfSell(r)

TradeRequests ==
    {r \in [side : {"buy", "sell"}, pool : Pools, coin : Coins, mint : {"T", "USDC"},
            sizing : Sizings, policy : Policies, close : BOOLEAN,
            amount : Amounts, want : Wanted, estimate : Estimates, bps : Slippages] :
        /\ r.mint = "T" \/ {r.pool.base, r.pool.quote} = {"WSOL", "USDC"}
        /\ r.close => r.policy = "unset"
        /\ r.side = "sell" => r.sizing # "WithMaxInput"}

\* CPMM and Bonk are not told the coin: it is the one their pool trades against.
CoinOf(r) ==
    IF r.pool.dex \in {"cpmm", "bonk"}
    THEN CHOOSE m \in {r.pool.base, r.pool.quote} : m # r.mint
    ELSE Canonical(r.coin)
\* A caller counts on the minimum that was given, else on the estimate less the slippage
\* of it, rounded down (calc/index.ts:399), at every venue.
Intent(r, plan) ==
    [plan |-> plan, dex |-> r.pool.dex,
     pays |-> IF r.side = "buy" THEN CoinOf(r) ELSE r.mint,
     receives |-> IF r.side = "buy" THEN r.mint ELSE CoinOf(r),
     atMost |-> IF r.sizing = "WithMaxInput" THEN More(r.amount, r.bps) ELSE r.amount,
     atLeast |-> IF V3Minimum(r) # 0 /\ ExactSol(r) THEN V3Minimum(r)
                 ELSE (r.estimate * (10000 - r.bps)) \div 10000,
     creates |-> (r.side = "sell" \/ CreatesInput(r)) /\ CreatesOutput(r),
     close |-> r.close]

\* A buy or a sell, built and sent.
Trade ==
    /\ trade = NoTrade /\ trades < MaxTrades
    /\ \E r \in TradeRequests : \E plan \in buildInstructions(r) :
            trade' = Intent(r, plan)
    /\ trades' = trades + 1
    /\ UNCHANGED wallet

\* The wallet's own transactions: wrapping, unwrapping, cashback.
Manage ==
    /\ trade = NoTrade /\ trades < MaxTrades
    /\ \E n \in Amounts :
         \E plan \in {handleWsol(n), wrapSolOnly(n), wrapWsolToSol(n),
                      wrapWsolToSolWithoutCreate(n), CloseAccount("WSOL"), CloseAccount("T"),
                      Create("WSOL"), claimCashbackPumpfun, claimCashbackPumpswap} :
            trade' = [dex |-> "wallet", plan |-> plan]
    /\ trades' = trades + 1
    /\ UNCHANGED wallet

-----------------------------------------------------------------------------
(* The chain. *)

Has(w, m) == m = "SOL" \/ m \in DOMAIN w.acct
Balance(w, m) == IF m = "SOL" THEN w.sol ELSE w.acct[m]
Holds(w, m, n) == Has(w, m) /\ Balance(w, m) >= n
Add(w, m, n) == IF m = "SOL" THEN [w EXCEPT !.sol = @ + n] ELSE [w EXCEPT !.acct[m] = @ + n]
Failed(w) == {[w EXCEPT !.ok = FALSE]}

\* How the pool may fill a swap: at the limit, or one better.
Fills(i) ==
    {<<i.in, i.out>>} \cup
    (IF i.mode = "exactIn" THEN {<<i.in, i.out + 1>>}
     ELSE IF i.in > 1 THEN {<<i.in - 1, i.out>>} ELSE {})

Run(i, w) ==
    CASE i.op = "create" ->
            IF Has(w, i.mint) THEN IF i.idempotent THEN {w} ELSE Failed(w)
            ELSE {[w EXCEPT !.acct = [m \in DOMAIN @ \cup {i.mint} |->
                                         IF m = i.mint THEN 0 ELSE @[m]]]}
      [] i.op = "fund" ->
            IF Has(w, "WSOL") /\ w.sol >= i.amount
            THEN {Add(Add(w, "SOL", -i.amount), "WSOL", i.amount)} ELSE Failed(w)
      [] i.op = "swap" ->
            {IF Holds(w, i.from, fill[1]) /\ Has(w, i.to)
             THEN Add(Add(w, i.from, -fill[1]), i.to, fill[2])
             ELSE [w EXCEPT !.ok = FALSE] : fill \in Fills(i)}
      [] i.op = "move" -> IF Holds(w, i.mint, i.amount) THEN {w} ELSE Failed(w)
      [] i.op = "claim" -> IF Has(w, i.mint) THEN {Add(w, i.mint, 1)} ELSE Failed(w)
      [] i.op = "close" ->
            IF Has(w, i.mint) /\ (i.mint = "WSOL" \/ w.acct[i.mint] = 0)
            THEN {[w EXCEPT !.sol = @ + w.acct[i.mint],
                            !.acct = [m \in DOMAIN w.acct \ {i.mint} |-> w.acct[m]]]}
            ELSE Failed(w)
\* What the wallet may be when the instructions have run, one after the other.
Outcomes(w, plan) ==
    LET after[n \in 0..Len(plan)] ==
            IF n = 0 THEN {w}
            ELSE UNION {IF v.ok THEN Run(plan[n], v) ELSE {v} : v \in after[n - 1]}
    IN after[Len(plan)]

LandTrade ==
    /\ trade # NoTrade
    /\ wallet' \in {w \in Outcomes(wallet, trade.plan) : w.ok}
    /\ trade' = NoTrade
    /\ UNCHANGED trades
\* Too late, too expensive, or an instruction that fails: nothing happened.
Fail ==
    /\ trade # NoTrade
    /\ trade' = NoTrade
    /\ UNCHANGED <<wallet, trades>>

BuilderInit ==
    /\ wallet \in Wallets
    /\ trade = NoTrade
    /\ trades = 0
BuilderNext == Trade \/ Manage \/ LandTrade \/ Fail
BuilderSpec == BuilderInit /\ [][BuilderNext]_walletVars

-----------------------------------------------------------------------------
(* Properties. *)

\* Types of the wallet and of the trades made.
WalletOK == IsWallet(wallet) /\ wallet.ok /\ trades \in 0..MaxTrades

\* What the wallet owns of a token; lamports and wrapped lamports are one.
Worth(w, m) ==
    (IF m \in DOMAIN w.acct THEN w.acct[m] ELSE 0) + (IF m = "WSOL" THEN w.sol ELSE 0)

\* A trade that lands costs no more of the token it pays with than the caller
\* allowed, brings at least what it was to bring, and leaves every other
\* token as it was, whatever the pool, the version, the direction, the
\* sizing and the accounts that are created, wrapped and closed around it.
SpendsWithinAllowance ==
    [][trade # NoTrade /\ trade.dex # "wallet" /\ wallet' # wallet =>
        /\ Worth(wallet', trade.pays) >= Worth(wallet, trade.pays) - trade.atMost
        /\ Worth(wallet', trade.receives) >= Worth(wallet, trade.receives) + trade.atLeast
        /\ \A m \in Mints \ {trade.pays, trade.receives} :
               Worth(wallet', m) = Worth(wallet, m)]_walletVars

\* Enough to pay from: lamports where they are wrapped or settled, else tokens.
CanPay(t) ==
    IF t.pays = "WSOL" THEN wallet.sol >= t.atMost
    ELSE t.pays \in DOMAIN wallet.acct /\ wallet.acct[t.pays] >= t.atMost
\* A sold account can be closed only when nothing is left in it, and the
\* PumpSwap buy closes the wrapped account even when something else was paid.
CanClose(t) ==
    t.close => IF t.pays = "WSOL" THEN TRUE
               ELSE /\ t.receives = "WSOL"
                    /\ wallet.acct[t.pays] = t.atMost
                    /\ \A i \in Range(t.plan) : i.op = "swap" => i.mode = "exactIn"

\* The wallet is well typed: no trade landed that could not.  And a caller that can
\* pay and asks for every account to be created gets a
\* transaction no instruction of which can fail for want of an account or of
\* funds in it, whatever accounts the wallet has: the accounts are created
\* before the swap, the wrapped one with all the swap may take out of it, and
\* closed after it.  (Bonk creates accounts as if there were none.)
NoAccountIsMissing ==
    /\ WalletOK
    /\ trade # NoTrade /\ trade.dex \notin {"wallet", "bonk"} =>
           (trade.creates /\ CanPay(trade) /\ CanClose(trade) =>
               \A w \in Outcomes(wallet, trade.plan) : w.ok)

=============================================================================
