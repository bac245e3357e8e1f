------------------------------ MODULE SwapWalks ------------------------------
(***************************************************************************)
(* Swaps through concentrated liquidity, interval by interval: Raydium's   *)
(* ticks (src/calc/clmm.ts), Orca's (whirlpool.ts) and Meteora's bins      *)
(* (dlmm.ts).                                                              *)
(*                                                                         *)
(* An interval is what a swap meets between two prices, in the swap's      *)
(* direction: it takes room of the input after fees and pays num / den for *)
(* it.  Square roots, ticks, liquidity and the state of a dynamic fee are  *)
(* abstracted to these numbers and to the fee charged in the interval, in  *)
(* basis points.  A tick also has orders waiting at its end; a bin has its *)
(* output in tiers: the reserve, processed orders, open orders.            *)
(***************************************************************************)
EXTENDS Integers, SequencesExt

Bps == 10000
CeilDiv(a, b) == (a + b - 1) \div b
Share(amount, fee) == CeilDiv(amount * fee, Bps)
GrossOf(net, fee) == CeilDiv(net * Bps, Bps - fee)
Thrown == {}

Tick(room, num, den, fee, orders) == [room |-> room, num |-> num, den |-> den, fee |-> fee, orders |-> orders]
Bin(tiers, num, den, fee) == [tiers |-> tiers, num |-> num, den |-> den, fee |-> fee]
Fees == 0..(Bps - 1)
Ticks == [room : Nat, num : Nat \ {0}, den : Nat \ {0}, fee : Fees, orders : Nat]
Bins == [tiers : Seq(Nat), num : Nat \ {0}, den : Nat \ {0}, fee : Fees]

\* How far a swap got: what it has left of its input, and what it was paid.
Walk(left, out) == [left |-> left, out |-> out]

-----------------------------------------------------------------------------
(* Ticks.  An interval that is not crossed takes all that is left as input *)
(* and fee; one that is crossed charges the fee on what it took.           *)

clmmSwapStep(tick, remaining, fee) ==
    LET net     == (remaining * (Bps - fee)) \div Bps
        crossed == tick.room <= net
        in      == IF crossed THEN tick.room ELSE net
    IN [in |-> in, out |-> (in * tick.num) \div tick.den, crossed |-> crossed,
        fee |-> IF crossed THEN CeilDiv(in * fee, Bps - fee) ELSE remaining - in]

\* Limit orders at the end of a crossed interval: all of them for their price, or as
\* much of them as the rest of the input pays.
TakeOrders(tick, walk, feeOnInput) ==
    LET charged   == IF feeOnInput THEN Share(walk.left, tick.fee) ELSE 0
        available == walk.left - charged
        matched   == (available * tick.num) \div tick.den
        gross     == Min({matched, tick.orders})
        all       == CeilDiv(gross * tick.den, tick.num)
        used      == IF matched <= tick.orders THEN available + charged
                     ELSE IF feeOnInput THEN all + CeilDiv(all * tick.fee, Bps - tick.fee) ELSE all
    IN IF tick.orders = 0 \/ walk.left = 0 THEN walk
       ELSE Walk(walk.left - used, walk.out + gross - (IF feeOnInput THEN 0 ELSE Share(gross, tick.fee)))

CrossTick(tick, walk, feeOnInput) ==
    LET step  == clmmSwapStep(tick, walk.left, IF feeOnInput THEN tick.fee ELSE 0)
        after == Walk(walk.left - step.in - step.fee,
                      walk.out + step.out - (IF feeOnInput THEN 0 ELSE Share(step.out, tick.fee)))
    IN IF step.crossed THEN TakeOrders(tick, after, feeOnInput) ELSE after

\* The walk ends at the price limit, which is the end of the ticks, or when it is paid.
clmmSwapExactIn(ticks, feeOnInput, amount) ==
    LET walked[i \in 0..Len(ticks)] ==
            IF i = 0 THEN Walk(amount, 0)
            ELSE LET walk == walked[i - 1]
                 IN IF walk.left = 0 THEN walk ELSE CrossTick(ticks[i], walk, feeOnInput)
    IN {walked[Len(ticks)]}

\* Orca always charges the input, has no orders, and throws when its ticks run out.
WithoutOrders(ticks) == [i \in DOMAIN ticks |-> [ticks[i] EXCEPT !.orders = 0]]
whirlpoolSwapExactIn(ticks, amount) ==
    {walk \in clmmSwapExactIn(WithoutOrders(ticks), TRUE, amount) : walk.left = 0}

-----------------------------------------------------------------------------
(* Bins.  The fee is set aside before the tiers are taken, and charged on  *)
(* what they took if the bin is emptied.                                   *)

TakeTier(bin, walk, tier) ==
    LET needed == CeilDiv(tier * bin.den, bin.num)
        filled == walk.left >= needed
    IN IF tier = 0 \/ walk.left = 0 THEN walk
       ELSE IF filled THEN Walk(walk.left - needed, walk.out + tier)
       ELSE Walk(0, walk.out + (walk.left * bin.num) \div bin.den)

TakeTiers(bin, offered) ==
    LET taken[i \in 0..Len(bin.tiers)] ==
            IF i = 0 THEN Walk(offered, 0) ELSE TakeTier(bin, taken[i - 1], bin.tiers[i])
    IN taken[Len(bin.tiers)]

CrossBin(bin, walk, feeOnInput) ==
    LET offered == walk.left - (IF feeOnInput THEN Share(walk.left, bin.fee) ELSE 0)
        taken   == TakeTiers(bin, offered)
        used    == offered - taken.left
    IN Walk(IF taken.left = 0 THEN 0
            ELSE walk.left - (IF feeOnInput THEN GrossOf(used, bin.fee) ELSE used),
            walk.out + taken.out - (IF feeOnInput THEN 0 ELSE Share(taken.out, bin.fee)))

\* Bins with nothing to pay are passed; where the loaded arrays end, it throws.
IsEmpty(bin) == \A i \in DOMAIN bin.tiers : bin.tiers[i] = 0
dlmmSwapExactIn(bins, feeOnInput, amount) ==
    LET walked[i \in 0..Len(bins)] ==
            IF i = 0 THEN Walk(amount, 0)
            ELSE LET walk == walked[i - 1]
                 IN IF walk.left = 0 \/ IsEmpty(bins[i]) THEN walk ELSE CrossBin(bins[i], walk, feeOnInput)
    IN {walk \in {walked[Len(bins)]} : walk.left = 0}
=============================================================================
