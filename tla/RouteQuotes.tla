---------------------------- MODULE RouteQuotes ----------------------------
(***************************************************************************)
(* How a route over cached pools is found and priced: candidate paths      *)
(* (src/trading/route_candidates.ts), the quotes of the cached_* modules,  *)
(* prepareCachedRoute (cached_route.ts), the official Pump route           *)
(* (pump_route.ts) and the PumpSwap search (pumpswap_preparation.ts).      *)
(*                                                                         *)
(* A pool identity is a number, in the order of the address bytes.  What   *)
(* may throw is a set with at most one element, empty where the code       *)
(* throws.  The decoded state of a pool is a record: constant-product      *)
(* venues keep reserves and one fee on the input (the exact arithmetic is  *)
(* module ConstantProduct's), concentrated ones the arrays of intervals a  *)
(* swap meets in each direction, and the directions whose fee is charged   *)
(* on the input.                                                           *)
(***************************************************************************)
EXTENDS SwapWalks

CONSTANTS Wsol, Mints,
          PoolOf,            \* the decoded state of every pool
          CandidateBudget,   \* paths the candidate iteration may yield, 64 in the code
          MaxArrays          \* maximumArrays of a request, 8 by default

Pools == DOMAIN PoolOf
Venues == {"PumpSwap", "AmmV4", "Clmm", "Whirlpool", "Dlmm", "PumpFun", "Cpmm", "LaunchLab"}

\* A pool that is quoted is funded, and its fee leaves something.  Most venues throw
\* otherwise; what Pump's and LaunchLab's quote at a fee of everything is left out.
Decoded(p) ==
    /\ p.venue \in Venues
    /\ CASE p.venue \in {"Clmm", "Whirlpool"} -> p.arrays \in [BOOLEAN -> Seq(Seq(Ticks))]
         [] p.venue = "Dlmm" -> p.arrays \in [BOOLEAN -> Seq(Seq(Bins))]
         [] OTHER -> {p.rb, p.rq} \subseteq Nat \ {0} /\ p.cap \in Nat /\ p.fee \in Fees

ASSUME RoutesAssumption ==
    /\ Wsol \in Mints /\ Pools \subseteq Nat /\ CandidateBudget \in Nat /\ MaxArrays \in 1..32
    /\ \A p \in Pools :
          /\ {PoolOf[p].base, PoolOf[p].quote} \subseteq Mints /\ PoolOf[p].base # PoolOf[p].quote
          /\ Decoded(PoolOf[p])

Hint(p, in, out) == [pool |-> p, in |-> in, out |-> out]
HintsOf(p) == {Hint(p, PoolOf[p].base, PoolOf[p].quote), Hint(p, PoolOf[p].quote, PoolOf[p].base)}
Buys(h) == h.in = PoolOf[h.pool].quote
NativeQuote(p) == PoolOf[p].venue = "PumpFun" /\ PoolOf[p].quote = Wsol

-----------------------------------------------------------------------------
(* Paths: CandidateRouteGraph, and the conversions of the PumpSwap search. *)

EndOf(path, from) == IF path = <<>> THEN from ELSE Last(path).out
Visited(path, from) == {from} \cup {path[i].out : i \in DOMAIN path}

\* The paths that never meet a pool or an asset twice, and end when they reach to.
Walks(pools, from, to, avoid, hops) ==
    LET Longer(path) ==
            {Append(path, h) : h \in {e \in UNION {HintsOf(p) : p \in pools} :
                /\ e.in = EndOf(path, from) /\ e.in # to
                /\ e.out \notin Visited(path, from) \cup avoid
                /\ \A i \in DOMAIN path : path[i].pool # e.pool}}
        level[n \in 0..hops] ==
            IF n = 0 THEN {<<>>} ELSE UNION {Longer(path) : path \in level[n - 1]}
    IN UNION {level[n] : n \in 0..hops}

ByPools(a, b) ==
    \E i \in DOMAIN a : a[i].pool < b[i].pool /\ \A j \in 1..(i - 1) : a[j].pool = b[j].pool
Earlier(a, b) == Len(a) < Len(b) \/ (Len(a) = Len(b) /\ ByPools(a, b))

\* What iterateCandidateRoutes yields before its budget ends it, earliest first.
CandidateRoutes(pools, from, to) ==
    LET paths == {path \in Walks(pools, from, to, {}, 5) : path # <<>> /\ Last(path).out = to}
    IN {path \in paths : Cardinality({q \in paths : Earlier(q, path)}) < CandidateBudget}

-----------------------------------------------------------------------------
(* Quotes: what a leg consumes, is estimated to yield, and must yield.     *)

ProtectedDown(est, slip) == (est * (Bps - slip)) \div Bps
Quoted(used, est, min) == IF min = 0 THEN Thrown ELSE {[used |-> used, est |-> est, min |-> min]}

Swapped(p, buy, net) ==
    LET in == IF buy THEN p.rq ELSE p.rb  out == IF buy THEN p.rb ELSE p.rq
    IN (out * net) \div (in + net)

\* PumpSwap charges on top of a purchase and out of a sale; AMM v4 and CPMM on the input.
quoteCachedPumpSwap(p, buy, amount, slip) ==
    LET gross == Swapped(p, FALSE, amount)
        out   == IF buy THEN Swapped(p, TRUE, (amount * Bps) \div (Bps + p.fee))
                        ELSE gross - CeilDiv(gross * p.fee, Bps)
    IN Quoted(amount, out, ProtectedDown(out, slip))

quoteCachedAmmV4ExactIn(p, buy, amount, slip) ==
    LET out == Swapped(p, buy, amount - CeilDiv(amount * p.fee, Bps))
    IN Quoted(amount, out, ProtectedDown(out, slip))

quoteCachedCpmmExactIn(p, buy, amount, slip) == quoteCachedAmmV4ExactIn(p, buy, amount, slip)

quoteCachedPumpFunExactIn(p, buy, amount, slip) ==
    LET bought == Swapped(p, TRUE, ((amount - 1) * Bps) \div (Bps + p.fee))
        gross  == Swapped(p, FALSE, amount)
        out    == IF buy THEN (IF bought > p.cap THEN p.cap ELSE bought)
                         ELSE gross - CeilDiv(gross * p.fee, Bps)
    IN Quoted(amount, out, ProtectedDown(out, slip))

\* A purchase that would exhaust the curve takes only what is left, and pays for that.
quoteLaunchLabExactIn(p, buy, amount, slip) ==
    LET out      == Swapped(p, TRUE, amount - CeilDiv(amount * p.fee, Bps))
        capped   == buy /\ p.cap > 0 /\ out > p.cap
        price    == CeilDiv(CeilDiv(p.rq * p.cap, p.rb - p.cap) * Bps, Bps - p.fee)
        gross    == Swapped(p, FALSE, amount)
        received == IF capped THEN p.cap
                    ELSE IF buy THEN out ELSE gross - CeilDiv(gross * p.fee, Bps)
    IN Quoted(IF capped /\ price < amount THEN price ELSE amount,
              received, received - (received * slip) \div Bps)

\* Arrays are loaded one by one until the swap through them takes the whole input, or
\* the budget is spent.  walks[n] is that swap through the first n.
ThroughArrays(walks, slip, budget, amount) ==
    LET whole(n) == {walk \in walks[n] : walk.left = 0}
        enough   == {n \in DOMAIN walks : n <= budget /\ whole(n) # Thrown}
    IN UNION {Quoted(amount, walk.out, ProtectedDown(walk.out, slip)) :
              walk \in IF enough = {} THEN Thrown ELSE whole(Min(enough))}

Loaded(p, buy, n) == FlattenSeq(SubSeq(p.arrays[buy], 1, n))
quoteCachedClmm(p, buy, amount, slip) ==
    ThroughArrays([n \in DOMAIN p.arrays[buy] |-> clmmSwapExactIn(Loaded(p, buy, n), buy \in p.feeOn, amount)],
                  slip, MaxArrays, amount)
quoteCachedDlmm(p, buy, amount, slip) ==
    ThroughArrays([n \in DOMAIN p.arrays[buy] |-> dlmmSwapExactIn(Loaded(p, buy, n), buy \in p.feeOn, amount)],
                  slip, MaxArrays, amount)
quoteCachedWhirlpool(p, buy, amount, slip) ==
    ThroughArrays([n \in DOMAIN p.arrays[buy] |-> whirlpoolSwapExactIn(Loaded(p, buy, n), amount)],
                  slip, Min({MaxArrays, 6}), amount)

quoteVenue(p, buy, amount, slip) ==
    CASE p.venue = "PumpSwap"  -> quoteCachedPumpSwap(p, buy, amount, slip)
      [] p.venue = "AmmV4"     -> quoteCachedAmmV4ExactIn(p, buy, amount, slip)
      [] p.venue = "Clmm"      -> quoteCachedClmm(p, buy, amount, slip)
      [] p.venue = "Whirlpool" -> quoteCachedWhirlpool(p, buy, amount, slip)
      [] p.venue = "Dlmm"      -> quoteCachedDlmm(p, buy, amount, slip)
      [] p.venue = "PumpFun"   -> quoteCachedPumpFunExactIn(p, buy, amount, slip)
      [] p.venue = "Cpmm"      -> quoteCachedCpmmExactIn(p, buy, amount, slip)
      [] p.venue = "LaunchLab" -> quoteLaunchLabExactIn(p, buy, amount, slip)

\* A pool that is closed, disabled in this direction or exhausted is not quoted.
Closed(h) == Buys(h) \in PoolOf[h.pool].closed
prepareLeg(h, spend, slip, allowNative) ==
    IF Closed(h) \/ (NativeQuote(h.pool) /\ ~allowNative) \/ spend = 0 THEN Thrown
    ELSE quoteVenue(PoolOf[h.pool], Buys(h), spend, slip)
quoteCachedRouteLeg(h, amount) == prepareLeg(h, amount, 0, FALSE)

-----------------------------------------------------------------------------
(* prepareCachedRoute *)

\* A conversion leg may not move its pool's price much: the rate of the trade is
\* held against the rate of a hundredth of it.
BridgeHolds(h, q, spend, limits) ==
    LET probe == IF spend \div 100 > 0 THEN spend \div 100 ELSE 1
    IN \E r \in quoteCachedRouteLeg(h, probe) :
           /\ q.used = spend /\ r.used = probe
           /\ q.est * probe * Bps >= r.est * spend * (Bps - limits.impact)

RouteIsValid(hints) ==
    LET n == Len(hints)
    IN /\ n \in 1..5
       /\ \A i, j \in 1..n : i # j => hints[i].pool # hints[j].pool /\ hints[i].out # hints[j].out
       /\ \A i \in 1..n : hints[i].out # hints[1].in
       /\ \A i \in 2..n : hints[i - 1].out = hints[i].in

NoLimits == [anchor |-> 0, slip |-> 0, impact |-> 0]

\* Something to spend, and no slippage or price impact of everything.
RequestIsValid(amount, slip, limits) ==
    amount \in Nat \ {0} /\ {slip, limits.slip, limits.impact} \subseteq 0..(Bps - 1)

NextSpendBug(q) == q.est
NextSpend(q) == q.min

\* What the leg over h adds to the quotes so far: each leg spends what the one before it
\* must yield.
AddQuote(route, h, slip, allowNative, limits) ==
    LET bridge == limits # NoLimits /\ h.pool # limits.anchor
    IN {[quotes |-> Append(route.quotes, q), spend |-> NextSpend(q)] :
        q \in {l \in prepareLeg(h, route.spend, IF bridge THEN limits.slip ELSE slip, allowNative) :
                 l.used \in 1..route.spend /\ (bridge => BridgeHolds(h, l, route.spend, limits))}}

Leg(h, q) == [hint |-> h, used |-> q.used, est |-> q.est, min |-> q.min]

prepareCachedRoute(hints, amount, slip, allowNative, limits) ==
    LET n == Len(hints)
        quoted[i \in 0..n] ==
            IF i = 0 THEN {[quotes |-> <<>>, spend |-> amount]}
            ELSE UNION {AddQuote(r, hints[i], slip, allowNative, limits) : r \in quoted[i - 1]}
    IN IF ~RequestIsValid(amount, slip, limits) \/ ~RouteIsValid(hints) THEN Thrown
       ELSE {[legs |-> [i \in 1..n |-> Leg(hints[i], r.quotes[i])],
              setup |-> <<hints[1].in>> \o [i \in 1..n |-> hints[i].out],
              min |-> r.spend, official |-> FALSE,
              residuals |-> [i \in 1..(n - 1) |-> r.quotes[i].est - r.quotes[i + 1].used]] :
             r \in quoted[n]}

-----------------------------------------------------------------------------
(* prepareOfficialPumpRoute and selectPumpRoute: one instruction for two   *)
(* or three Pump hops in one direction, with the caller's own minimum.     *)
(* Undefined (here: empty) leaves the sequential route.                    *)

SameDirection(hints) == \A i, j \in DOMAIN hints : Buys(hints[i]) = Buys(hints[j])
OfficialRouteFits(hints, opts, native) ==
    /\ opts.execution # "sequential" /\ opts.minimum > 0 /\ ~native
    /\ Len(hints) \in 2..3 /\ RouteIsValid(hints)
    /\ \A i \in DOMAIN hints : PoolOf[hints[i].pool].venue \in {"PumpFun", "PumpSwap"} /\ ~Closed(hints[i])
    /\ SameDirection(hints)
    /\ ~NativeQuote(IF Buys(hints[1]) THEN hints[1].pool ELSE Last(hints).pool)

prepareOfficialPumpRoute(hints, amount, opts, native) ==
    IF OfficialRouteFits(hints, opts, native)
    THEN {[legs |-> <<>>, setup |-> <<hints[1].in, Last(hints).out>>, min |-> opts.minimum,
           official |-> TRUE, residuals |-> <<>>, spends |-> amount]}
    ELSE {}

-----------------------------------------------------------------------------
(* searchPumpSwapTrade: every conversion before a purchase or after a sale *)
(* at the anchor pool, and the best protected output among them.           *)

AnchorHint(s) ==
    LET p == PoolOf[s.pool]  other == IF p.base = s.token THEN p.quote ELSE p.base
    IN IF s.type = "Buy" THEN Hint(s.pool, other, s.token) ELSE Hint(s.pool, s.token, other)

SearchIsValid(s) ==
    /\ s.token # s.asset /\ PoolOf[s.pool].venue = "PumpSwap"
    /\ s.token \in {PoolOf[s.pool].base, PoolOf[s.pool].quote}
    /\ ~Closed(AnchorHint(s)) /\ s.pool \notin s.pools

Visits(s) ==
    IF s.type = "Buy" THEN Walks(s.pools, s.asset, AnchorHint(s).in, {s.token}, s.hops)
                      ELSE Walks(s.pools, AnchorHint(s).out, s.asset, {s.token}, s.hops)
Conversions(s) ==
    LET from == IF s.type = "Buy" THEN s.asset ELSE AnchorHint(s).out
        to   == IF s.type = "Buy" THEN AnchorHint(s).in ELSE s.asset
    IN {path \in Visits(s) : EndOf(path, from) = to}

preparePumpSwapTrade(s, path) ==
    prepareCachedRoute(path, s.amount, s.slip, FALSE,
                       [anchor |-> s.pool, slip |-> s.bridgeSlip, impact |-> s.impact])

PathOf(route) == [i \in DOMAIN route.legs |-> route.legs[i].hint]
BetterBug(a, b) == Earlier(PathOf(a), PathOf(b))
Better(a, b) == a.min > b.min \/ (a.min = b.min /\ Earlier(PathOf(a), PathOf(b)))

searchPumpSwapTrade(s) ==
    LET paths  == {IF s.type = "Buy" THEN Append(c, AnchorHint(s)) ELSE <<AnchorHint(s)>> \o c :
                       c \in Conversions(s)}
        routes == UNION {preparePumpSwapTrade(s, path) : path \in paths}
    IN IF ~SearchIsValid(s) THEN Thrown
       ELSE IF Cardinality(Visits(s)) > s.nodes THEN Thrown
       ELSE {r \in routes : \A q \in routes : q = r \/ Better(r, q)}
=============================================================================
