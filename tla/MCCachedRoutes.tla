-------------------------- MODULE MCCachedRoutes --------------------------
(***************************************************************************)
(* Nine pools over five assets: two ways from SOL to USDC, one of them too *)
(* shallow for a conversion, curves quoted in SOL and in USDC, a           *)
(* launch curve close to its cap, and two Pump pools in a row.             *)
(***************************************************************************)
EXTENDS CachedRoutes

Curve(venue, base, quote, rb, rq, fee, cap) ==
    [venue |-> venue, base |-> base, quote |-> quote, rb |-> rb, rq |-> rq, fee |-> fee,
     cap |-> cap, closed |-> {}, arrays |-> <<>>, feeOn |-> {}]
Arrays(venue, base, quote, feeOn, up, down) ==
    [venue |-> venue, base |-> base, quote |-> quote, rb |-> 0, rq |-> 0, fee |-> 0,
     cap |-> 0, closed |-> {}, arrays |-> [b \in BOOLEAN |-> IF b THEN up ELSE down], feeOn |-> feeOn]

MCPools ==
    <<Curve("PumpSwap", "TOK", "WSOL", 30000, 20000, 100, 0),
      Arrays("Clmm", "WSOL", "USDC", {TRUE},
             <<<<Tick(300, 1, 2, 0, 0), Tick(200, 1, 2, 25, 40)>>, <<Tick(900, 2, 5, 30, 0)>>>>,
             <<<<Tick(600, 2, 1, 0, 0)>>, <<Tick(350, 9, 5, 25, 90), Tick(700, 9, 5, 25, 0)>>>>),
      Curve("AmmV4", "WSOL", "USDC", 9000, 19000, 25, 0),
      Curve("PumpFun", "MEME", "WSOL", 40000, 9000, 95, 30000),
      Curve("LaunchLab", "ALT", "USDC", 20000, 9000, 100, 900),
      Arrays("Whirlpool", "ALT", "WSOL", BOOLEAN, <<<<Tick(2000, 1, 1, 30, 0)>>>>,
             <<<<Tick(800, 1, 1, 0, 0)>>, <<Tick(1200, 1, 1, 60, 0)>>>>),
      Curve("Cpmm", "ALT", "TOK", 15000, 15000, 30, 0),
      Curve("PumpSwap", "USDC", "TOK", 19000, 15000, 100, 0),
      [Arrays("Dlmm", "WSOL", "USDC", {TRUE}, <<<<Bin(<<0, 0, 0>>, 1, 2, 20), Bin(<<100, 30, 50>>, 1, 2, 20)>>,
                  <<Bin(<<500, 0, 0>>, 1, 2, 40)>>>>,
                <<>>) EXCEPT !.closed = {FALSE}]>>

Search(type, asset, hops, impact, amount) ==
    [type |-> type, pool |-> 1, token |-> "TOK", asset |-> asset, pools |-> {2, 3, 4, 5, 6, 8, 9},
     hops |-> hops, nodes |-> 40, slip |-> 200, bridgeSlip |-> 100, impact |-> impact, amount |-> amount]
MCSearches ==
    {Search(type, asset, hops, impact, amount) :
        type \in {"Buy", "Sell"}, asset \in {"USDC", "ALT", "WSOL"}, hops \in {1, 2},
        impact \in {300, 3000}, amount \in {400, 1200}}

NoRoute == [execution |-> "sequential", minimum |-> 0]
Routes(minimum) == {NoRoute} \cup {[execution |-> e, minimum |-> minimum] : e \in {"auto", "official"}}
Trade(type, dex, hints, candidates, from, to, amount, native, route, tip) ==
    [type |-> type, dex |-> dex, hints |-> hints, candidates |-> candidates, from |-> from, to |-> to,
     amount |-> amount, slip |-> 300, nativeInput |-> native = "in", nativeOutput |-> native = "out",
     route |-> route, tip |-> tip]
MCRequests ==
    {Trade(type, dex, <<>>, DOMAIN MCPools, ends[1], ends[2], amount, native, NoRoute, tip) :
        type \in {"Buy", "Sell"}, dex \in {"PumpFun", "PumpSwap", "LaunchLab"},
        ends \in {<<"WSOL", "MEME">>, <<"MEME", "WSOL">>, <<"USDC", "MEME">>, <<"MEME", "USDC">>,
                  <<"WSOL", "ALT">>, <<"TOK", "WSOL">>, <<"WSOL", "TOK">>},
        amount \in {400, 900}, native \in {"no", "in", "out"}, tip \in {0, 7}}
    \cup
    {Trade(type, "PumpSwap", hints, {}, "WSOL", "USDC", 400, native, route, 0) :
        type \in {"Buy", "Sell"}, native \in {"no", "in"},
        hints \in {<<Hint(1, "WSOL", "TOK"), Hint(8, "TOK", "USDC")>>,
                   <<Hint(8, "USDC", "TOK"), Hint(1, "TOK", "WSOL")>>},
        route \in UNION {Routes(m) : m \in {200, 400}}}

MCBuilds ==
    {[nativeInput |-> native = "in", nativeOutput |-> native = "out", nonce |-> version = 1,
      tip |-> tip, version |-> version, middleware |-> middleware] :
        native \in {"no", "in", "out"}, tip \in {0, 7}, version \in {0, 1}, middleware \in {"none", "prepends"}}
MCMints == {"WSOL", "USDC", "TOK", "MEME", "ALT"}
=============================================================================
