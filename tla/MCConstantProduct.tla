------------------------- MODULE MCConstantProduct -------------------------
(***************************************************************************)
(* Pools a few tens of units deep, where every rounding shows.  PumpSwap   *)
(* without fees and with three different ones, with virtual quote reserves *)
(* above and below zero; a Pump v3 curve about to complete.                *)
(***************************************************************************)
EXTENDS ConstantProduct

Pool(venue, b, v, lp, protocol, creator, offset, real) ==
    [venue |-> venue, base |-> b, vault |-> v, lp |-> lp, protocol |-> protocol,
     creator |-> creator, offset |-> offset, real |-> real]
Curve(b, v, left, real, balance, protocol, creator, mayhem) ==
    [venue |-> "pumpV3", base |-> b, vault |-> v, left |-> left, real |-> real,
     balance |-> balance, migration |-> 2, protocol |-> protocol, creator |-> creator,
     complete |-> FALSE, mayhem |-> mayhem]

MCMarkets ==
    {Pool("pumpswap", 40, 30, 0, 0, 0, o, 0) : o \in {-10, 0, 25}}
        \cup {Pool("pumpswap", 40, 30, 200, 700, 500, o, 0) : o \in {0, 25}}
        \cup {Pool(v, 50, 30, 0, 95, 0, 0, r) : v \in {"pumpfun", "curve"}, r \in {12, 45}}
        \cup {legacyPumpSwapFeeBasisPoints(Pool("pumpswap", 30, 45, 0, 0, 0, 5, 0), c) : c \in BOOLEAN}
        \cup {Pool(v, 35, 50, 30, 0, 0, 0, 0) : v \in {"bonk", "ammV4", "cpmm", "damm"}}
        \cup {Curve(40, 30, 9, 6, 20, 95, 30, m) : m \in BOOLEAN}
MCAmounts == {1, 2, 3, 5, 8, 13, 21, 34}
=============================================================================
