---------------------------- MODULE CachedRoutes ----------------------------
(***************************************************************************)
(* A trade over cached pools, from the frozen snapshot to the chain:       *)
(* searchPumpSwapTrade and PreparedPumpSwapTrade                           *)
(* (src/trading/pumpswap_preparation.ts), prepareCachedTrade               *)
(* (cached_trade.ts), and the settlement of SOL endpoints (native_sol.ts,  *)
(* pumpfun_settlement.ts).                                                 *)
(*                                                                         *)
(* The chain is external.  It executes the instructions of one transaction *)
(* against a wallet that holds exactly what the trade said it needs; a     *)
(* swap pays anything from its minimum to its estimate.  The rent of       *)
(* associated accounts is paid apart; the rent of the temporary account is *)
(* part of the trade.                                                      *)
(***************************************************************************)
EXTENDS RouteQuotes

CONSTANTS Searches,     \* requests for searchPumpSwapTrade
          Requests,     \* requests for prepareCachedTrade
          Builds,       \* options of PreparedPumpSwapTrade.buildSigned
          Ages,         \* maximumSlotAge of a read
          Rent,         \* of the temporary account
          OwnWsol,      \* what the wallet's wrapped SOL account may hold already
          MaxSlot, MaxEpoch

ASSUME TradeAssumption ==
    /\ Rent \in Nat \ {0} /\ MaxSlot \in Nat /\ MaxEpoch \in Nat /\ Ages \subseteq Nat
    /\ OwnWsol \subseteq Nat
    /\ {"lamports", "temp"} \cap Mints = {}   \* names of what is no mint's account
    /\ \A s \in Searches : /\ s.type \in {"Buy", "Sell"} /\ s.hops \in 0..3
                           /\ s.pool \in Pools /\ s.pools \subseteq Pools
    /\ \A t \in Requests : /\ t.hints \in Seq(UNION {HintsOf(p) : p \in Pools}) /\ t.candidates \subseteq Pools
                           /\ {t.amount, t.tip, t.route.minimum} \subseteq Nat
                           /\ {t.nativeInput, t.nativeOutput} \subseteq BOOLEAN
    /\ \A o \in Builds : o.tip \in Nat /\ {o.nativeInput, o.nativeOutput} \subseteq BOOLEAN

VARIABLES slot, epoch, usable,   \* the current read context, and assertUsable of the snapshot
          held,                  \* a PreparedPumpSwapTrade, or None
          wire,                  \* the signed transaction and what it was said to do, or None
          landed                 \* the wallet before and after, or None

clock == <<slot, epoch, usable>>
routeVars == <<clock, held, wire, landed>>

None == [kind |-> "none"]
Absent == -1

\* The read context: where the chain is, and how old a quote may be for this read.
Context(age) == [slot |-> slot, epoch |-> epoch, age |-> age]

RouteInit == slot = 0 /\ epoch = 0 /\ usable = TRUE /\ held = None /\ wire = None /\ landed = None

-----------------------------------------------------------------------------
(* Instructions *)

Ata(mint)         == [op |-> "ata", mint |-> mint]
CreateTemp(lams)  == [op |-> "createTemp", lamports |-> lams]
CloseTemp         == [op |-> "closeTemp"]
FundAta(amount)   == [op |-> "fundAta", amount |-> amount]
MoveToTemp(amount) == [op |-> "moveToTemp", amount |-> amount]
Transfer(amount)  == [op |-> "transfer", amount |-> amount]
NonceAdvance      == [op |-> "nonceAdvance"]
ComputeBudget     == [op |-> "computeBudget"]
Official(r)       == [op |-> "swap", from |-> r.setup[1], to |-> r.setup[2], amount |-> r.spends,
                      min |-> r.min, est |-> r.min]
Swap(leg) ==
    [op |-> "swap", amount |-> leg.used, min |-> leg.min, est |-> leg.est,
     from |-> IF NativeQuote(leg.hint.pool) /\ Buys(leg.hint) THEN "lamports" ELSE leg.hint.in,
     to   |-> IF NativeQuote(leg.hint.pool) /\ ~Buys(leg.hint) THEN "lamports" ELSE leg.hint.out]

Setup(r) == [i \in DOMAIN r.setup |-> Ata(r.setup[i])]
Swaps(r) == IF r.official THEN <<Official(r)>> ELSE [i \in DOMAIN r.legs |-> Swap(r.legs[i])]
Plain(r) == [instructions |-> Setup(r) \o Swaps(r), required |-> 0]

\* Account creations other than that of the wallet's wrapped SOL account.
KeepBug(ixs) == ixs
Keep(ixs) ==
    LET kept[n \in 0..Len(ixs)] ==
            IF n = 0 THEN <<>>
            ELSE IF ixs[n] = Ata(Wsol) THEN kept[n - 1] ELSE Append(kept[n - 1], ixs[n])
    IN kept[Len(ixs)]
ToTemporary(ix) ==
    [ix EXCEPT !.from = IF @ = Wsol THEN "temp" ELSE @, !.to = IF @ = Wsol THEN "temp" ELSE @]

\* settleCachedRouteWithNativeSol: exactly one endpoint is SOL, through a fresh
\* account that is created, used instead of the wallet's own, and closed.
NativeEndpoint(r, nativeInput) == IF nativeInput THEN r.legs[1].hint.in ELSE Last(r.legs).hint.out
settleCachedRouteWithNativeSol(r, nativeInput, nativeOutput) ==
    IF nativeInput = nativeOutput \/ r.official \/ NativeEndpoint(r, nativeInput) # Wsol THEN Thrown
    ELSE LET required == Rent + (IF nativeInput THEN r.legs[1].used ELSE 0)
         IN {[instructions |-> <<CreateTemp(required)>> \o Keep(Setup(r))
                  \o [i \in DOMAIN r.legs |-> ToTemporary(Swap(r.legs[i]))] \o <<CloseTemp>>,
              required |-> required]}

-----------------------------------------------------------------------------
(* settlePumpFunNativeQuote: a curve quoted in SOL pays and takes lamports. *)

Anchors(r) == {i \in DOMAIN r.legs : PoolOf[r.legs[i].hint.pool].venue = "PumpFun"}

\* One leg: the creations, then the swap among what moves the SOL to where the caller wants it.
SettleLeg(leg, creations, nativeInput, nativeOutput) ==
    LET buy == leg.hint.in = Wsol
    IN IF (buy /\ nativeOutput) \/ (~buy /\ nativeInput) THEN Thrown
       ELSE {[instructions |->
                CASE nativeInput \/ nativeOutput -> Keep(creations) \o <<Swap(leg)>>
                  [] ~buy /\ ~nativeOutput -> creations \o <<Swap(leg), FundAta(leg.min)>>
                  [] buy /\ ~nativeInput ->
                       <<CreateTemp(Rent), MoveToTemp(leg.used), CloseTemp>> \o Keep(creations) \o <<Swap(leg)>>,
              required |-> CASE nativeInput -> leg.used
                             [] buy /\ ~nativeInput -> Rent
                             [] OTHER -> 0]}

settlePumpFunNativeQuote(r, nativeInput, nativeOutput) ==
    LET n == Len(r.legs)
    IN IF n = 1 THEN SettleLeg(r.legs[1], Setup(r), nativeInput, nativeOutput)
       ELSE IF nativeInput \/ nativeOutput \/ Cardinality(Anchors(r)) # 1 \/ Anchors(r) \cap {1, n} = {}
       THEN Thrown
       ELSE LET i == CHOOSE k \in Anchors(r) : TRUE
            IN {[c EXCEPT !.instructions =
                    IF i = n THEN Setup(r) \o SubSeq(Swaps(r), 1, n - 1) \o c.instructions
                             ELSE Setup(r) \o c.instructions \o SubSeq(Swaps(r), 2, n)] :
                 c \in {s \in SettleLeg(r.legs[i], <<>>, FALSE, FALSE) :
                          (IF i = n THEN r.legs[i].hint.in ELSE r.legs[i].hint.out) = Wsol}}

-----------------------------------------------------------------------------
(* prepareCachedTrade *)

Anchor(t, hints) == IF t.type = "Buy" THEN Last(hints) ELSE hints[1]
\* The anchor pool is of the venue asked for, and trades its own token.
AnchorFits(t, hints) ==
    LET a == Anchor(t, hints)
    IN /\ PoolOf[a.pool].venue = t.dex
       /\ t.dex \in {"PumpFun", "LaunchLab"} => (Buys(a) <=> t.type = "Buy")

SettleRoute(t, hints, r) ==
    IF ~r.official /\ t.dex = "PumpFun" /\ NativeQuote(Anchor(t, hints).pool)
    THEN settlePumpFunNativeQuote(r, t.nativeInput, t.nativeOutput)
    ELSE IF t.nativeInput \/ t.nativeOutput
    THEN settleCachedRouteWithNativeSol(r, t.nativeInput, t.nativeOutput)
    ELSE {Plain(r)}

\* The transaction, what its caller was told about it, and the read it was signed in.
Compiled(r, s, tip, nativeInput, nativeOutput, amount, endpoints, context) ==
    [kind |-> "wire", instructions |-> s.instructions, min |-> r.min, required |-> s.required + tip,
     tip |-> tip, nativeInput |-> nativeInput, nativeOutput |-> nativeOutput, amount |-> amount,
     in |-> endpoints[1], out |-> endpoints[2], context |-> context]

Endpoints(r) == <<r.setup[1], Last(r.setup)>>

PrepareHints(t, hints) ==
    IF ~AnchorFits(t, hints) THEN Thrown
    ELSE LET official == IF t.dex \in {"PumpFun", "PumpSwap"}
                         THEN prepareOfficialPumpRoute(hints, t.amount, t.route, t.nativeInput \/ t.nativeOutput)
                         ELSE {}
             routes == IF official # {} THEN official
                       ELSE IF t.route.execution = "official" THEN {}
                       ELSE prepareCachedRoute(hints, t.amount, t.slip,
                              t.dex = "PumpFun" /\ NativeQuote(Anchor(t, hints).pool), NoLimits)
             allowed == {r \in routes : t.route.execution = "sequential" \/ r.min >= t.route.minimum}
         IN UNION {{Compiled(r, [s EXCEPT !.instructions =
                                    (IF t.tip > 0 THEN <<Transfer(t.tip)>> ELSE <<>>) \o @],
                             t.tip, t.nativeInput, t.nativeOutput, t.amount, Endpoints(r), Context(0)) :
                        s \in SettleRoute(t, hints, r)} : r \in allowed}

\* Given hints, those; given candidate pools, the first path that prepares.
prepareCachedTrade(t) ==
    IF t.hints # <<>> THEN PrepareHints(t, t.hints)
    ELSE LET fits == {path \in CandidateRoutes(t.candidates, t.from, t.to) : PrepareHints(t, path) # {}}
         IN UNION {PrepareHints(t, path) : path \in {p \in fits : \A q \in fits : ~Earlier(q, p)}}

Idle == held = None /\ wire = None /\ landed = None

PrepareTrade(t) ==
    /\ Idle /\ usable
    /\ \E w \in prepareCachedTrade(t) : wire' = w
    /\ UNCHANGED <<clock, held, landed>>

-----------------------------------------------------------------------------
(* PreparedPumpSwapTrade: a copy of the route that may be signed later.    *)

SearchTrade(s, age) ==
    /\ Idle /\ usable
    /\ \E r \in searchPumpSwapTrade(s) :
           held' = [kind |-> "held", search |-> s, route |-> r,
                    context |-> Context(age)]
    /\ UNCHANGED <<clock, wire, landed>>

\* The tighter of the age allowed now and the age allowed when it was prepared.
FreshAgeBug(age, old) == old
FreshAge(age, old) == IF age < old THEN age ELSE old
validateFreshness(age) ==
    /\ usable /\ epoch = held.context.epoch /\ slot >= held.context.slot
    /\ slot - held.context.slot <= FreshAge(age, held.context.age)

Middleware(o, ixs) == IF o.middleware = "prepends" THEN <<ComputeBudget>> \o ixs ELSE ixs

buildSigned(o, age) ==
    LET r == held.route
        settled == IF o.nativeInput \/ o.nativeOutput
                   THEN settleCachedRouteWithNativeSol(r, o.nativeInput, o.nativeOutput) ELSE {Plain(r)}
        full(s) == Middleware(o, (IF o.nonce THEN <<NonceAdvance>> ELSE <<>>)
                     \o (IF o.tip > 0 THEN <<Transfer(o.tip)>> ELSE <<>>)
                     \o (IF o.version = 0 THEN <<ComputeBudget>> ELSE <<>>) \o s.instructions)
    IN {Compiled(r, [s EXCEPT !.instructions = full(s)], o.tip, o.nativeInput, o.nativeOutput,
                 held.search.amount, Endpoints(r), Context(age)) :
        s \in {t \in settled : o.nonce => Head(full(t)) = NonceAdvance}}

BuildSigned(o, age) ==
    /\ held # None /\ wire = None /\ validateFreshness(age)
    /\ \E w \in buildSigned(o, age) : wire' = w
    /\ UNCHANGED <<clock, held, landed>>

\* The chain goes on, and the snapshot's cache may stop to be usable, until the
\* transaction is signed: what is signed no longer depends on either.
Advance ==
    /\ wire = None /\ slot < MaxSlot
    /\ slot' = slot + 1 /\ UNCHANGED <<epoch, usable, held, wire, landed>>
NewEpoch ==
    /\ wire = None /\ epoch < MaxEpoch
    /\ epoch' = epoch + 1 /\ UNCHANGED <<slot, usable, held, wire, landed>>
Invalidate ==
    /\ wire = None /\ usable
    /\ usable' = FALSE /\ UNCHANGED <<slot, epoch, held, wire, landed>>

-----------------------------------------------------------------------------
(* The chain.  A wallet has lamports, associated accounts and the          *)
(* temporary account; Failed is a transaction that did not go through.     *)

Failed == [failed |-> TRUE]
Balance(w, a) == IF a = "lamports" THEN w.lamports ELSE IF a = "temp" THEN w.temp ELSE w.ata[a]
Credit(w, a, n) ==
    IF Balance(w, a) = Absent THEN Failed
    ELSE IF a = "lamports" THEN [w EXCEPT !.lamports = @ + n]
    ELSE IF a = "temp" THEN [w EXCEPT !.temp = @ + n] ELSE [w EXCEPT !.ata[a] = @ + n]
Debit(w, a, n) == IF Balance(w, a) < n THEN Failed ELSE Credit(w, a, -n)
Move(w, a, b, n, m) == LET d == Debit(w, a, n) IN IF d = Failed THEN Failed ELSE Credit(d, b, m)

ExecuteInstruction(w, ix) ==
    IF w = Failed THEN {Failed}
    ELSE CASE ix.op \in {"nonceAdvance", "computeBudget"} -> {w}
      [] ix.op = "ata" -> {[w EXCEPT !.ata[ix.mint] = IF @ = Absent THEN 0 ELSE @]}
      [] ix.op = "transfer" -> {Debit(w, "lamports", ix.amount)}
      [] ix.op = "createTemp" ->
           LET d == Debit(w, "lamports", ix.lamports)
           IN {IF d = Failed \/ w.temp # Absent THEN Failed ELSE [d EXCEPT !.temp = ix.lamports - Rent]}
      [] ix.op = "closeTemp" ->
           {IF w.temp = Absent THEN Failed
            ELSE [w EXCEPT !.temp = Absent, !.lamports = @ + w.temp + Rent]}
      [] ix.op = "fundAta" -> {Move(w, "lamports", Wsol, ix.amount, ix.amount)}
      [] ix.op = "moveToTemp" -> {Move(w, Wsol, "temp", ix.amount, ix.amount)}
      [] ix.op = "swap" -> {Move(w, ix.from, ix.to, ix.amount, out) : out \in {ix.min, ix.est}}

\* What the wallet may be when the instructions have run, one after the other.
Outcomes(before) ==
    LET n == Len(wire.instructions)
        after[i \in 0..n] ==
            IF i = 0 THEN {before}
            ELSE UNION {ExecuteInstruction(w, wire.instructions[i]) : w \in after[i - 1]}
    IN after[n]

\* Exactly what the caller was told to have: the input, and the lamports required.
WalletWith(own) ==
    [lamports |-> wire.required, temp |-> Absent,
     ata |-> [m \in Mints |-> IF m = wire.in /\ ~wire.nativeInput THEN wire.amount
                              ELSE IF m = Wsol THEN own ELSE Absent]]

Land(own) ==
    /\ wire # None /\ landed = None
    /\ \E w \in Outcomes(WalletWith(own)) :
           landed' = [kind |-> "landed", before |-> WalletWith(own), after |-> w]
    /\ UNCHANGED <<clock, held, wire>>

RouteNext ==
    \/ \E t \in Requests : PrepareTrade(t)
    \/ \E s \in Searches, age \in Ages : SearchTrade(s, age)
    \/ \E o \in Builds, age \in Ages : BuildSigned(o, age)
    \/ \E own \in OwnWsol \cup {Absent} : Land(own)
    \/ Advance \/ NewEpoch \/ Invalidate

RouteSpec == RouteInit /\ [][RouteNext]_routeVars

-----------------------------------------------------------------------------
(* Properties *)

Earned(a) == Balance(landed.after, a) - (IF Balance(landed.before, a) = Absent THEN 0 ELSE Balance(landed.before, a))
Lamports == IF wire.nativeOutput THEN landed.after.lamports - landed.before.lamports + wire.tip
            ELSE Earned(wire.out)

\* With no more than the input and the lamports it asked for, a prepared trade goes through
\* whatever its swaps pay above their minimum - no leg is short of what the leg before
\* it paid, and no lamport more is spent than was required - and the caller gets at least
\* the minimum the trade was announced with, as tokens or as SOL (prepareCachedRoute,
\* both settlements).
LandsAsPromised ==
    landed # None => landed.after # Failed /\ landed.after.lamports >= 0 /\ Lamports >= wire.min

\* A trade whose SOL endpoint is native leaves the wallet's own wrapped SOL account as
\* it was, missing or not, and no trade leaves a temporary account behind
\* (native_sol.ts:1-4, pumpfun_settlement.ts).
OwnWsolUntouched ==
    landed # None /\ landed.after # Failed =>
        /\ landed.after.temp = Absent
        /\ wire.nativeInput \/ wire.nativeOutput => landed.after.ata[Wsol] = landed.before.ata[Wsol]

\* No sequence of known pools around the anchor, tried one by one, has a better
\* protected output than the trade the search holds (searchPumpSwapTradeWithTopology).
Tries(s) ==
    LET hints == UNION {HintsOf(p) : p \in s.pools}
        conversions == UNION {[1..n -> hints] : n \in 0..s.hops}
    IN {c \in {IF s.type = "Buy" THEN Append(c, AnchorHint(s)) ELSE <<AnchorHint(s)>> \o c : c \in conversions} :
          c[1].in = (IF s.type = "Buy" THEN s.asset ELSE s.token) /\
          Last(c).out = (IF s.type = "Buy" THEN s.token ELSE s.asset)}
BestRoute ==
    held # None /\ wire = None => \A try \in Tries(held.search) : \A r \in preparePumpSwapTrade(held.search, try) :
        held.route.min >= r.min

\* What is signed from a held trade was quoted in this epoch, from an unbroken cache, no
\* later than now, and no more slots ago than the read it was prepared in allowed nor than
\* the read it is signed in allows, whichever is tighter (validateFreshness).
NoStaleWire ==
    [][wire = None /\ wire' # None /\ held # None =>
         /\ usable /\ wire'.context.epoch = held.context.epoch
         /\ held.context.slot <= wire'.context.slot
         /\ \A allowed \in {held.context.age, wire'.context.age} :
                wire'.context.slot - held.context.slot <= allowed]_routeVars
=============================================================================
