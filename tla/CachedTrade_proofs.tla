------------------------- MODULE CachedTrade_proofs -------------------------
(***************************************************************************)
(* Proofs about what a cached trade is built from, for every value of the  *)
(* constants.  AccountCache: types, what an open gate means, that no       *)
(* guarded snapshot outlives a loss of continuity, that versions only      *)
(* grow.  ConstantProduct: no sequence of trades overdraws a pool, no      *)
(* sequence of trades gains by rounding, and the directions of a quote     *)
(* agree.  CachedRoutes: what is signed is as fresh as was asked for; no   *)
(* trade leaves a temporary account, nor touches the wallet's own wrapped  *)
(* SOL account where an endpoint is native; the search finds the best      *)
(* route; a trade that has what it asked for goes through, and brings what *)
(* it promised.                                                            *)
(***************************************************************************)
EXTENDS AccountCache, ConstantProduct, CachedRoutes, SequenceTheorems, FiniteSetTheorems,
        TLAPS, WellFoundedInduction

-----------------------------------------------------------------------------
(* AccountCache.                                                           *)

Accounts == [version : 0..MaxVersion, fork : Forks \cup {NoFork}]

\* A validation under way is for no later generation than the gate's; what counts
\* as validated was validated for exactly this one; an open gate has it all.
GateInv ==
    /\ token.generation <= generation
    /\ \A k \in validated : validFor[k] = [generation |-> generation, fork |-> forkId]
    /\ state = "ready" => validated = required

\* A guarded snapshot that lost continuity is given away by its generation, or
\* by the conflict; the generation is why the gate may open again.
SnapshotInv ==
    /\ snapshot.kind \in {"none", "plain", "ready", "observed"}
    /\ snapshot.generation <= generation
    /\ snapshot.kind \in {"ready", "observed"} /\ gap =>
           conflicted \/ snapshot.generation < generation

CacheInv == TypeOK /\ GateInv /\ SnapshotInv

-----------------------------------------------------------------------------
\* The cache's accounts, after a batch.

\* A nonempty set of numbers has a least one: the code compares versions, which only grow.
LEMMA NatWellFounded == ASSUME NEW T \in SUBSET Nat, T # {}
                        PROVE \E x \in T : \A y \in T : x <= y
<1> DEFINE Less == {ss \in Nat \X Nat : ss[1] < ss[2]}
<1>1. IsWellFoundedOn(Less, Nat)
  BY NatLessThanWellFounded, Zenon DEF OpToRel
<1> HIDE DEF Less
<1>2. PICK x \in T : \A y \in T : ~(<<y, x>> \in Less)
  BY <1>1, WFMin
<1>3. ASSUME NEW y \in T PROVE x <= y
  <2>1. x \in Nat /\ y \in Nat /\ <<y, x>> \notin Less
    BY <1>2
  <2>2. ~(y < x)
    BY <2>1 DEF Less
  <2> QED BY <2>1, <2>2
<1> QED BY <1>3

\* The newest of the cells a batch has staged for an account is one of them and no older than any.
LEMMA NewestIsNewest ==
    ASSUME NEW S \in SUBSET Accounts, S # {}
    PROVE Newest(S) \in S /\ \A c \in S : c.version <= Newest(S).version
<1> DEFINE T == {MaxVersion - c.version : c \in S}
<1>1. MaxVersion \in Nat /\ T \in SUBSET Nat /\ T # {}
  BY FeedAssumption DEF Accounts
<1>2. PICK x \in T : \A y \in T : x <= y
  BY <1>1, NatWellFounded
<1>3. PICK a \in S : x = MaxVersion - a.version
  BY <1>2
<1>4. \A c \in S : c.version <= a.version
  <2> TAKE c \in S
  <2>1. x <= MaxVersion - c.version
    BY <1>2
  <2>2. a.version \in Nat /\ c.version \in Nat
    BY DEF Accounts
  <2> QED BY <1>1, <1>3, <2>1, <2>2
<1> QED BY <1>3, <1>4 DEF Newest

\* A batch gives every account a version of its own or leaves it, and never an
\* older one.
LEMMA AfterIsNewer ==
    ASSUME TypeOK, NEW b \in Batches, NEW k \in Keys
    PROVE After(b, k) \in Accounts /\ accounts[k].version <= After(b, k).version
<1> DEFINE S == {accounts[k]} \cup {[version |-> b[i].version, fork |-> b[i].fork] :
                                     i \in {i \in DOMAIN b : b[i].key = k}}
<1>1. \A i \in DOMAIN b : b[i] \in Updates
  BY FeedAssumption
<1>2. \A i \in DOMAIN b : [version |-> b[i].version, fork |-> b[i].fork] \in Accounts
  BY <1>1, FeedAssumption DEF Updates, Versions, Accounts
<1>3. accounts[k] \in Accounts
  BY DEF TypeOK, Accounts
<1>4. S \in SUBSET Accounts /\ S # {} /\ accounts[k] \in S
  BY <1>2, <1>3
<1>5. After(b, k) = Newest(S)
  BY DEF After
<1> HIDE DEF S
<1> QED BY <1>4, <1>5, NewestIsNewest

-----------------------------------------------------------------------------
\* The invariant.

\* A new cache, a gate that is Disconnected and calls without a snapshot satisfy the invariant.
LEMMA CacheStarts == CacheInit => CacheInv
<1> SUFFICES ASSUME CacheInit PROVE CacheInv
  OBVIOUS
<1> USE DEF CacheInit
<1>1. TypeOK
  <2>1. 0 \in 0..MaxGeneration /\ 0 \in 0..MaxVersion /\ 0 \in Nat
    BY BoundAssumption, FeedAssumption
  <2>2. accounts \in [Keys -> [version : 0..MaxVersion, fork : Forks \cup {NoFork}]]
    BY <2>1 DEF Missing
  <2>3. token \in Tokens /\ validFor \in [Keys -> Tokens]
    BY <2>1 DEF Tokens
  <2>4. snapshot \in [kind : {"none", "plain", "ready", "observed"}, generation : 0..MaxGeneration,
                      through : Nat, accounts : [Keys -> 0..MaxVersion]]
    BY <2>1 DEF NoSnapshot
  <2> QED BY <2>1, <2>2, <2>3, <2>4, KeysAssumption DEF TypeOK
<1>2. GateInv
  BY KeysAssumption DEF GateInv
<1>3. SnapshotInv
  BY DEF SnapshotInv, NoSnapshot
<1> QED BY <1>1, <1>2, <1>3 DEF CacheInv

\* Every batch, event of the gate and step of a cached trade keeps it.
LEMMA CacheSteps == CacheInv /\ [CacheNext]_stateVars => CacheInv'
<1> SUFFICES ASSUME CacheInv, [CacheNext]_stateVars PROVE CacheInv'
  OBVIOUS
<1> USE DEF CacheInv
<1>1. ASSUME NEW b \in Batches, UpdateMany(b) PROVE CacheInv'
  <2> USE <1>1 DEF UpdateMany, gateVars, callVars
  <2>1. accounts' \in [Keys -> Accounts]
    BY AfterIsNewer DEF TypeOK, Accounts
  <2>2. conflicted' \in BOOLEAN /\ gap' \in BOOLEAN
    BY DEF Conflicts, TypeOK
  <2>3. TypeOK'
    BY <2>1, <2>2 DEF TypeOK, Accounts, Tokens
  <2>4. GateInv'
    BY DEF GateInv
  <2>5. SnapshotInv'
    BY DEF SnapshotInv
  <2> QED BY <2>3, <2>4, <2>5
<1>2. ASSUME Interrupt PROVE CacheInv'
  <2> USE <1>2 DEF Interrupt, cacheVars, callVars
  <2>1. TypeOK'
    BY BoundAssumption DEF TypeOK, Tokens
  <2>2. GateInv'
    BY BoundAssumption DEF GateInv, TypeOK, Tokens
  <2>3. SnapshotInv'
    BY BoundAssumption DEF SnapshotInv, TypeOK
  <2> QED BY <2>1, <2>2, <2>3
<1>3. ASSUME NEW f \in Forks, BeginRecovery(f) PROVE CacheInv'
  <2> USE <1>3 DEF BeginRecovery, cacheVars, callVars
  <2>1. TypeOK'
    BY BoundAssumption DEF TypeOK, Tokens
  <2>2. GateInv'
    BY BoundAssumption DEF GateInv, TypeOK
  <2>3. SnapshotInv'
    BY BoundAssumption DEF SnapshotInv, TypeOK
  <2> QED BY <2>1, <2>2, <2>3
<1>4. ASSUME NEW K \in SUBSET Keys, RequireAccounts(K) PROVE CacheInv'
  <2> USE <1>4 DEF RequireAccounts, cacheVars, callVars
  <2>1. TypeOK'
    BY BoundAssumption DEF TypeOK, Tokens
  <2>2. GateInv'
    BY BoundAssumption DEF GateInv, TypeOK, Tokens
  <2>3. SnapshotInv'
    BY BoundAssumption DEF SnapshotInv, TypeOK
  <2> QED BY <2>1, <2>2, <2>3
<1>5. ASSUME StartValidation PROVE CacheInv'
  <2> USE <1>5 DEF StartValidation, cacheVars, gateVars, callVars
  <2>1. TypeOK'
    BY DEF TypeOK, Tokens
  <2>2. GateInv'
    BY BoundAssumption DEF GateInv, TypeOK
  <2>3. SnapshotInv'
    BY DEF SnapshotInv
  <2> QED BY <2>1, <2>2, <2>3
<1>6. ASSUME NEW K \in SUBSET Keys, MarkValidated(K) PROVE CacheInv'
  <2> USE <1>6 DEF MarkValidated, cacheVars, callVars
  <2>1. TypeOK'
    BY DEF TypeOK
  <2>2. GateInv'
    <3>1. \A k \in validated' : validFor'[k] = [generation |-> generation, fork |-> forkId]
      BY DEF GateInv, TypeOK
    <3>2. state' = "ready" => validated' = required'
      BY DEF GateInv, TypeOK
    <3> QED BY <3>1, <3>2 DEF GateInv
  <2>3. SnapshotInv'
    BY DEF SnapshotInv
  <2> QED BY <2>1, <2>2, <2>3
<1>7. ASSUME NEW kind \in {"plain", "ready", "observed"}, NEW through \in Slots,
             NEW all \in BOOLEAN, TakeSnapshot(kind, through, all) PROVE CacheInv'
  <2> USE <1>7 DEF TakeSnapshot, cacheVars, gateVars
  <2>1. through \in Nat
    BY FeedAssumption DEF Slots
  <2>2. snapshot'.accounts \in [Keys -> 0..MaxVersion]
    BY FeedAssumption DEF TypeOK, Frozen
  <2>3. TypeOK'
    BY <2>1, <2>2 DEF TypeOK
  <2>4. GateInv'
    BY DEF GateInv
  <2>5. SnapshotInv'
    BY BoundAssumption DEF SnapshotInv, TypeOK
  <2> QED BY <2>3, <2>4, <2>5
<1>8. ASSUME NEW now \in Slots, NEW age \in {0, 1}, Execute(now, age) PROVE CacheInv'
  <2> USE <1>8 DEF Execute, cacheVars, gateVars
  <2>1. TypeOK'
    BY DEF TypeOK, Tokens
  <2>2. GateInv' /\ SnapshotInv'
    BY DEF GateInv, SnapshotInv
  <2> QED BY <2>1, <2>2
<1>9. ASSUME SubmitReturns PROVE CacheInv'
  <2> USE <1>9 DEF SubmitReturns, cacheVars, gateVars
  <2>1. TypeOK'
    BY DEF TypeOK, Tokens
  <2>2. GateInv' /\ SnapshotInv'
    BY DEF GateInv, SnapshotInv
  <2> QED BY <2>1, <2>2
<1>10. ASSUME UNCHANGED stateVars PROVE CacheInv'
  BY <1>10 DEF stateVars, cacheVars, gateVars, callVars, TypeOK, GateInv, SnapshotInv, Tokens
<1> QED BY <1>1, <1>2, <1>3, <1>4, <1>5, <1>6, <1>7, <1>8, <1>9, <1>10 DEF CacheNext

\* The invariant holds of the cache, its gate and the cached trades at any time.
THEOREM CacheInvariance == CacheSpec => []CacheInv
<1> QED BY CacheStarts, CacheSteps, PTL DEF CacheSpec

-----------------------------------------------------------------------------
\* Every state has the types of TypeOK.
THEOREM TypeCorrect == CacheSpec => []TypeOK
<1>1. CacheInv => TypeOK
  BY DEF CacheInv
<1> QED BY <1>1, CacheInvariance, PTL

\* The gate is open only while every required account is validated under the
\* generation and fork of now, whatever validations are late.
THEOREM GateIsValidated == CacheSpec => []ReadyIsValidated
<1>1. CacheInv => ReadyIsValidated
  BY DEF CacheInv, TypeOK, GateInv, ReadyIsValidated
<1> QED BY <1>1, CacheInvariance, PTL

\* No trade is submitted from a guarded snapshot that lost continuity.
THEOREM GuardHolds == CacheSpec => NoGapSubmission
<1>1. CacheInv /\ [CacheNext]_stateVars =>
        [trade = "idle" /\ trade' = "submitting" /\ snapshot.kind # "plain" => ~gap]_stateVars
  <2> SUFFICES ASSUME CacheInv, CacheNext, trade = "idle", trade' = "submitting", snapshot.kind # "plain"
               PROVE ~gap
    OBVIOUS
  <2>1. PICK now \in Slots, age \in {0, 1} : Execute(now, age)
    BY DEF CacheNext, UpdateMany, Interrupt, BeginRecovery, RequireAccounts, StartValidation,
           MarkValidated, TakeSnapshot, SubmitReturns, callVars
  <2>2. snapshot.kind \in {"ready", "observed"} /\ ~conflicted
    BY <2>1 DEF Execute, Usable, CacheInv, SnapshotInv
  <2>3. snapshot.generation = generation /\ generation \in Nat
    BY <2>1 DEF Execute, Usable, CacheInv, TypeOK
  <2> QED BY <2>2, <2>3 DEF CacheInv, SnapshotInv
<1> QED BY <1>1, CacheInvariance, PTL DEF CacheSpec, NoGapSubmission

\* Repeated and reordered updates take no account back.
THEOREM VersionsGrow == CacheSpec => VersionsNeverGoBack
<1>1. CacheInv /\ [CacheNext]_stateVars => [\A k \in Keys : accounts[k].version <= accounts'[k].version]_stateVars
  <2> SUFFICES ASSUME CacheInv, CacheNext, NEW k \in Keys
               PROVE accounts[k].version <= accounts'[k].version
    OBVIOUS
  <2>1. CASE \E b \in Batches : UpdateMany(b)
    <3>1. PICK b \in Batches : UpdateMany(b)
      BY <2>1
    <3>2. CASE Conflicts(b)
      BY <3>1, <3>2 DEF UpdateMany, CacheInv, TypeOK
    <3>3. CASE ~Conflicts(b)
      <4>1. accounts'[k] = After(b, k)
        BY <3>1, <3>3 DEF UpdateMany
      <4> QED BY <4>1, AfterIsNewer DEF CacheInv
    <3> QED BY <3>2, <3>3
  <2>2. CASE accounts' = accounts
    BY <2>2 DEF CacheInv, TypeOK
  <2>3. (\E b \in Batches : UpdateMany(b)) \/ accounts' = accounts
    BY DEF CacheNext, Interrupt, BeginRecovery, RequireAccounts, StartValidation, MarkValidated,
           TakeSnapshot, Execute, SubmitReturns, cacheVars
  <2> QED BY <2>1, <2>2, <2>3
<1> QED BY <1>1, CacheInvariance, PTL DEF CacheSpec, VersionsNeverGoBack

\* A conflict refuses its batch whole and every later one; no guard is given and no
\* trade submitted after it, also where snapshot() without keys still freezes.
THEOREM ConflictIsFinal == CacheSpec => ConflictStops
<1>1. [CacheNext]_stateVars =>
        [/\ conflicted' => accounts' = accounts
         /\ conflicted => conflicted'
         /\ conflicted /\ snapshot' # snapshot => snapshot'.kind = "plain"
         /\ conflicted /\ trade = "idle" => trade' = "idle"]_stateVars
  BY DEF CacheNext, UpdateMany, Interrupt, BeginRecovery, RequireAccounts, StartValidation,
         MarkValidated, TakeSnapshot, Execute, Usable, SubmitReturns, cacheVars, callVars
<1> QED BY <1>1, PTL DEF CacheSpec, ConflictStops

\* Whatever batches arrive, accounts only advance and a conflict stops them for good.
THEOREM BatchesSafe == CacheSpec => BatchesAreSafe
BY VersionsGrow, ConflictIsFinal DEF BatchesAreSafe

-----------------------------------------------------------------------------
(* ConstantProduct.                                                        *)

-----------------------------------------------------------------------------
(* Arithmetic. *)

\* A quotient rounded down is the largest number that fits.
LEMMA Floor ==
    ASSUME NEW a \in Nat, NEW b \in Nat, b > 0
    PROVE  /\ a \div b \in Nat /\ (a \div b) * b <= a /\ a < (a \div b) * b + b
           /\ \A n \in Nat : n * b <= a => n <= a \div b
<1>1. a \div b \in Nat /\ (a \div b) * b <= a /\ a < (a \div b) * b + b
  OBVIOUS
<1>2. ASSUME NEW n \in Nat, NEW q \in Nat, n * b <= a, a < q * b + b PROVE n <= q
  <2>1. n * b < (q + 1) * b
    BY <1>2
  <2> QED BY <2>1
<1> QED BY <1>1, <1>2

\* ceilDiv is the smallest number that covers (calc/index.ts, ceilDiv).
LEMMA Ceil ==
    ASSUME NEW a \in Nat, NEW b \in Nat, b > 0
    PROVE  /\ ceilDiv(a, b) \in Nat /\ ceilDiv(a, b) * b >= a
           /\ \A n \in Nat : n * b >= a => ceilDiv(a, b) <= n
<1> DEFINE q == a \div b  r == a % b
<1>1. q \in Nat /\ r \in 0..(b - 1) /\ a = q * b + r
  OBVIOUS
<1>2. ceilDiv(a, b) = IF r = 0 THEN q ELSE q + 1
  BY <1>1 DEF ceilDiv
<1> HIDE DEF q, r
<1>3. ceilDiv(a, b) \in Nat /\ ceilDiv(a, b) * b >= a
  <2>1. (q + 1) * b = q * b + b
    BY <1>1
  <2> QED BY <1>1, <1>2, <2>1
<1>4. ASSUME NEW n \in Nat, n * b >= a PROVE ceilDiv(a, b) <= n
  <2>1. CASE r = 0
    <3>1. n * b >= q * b
      BY <1>1, <1>4, <2>1
    <3>2. n >= q
      BY <3>1, <1>1
    <3> QED BY <3>2, <2>1, <1>2
  <2>2. CASE r # 0
    <3>1. n * b > q * b
      BY <1>1, <1>4, <2>2
    <3>2. n > q
      BY <3>1, <1>1
    <3> QED BY <3>2, <2>2, <1>1, <1>2
  <2> QED BY <2>1, <2>2
<1> QED BY <1>3, <1>4

\* A fee is a number, grows with the amount, and is nothing of nothing.
LEMMA FeeGrows ==
    ASSUME NEW a \in Nat, NEW c \in Nat, NEW bps \in Nat, a <= c
    PROVE  /\ computeFee(a, bps) \in Nat /\ computeFee(a, bps) <= computeFee(c, bps)
           /\ computeFee(0, bps) = 0
<1>1. a * bps \in Nat /\ c * bps \in Nat /\ a * bps <= c * bps /\ 0 * bps = 0
  OBVIOUS
<1>2. \A x, y \in Nat : x <= y => (x + 9999) \div 10000 \in Nat /\ (x + 9999) \div 10000 <= (y + 9999) \div 10000
  OBVIOUS
<1> QED BY <1>1, <1>2 DEF computeFee

\* The fee of an amount is a number.
LEMMA FeeType ==
    ASSUME NEW a \in Nat, NEW bps \in Nat
    PROVE  computeFee(a, bps) \in Nat
BY FeeGrows

\* What flows out against n into the other side, rounded down, leaves something and
\* takes nothing off the product of the two sides.
LEMMA OutKeeps ==
    ASSUME NEW b \in Nat, NEW v \in Nat, NEW n \in Nat, b > 0, v > 0
    PROVE  LET out == (b * n) \div (v + n)
           IN  out \in Nat /\ out < b /\ (b - out) * (v + n) >= b * v
<1> DEFINE out == (b * n) \div (v + n)
<1>1. b * n \in Nat /\ v + n \in Nat /\ v + n > 0
  OBVIOUS
<1>2. out \in Nat /\ out * (v + n) <= b * n
  BY <1>1, Floor
<1> HIDE DEF out
<1>3. (b - out) * (v + n) = b * v + b * n - out * (v + n)
  BY <1>2
<1>4. (b - out) * (v + n) >= b * v /\ b * v > 0
  BY <1>1, <1>2, <1>3
<1>5. out < b
  BY <1>1, <1>2, <1>4
<1> QED BY <1>2, <1>4, <1>5 DEF out

\* Less out or more in keeps the product too.
LEMMA KeepMore ==
    ASSUME NEW b \in Nat, NEW v \in Nat, NEW out \in Int, NEW n \in Int, NEW least \in Int,
           NEW most \in Int, (b - out) * (v + n) >= b * v, out <= b, v + n >= 0,
           least <= out, n <= most
    PROVE  (b - least) * (v + most) >= b * v
<1>1. (b - least) * (v + n) >= (b - out) * (v + n)
  OBVIOUS
<1>2. (b - least) * (v + most) >= (b - least) * (v + n)
  OBVIOUS
<1> QED BY <1>1, <1>2

\* What is asked for an amount taken out, rounded up, covers it.
LEMMA InKeeps ==
    ASSUME NEW b \in Nat, NEW v \in Nat, NEW a \in Nat, a < b
    PROVE  LET in == ceilDiv(v * a, b - a)
           IN  in \in Nat /\ (b - a) * (v + in) >= b * v
<1> DEFINE in == ceilDiv(v * a, b - a)
<1>1. v * a \in Nat /\ b - a \in Nat /\ b - a > 0
  OBVIOUS
<1>2. in \in Nat /\ in * (b - a) >= v * a
  BY <1>1, Ceil
<1> HIDE DEF in
<1>3. (b - a) * (v + in) = b * v - v * a + in * (b - a)
  BY <1>2
<1> QED BY <1>1, <1>2, <1>3 DEF in

\* A share of an amount is no more than the amount.
LEMMA Shares ==
    ASSUME NEW a \in Nat, NEW num \in Nat, NEW den \in Nat, den > 0, num <= den
    PROVE  (a * num) \div den \in 0..a
<1>1. a * num \in Nat /\ a * num <= a * den
  OBVIOUS
<1>2. (a * num) \div den \in Nat /\ ((a * num) \div den) * den <= a * den
  BY <1>1, Floor
<1>3. \A q \in Nat : q * den <= a * den => q <= a
  OBVIOUS
<1> QED BY <1>2, <1>3

\* Without slippage an amount is what it was.
LEMMA NoSlippage ==
    ASSUME NEW a \in Int
    PROVE  calculateWithSlippageSell(a, 0) = a
BY DEF calculateWithSlippageSell, ClampBps, Least

-----------------------------------------------------------------------------
(* A fair trade: at every venue the pool takes what the trader pays, gives *)
(* what the trader gets, and loses nothing of the product of its sides.    *)

\* The quote side a pool is priced by.
Priced(m) == m.vault + (IF m.venue = "pumpswap" THEN m.offset ELSE 0)

Funded(m) == m \in PoolStates /\ m.base > 0 /\ Priced(m) > 0

Fair(m, p, pool) ==
    /\ pool \in PoolStates /\ pool.venue = m.venue /\ pool.offset = m.offset
    /\ p.base \in Int /\ p.quote \in Int
    /\ pool.base = m.base - p.base /\ p.quote >= pool.vault - m.vault
    /\ pool.base > 0 /\ Priced(pool) > 0
    /\ pool.base * Priced(pool) >= m.base * Priced(m)

\* The three fees of a PumpSwap trade, of which one stays in the vault.
LEMMA ThreeFeesType ==
    ASSUME NEW m \in PoolStates, NEW raw \in Nat
    PROVE  computeFee(raw, m.lp) \in Nat /\ ThreeFees(m, raw) \in Nat
           /\ ThreeFees(m, raw) >= computeFee(raw, m.lp)
<1>1. m.lp \in Nat /\ m.protocol \in Nat /\ m.creator \in Nat
  BY DEF PoolStates
<1>2. computeFee(raw, m.lp) \in Nat /\ computeFee(raw, m.protocol) \in Nat /\ computeFee(raw, m.creator) \in Nat
  BY <1>1, FeeType
<1> QED BY <1>2 DEF ThreeFees

\* buyBaseInput: the pool gets the ceiling of what the constant product asks, and the fee of
\* its liquidity providers.
LEMMA BuyBaseFair ==
    ASSUME NEW m \in PoolStates, m.venue = "pumpswap", NEW a \in Nat,
           NEW q \in buyBaseInput(m, a, 0)
    PROVE  Funded(m) /\ Fair(m, [base |-> a, quote |-> q.ui], AfterPumpSwap(m, a, q.raw))
<1> DEFINE v == effectiveQuoteReserves(m)  raw == ceilDiv(v * a, m.base - a)
           fee == computeFee(raw, m.lp)  pool == AfterPumpSwap(m, a, raw)
<1>1. /\ HasLiquidity(m) /\ a < m.base
      /\ q = [raw |-> raw, ui |-> raw + ThreeFees(m, raw),
              max |-> calculateWithSlippageBuy(raw + ThreeFees(m, raw), 0)]
  BY DEF buyBaseInput, NoQuote, PoolStates
<1>2. m.base \in Nat /\ m.vault \in Nat /\ m.offset \in Int /\ v \in Nat /\ v = Priced(m) /\ v > 0
  BY <1>1 DEF PoolStates, HasLiquidity, effectiveQuoteReserves, Priced
<1> HIDE DEF v
<1>3. raw \in Nat /\ (m.base - a) * (v + raw) >= m.base * v
  BY <1>1, <1>2, InKeeps
<1> HIDE DEF raw
<1>4. fee \in Nat /\ ThreeFees(m, raw) \in Nat /\ ThreeFees(m, raw) >= fee
  BY <1>3, ThreeFeesType
<1>5. pool = [m EXCEPT !.base = @ - a, !.vault = @ + raw + fee]
  <2>1. (IF raw < 0 THEN -raw ELSE raw) = raw
    BY <1>3
  <2> QED BY <2>1, Zenon DEF AfterPumpSwap
<1> HIDE DEF fee, pool
<1>6. pool \in PoolStates /\ pool.base = m.base - a /\ pool.vault = m.vault + raw + fee
      /\ pool.venue = m.venue /\ pool.offset = m.offset
  <2>1. m.base - a \in Nat /\ m.vault + raw + fee \in Nat
    BY <1>1, <1>2, <1>3, <1>4
  <2> QED BY <2>1, <1>5 DEF PoolStates
<1>7. Priced(pool) = v + raw + fee
  BY <1>2, <1>3, <1>4, <1>6 DEF Priced
<1>8. (m.base - a) * (v + (raw + fee)) >= m.base * v
  BY <1>1, <1>2, <1>3, <1>4, KeepMore
<1>9. Fair(m, [base |-> a, quote |-> q.ui], pool)
  BY <1>1, <1>2, <1>3, <1>4, <1>6, <1>7, <1>8 DEF Fair
<1> QED BY <1>1, <1>2, <1>9 DEF Funded, pool

\* buyQuoteInput: one unit of the net input is not priced, and the fees are paid on top.
LEMMA BuyQuoteFair ==
    ASSUME NEW m \in PoolStates, m.venue = "pumpswap", NEW a \in Nat,
           NEW q \in buyQuoteInput(m, a, 0)
    PROVE  Funded(m) /\ Fair(m, [base |-> q.base, quote |-> q.raw + ThreeFees(m, q.raw)],
                             AfterPumpSwap(m, q.base, q.raw))
<1> DEFINE v == effectiveQuoteReserves(m)
           net == (a * 10000) \div (10000 + m.lp + m.protocol + m.creator)
           raw == net - Most(0, net + ThreeFees(m, net) - a)
           out == (m.base * (raw - 1)) \div (v + raw - 1)
           fee == computeFee(raw, m.lp)  pool == AfterPumpSwap(m, out, raw)
<1>1. /\ HasLiquidity(m) /\ ~(raw <= 0)
      /\ q = [base |-> out, raw |-> raw, max |-> calculateWithSlippageBuy(a, 0)]
  BY DEF buyQuoteInput, NoQuote
<1>2. m.base \in Nat /\ m.base > 0 /\ m.vault \in Nat /\ m.offset \in Int /\ v \in Nat /\ v = Priced(m) /\ v > 0
  BY <1>1 DEF PoolStates, HasLiquidity, effectiveQuoteReserves, Priced
<1>3. raw \in Nat /\ raw > 0
  <2>1. 10000 + m.lp + m.protocol + m.creator \in Nat /\ 10000 + m.lp + m.protocol + m.creator > 0
    BY DEF PoolStates
  <2>2. net \in Nat
    BY <2>1, Floor
  <2>3. ThreeFees(m, net) \in Nat
    BY <2>2, ThreeFeesType
  <2> QED BY <1>1, <2>2, <2>3 DEF Most
<1> HIDE DEF v, raw
<1>4. out \in Nat /\ out < m.base /\ (m.base - out) * (v + (raw - 1)) >= m.base * v
  <2>1. raw - 1 \in Nat /\ v + (raw - 1) = v + raw - 1
    BY <1>1, <1>2, <1>3
  <2> QED BY <1>2, <2>1, OutKeeps
<1> HIDE DEF out
<1>5. fee \in Nat /\ ThreeFees(m, raw) \in Nat /\ ThreeFees(m, raw) >= fee
  BY <1>3, ThreeFeesType
<1>6. pool = [m EXCEPT !.base = @ - out, !.vault = @ + raw + fee]
  <2>1. (IF raw < 0 THEN -raw ELSE raw) = raw
    BY <1>3
  <2> QED BY <2>1, Zenon DEF AfterPumpSwap
<1> HIDE DEF fee, pool
<1>7. pool \in PoolStates /\ pool.base = m.base - out /\ pool.vault = m.vault + raw + fee
      /\ pool.venue = m.venue /\ pool.offset = m.offset
  <2>1. m.base - out \in Nat /\ m.vault + raw + fee \in Nat
    BY <1>2, <1>3, <1>4, <1>5
  <2> QED BY <2>1, <1>6 DEF PoolStates
<1>8. Priced(pool) = v + (raw + fee)
  BY <1>2, <1>3, <1>5, <1>7 DEF Priced
<1>9. (m.base - out) * (v + (raw + fee)) >= m.base * v
  BY <1>1, <1>2, <1>3, <1>4, <1>5, KeepMore
<1>10. Fair(m, [base |-> q.base, quote |-> q.raw + ThreeFees(m, q.raw)], pool)
  BY <1>1, <1>2, <1>3, <1>4, <1>5, <1>7, <1>8, <1>9 DEF Fair
<1> QED BY <1>1, <1>2, <1>10 DEF Funded, pool

\* sellBaseInput: the vault pays what the constant product gives, less the fee it keeps;
\* the code refuses where virtual reserves promise more than the vault has.
LEMMA SellBaseFair ==
    ASSUME NEW m \in PoolStates, m.venue = "pumpswap", NEW a \in Nat, NEW bps \in Nat,
           NEW q \in sellBaseInput(m, a, bps)
    PROVE  Funded(m) /\ Fair(m, [base |-> -a, quote |-> -q.ui], AfterPumpSwap(m, -a, -q.raw))
<1> DEFINE v == effectiveQuoteReserves(m)  raw == (v * a) \div (m.base + a)
           ui == raw - ThreeFees(m, raw)
           fee == computeFee(raw, m.lp)  pool == AfterPumpSwap(m, -a, -raw)
<1>1. /\ HasLiquidity(m) /\ ui >= 0 /\ raw - fee <= m.vault
      /\ q = [raw |-> raw, ui |-> ui, min |-> minimumPumpSwapOutput(ui, bps)]
  <2>1. HasLiquidity(m) /\ ~(ui < 0) /\ PaidByVault(m, raw)
        /\ q = [raw |-> raw, ui |-> ui, min |-> minimumPumpSwapOutput(ui, bps)]
    BY DEF sellBaseInput, NoQuote
  <2>2. m.base \in Nat /\ m.base > 0 /\ v \in Nat /\ v > 0
    BY <2>1 DEF PoolStates, HasLiquidity, effectiveQuoteReserves
  <2>3. raw \in Nat
    BY <2>2, OutKeeps
  <2>4. ui \in Int
    BY <2>3, ThreeFeesType
  <2> QED BY <2>1, <2>4 DEF PaidByVault
<1>2. m.base \in Nat /\ m.base > 0 /\ m.vault \in Nat /\ m.offset \in Int /\ v \in Nat /\ v = Priced(m) /\ v > 0
  BY <1>1 DEF PoolStates, HasLiquidity, effectiveQuoteReserves, Priced
<1> HIDE DEF v
<1>3. raw \in Nat /\ raw < v /\ (v - raw) * (m.base + a) >= v * m.base
  BY <1>2, OutKeeps
<1>4. fee \in Nat /\ ThreeFees(m, raw) \in Nat /\ ThreeFees(m, raw) >= fee
  BY <1>3, ThreeFeesType
<1>5. ui = raw - ThreeFees(m, raw)
  OBVIOUS
<1> HIDE DEF raw, ui
<1>6. pool = [m EXCEPT !.base = @ - (-a), !.vault = @ + (-raw) + fee]
  <2>1. (IF -raw < 0 THEN -(-raw) ELSE -raw) = raw
    BY <1>3
  <2> QED BY <2>1, Zenon DEF AfterPumpSwap
<1> HIDE DEF fee, pool
<1>7. pool \in PoolStates /\ pool.base = m.base + a /\ pool.vault = m.vault - raw + fee
      /\ pool.venue = m.venue /\ pool.offset = m.offset
  <2>1. m.base - (-a) \in Nat /\ m.base - (-a) = m.base + a
        /\ m.vault + (-raw) + fee \in Nat /\ m.vault + (-raw) + fee = m.vault - raw + fee
    BY <1>1, <1>2, <1>3, <1>4
  <2> QED BY <2>1, <1>6 DEF PoolStates
<1>8. Priced(pool) = v + (fee - raw)
  BY <1>2, <1>3, <1>4, <1>7 DEF Priced
<1>9. (m.base + a) * (v + (fee - raw)) >= m.base * v
  <2>1. (m.base + a) * (v + (fee - raw)) = (v - raw) * (m.base + a) + fee * (m.base + a)
    BY <1>2, <1>3, <1>4
  <2>2. fee * (m.base + a) >= 0 /\ m.base * v = v * m.base
    BY <1>2, <1>4
  <2>3. (m.base + a) * (v + (fee - raw)) \in Int /\ (v - raw) * (m.base + a) \in Int
        /\ fee * (m.base + a) \in Int /\ v * m.base \in Int
    BY <1>2, <1>3, <1>4
  <2> QED BY <1>3, <2>1, <2>2, <2>3
<1>10. Fair(m, [base |-> -a, quote |-> -q.ui], pool)
  BY <1>1, <1>2, <1>3, <1>4, <1>5, <1>7, <1>8, <1>9 DEF Fair
<1> QED BY <1>1, <1>2, <1>10 DEF Funded, pool

\* sellQuoteInput: the amount of base it asks for is one that can be sold.
LEMMA SellQuoteType ==
    ASSUME NEW m \in PoolStates, NEW a, NEW bps, NEW q \in sellQuoteInput(m, a, bps)
    PROVE  q.base \in Nat
BY AmountsAssumption DEF sellQuoteInput, IsAmount, NoQuote

\* At the venues without virtual reserves a purchase is fair when it brings no more than
\* the product allows for n, and at least n reaches the pool and is paid.
LEMMA PurchaseFair ==
    ASSUME NEW m \in PoolStates, m.venue # "pumpswap", Funded(m),
           NEW most \in Nat, NEW n \in Nat, most < m.base,
           (m.base - most) * (m.vault + n) >= m.base * m.vault,
           NEW out \in Int, out <= most, NEW in \in Int, n <= in, NEW paid \in Int, in <= paid,
           NEW pool \in PoolStates, pool.venue = m.venue, pool.offset = m.offset,
           pool.base = m.base - out, pool.vault = m.vault + in
    PROVE  Fair(m, [base |-> out, quote |-> paid], pool)
<1>1. m.base \in Nat /\ m.vault \in Nat /\ m.vault > 0 /\ Priced(m) = m.vault
  BY DEF Funded, Priced, PoolStates
<1>2. Priced(pool) = m.vault + in /\ Priced(pool) > 0
  BY <1>1 DEF Priced
<1>3. (m.base - out) * (m.vault + in) >= m.base * m.vault
  BY <1>1, KeepMore
<1>4. pool.base > 0
  BY <1>1
<1> QED BY <1>1, <1>2, <1>3, <1>4 DEF Fair

\* And a sale when no more leaves the vault than the product allows, or is paid than leaves.
LEMMA SaleFair ==
    ASSUME NEW m \in PoolStates, m.venue # "pumpswap", Funded(m), NEW a \in Nat,
           NEW gross \in Nat, gross < m.vault,
           (m.vault - gross) * (m.base + a) >= m.vault * m.base,
           NEW out \in Int, out <= gross, NEW paid \in Int, paid <= out,
           NEW pool \in PoolStates, pool.venue = m.venue, pool.offset = m.offset,
           pool.base = m.base + a, pool.vault = m.vault - out
    PROVE  Fair(m, [base |-> -a, quote |-> -paid], pool)
<1>1. m.base \in Nat /\ m.base > 0 /\ m.vault \in Nat /\ Priced(m) = m.vault
  BY DEF Funded, Priced, PoolStates
<1>2. Priced(pool) = m.vault - out /\ Priced(pool) > 0
  BY <1>1 DEF Priced
<1>3. (m.vault - out) * (m.base + a) >= m.vault * m.base
  BY <1>1, KeepMore
<1>4. (m.base + a) * (m.vault - out) >= m.base * m.vault
  BY <1>1, <1>3
<1> QED BY <1>1, <1>2, <1>4 DEF Fair

\* The curve after a buy: the platform's fee does not reach it.
PumpFunBought(m, a) ==
    LET out == pumpFunBuyExact(m, a)
        net == (a * 10000) \div (m.protocol + 10000)
    IN  [m EXCEPT !.base = @ - out, !.real = @ - out, !.vault = @ + net]

\* pumpFunBuyExact: one unit of the net input is not priced.
LEMMA PumpFunBuyFair ==
    ASSUME NEW m \in PoolStates, m.venue = "pumpfun", Funded(m), NEW a \in Nat
    PROVE  Fair(m, [base |-> pumpFunBuyExact(m, a), quote |-> a], PumpFunBought(m, a))
<1> DEFINE out == pumpFunBuyExact(m, a)
           net == (a * 10000) \div (m.protocol + 10000)
           curveIn == Most(net - 1, 0)
           most == (m.base * curveIn) \div (m.vault + curveIn)
           pool == PumpFunBought(m, a)
<1>1. m.base \in Nat /\ m.base > 0 /\ m.vault \in Nat /\ m.vault > 0 /\ m.real \in Nat /\ m.protocol \in Nat
  BY DEF Funded, Priced, PoolStates
<1>2. net \in Nat /\ net <= a
  <2>1. m.protocol + 10000 \in Nat /\ m.protocol + 10000 > 0 /\ 10000 <= m.protocol + 10000
    BY <1>1
  <2> QED BY <2>1, Shares
<1>2a. pool = [m EXCEPT !.base = @ - out, !.real = @ - out, !.vault = @ + net]
  BY DEF PumpFunBought
<1> HIDE DEF net, pool
<1>3. curveIn \in Nat /\ curveIn <= net
  BY <1>2 DEF Most
<1>4. most \in Nat /\ most < m.base /\ (m.base - most) * (m.vault + curveIn) >= m.base * m.vault
  <2> HIDE DEF curveIn
  <2> QED BY <1>1, <1>3, OutKeeps
<1>5. out \in Nat /\ out <= most /\ out <= m.real
  <2>1. out = IF m.base = 0 \/ curveIn = 0 \/ m.vault + curveIn > MaxWide THEN 0
              ELSE Least(Least(IF curveIn * m.base > MaxWide THEN 0
                               ELSE (curveIn * m.base) \div (m.vault + curveIn), m.real), MaxAmount)
    BY DEF pumpFunBuyExact, net
  <2> HIDE DEF out, curveIn
  <2>2. curveIn * m.base = m.base * curveIn
    BY <1>1, <1>3
  <2>3. out = IF m.base = 0 \/ curveIn = 0 \/ m.vault + curveIn > MaxWide THEN 0
              ELSE Least(Least(IF curveIn * m.base > MaxWide THEN 0 ELSE most, m.real), MaxAmount)
    BY <2>1, <2>2, Zenon
  <2> HIDE DEF most
  <2> QED BY <1>1, <1>4, <2>3, AmountsAssumption DEF Least
<1> HIDE DEF out, curveIn, most
<1>6. pool \in PoolStates /\ pool.base = m.base - out /\ pool.vault = m.vault + net
      /\ pool.venue = m.venue /\ pool.offset = m.offset
  <2>1. m.base - out \in Nat /\ m.real - out \in Nat /\ m.vault + net \in Nat
    BY <1>1, <1>2, <1>4, <1>5
  <2> QED BY <1>2a, <2>1 DEF PoolStates
<1>7. Fair(m, [base |-> out, quote |-> a], pool)
  BY <1>2, <1>3, <1>4, <1>5, <1>6, PurchaseFair
<1> QED BY <1>7 DEF out, pool

\* pumpFunSellExact: as long as the products fit, it pays no more than leaves the curve.
LEMMA PumpFunSellFair ==
    ASSUME NEW m \in PoolStates, m.venue = "pumpfun", Funded(m), NEW a \in Nat,
           a * m.vault <= MaxWide, m.base + a <= MaxWide
    PROVE  LET gross == (a * m.vault) \div (m.base + a)
           IN  Fair(m, [base |-> -a, quote |-> -pumpFunSellExact(m, a)],
                    [m EXCEPT !.base = @ + a, !.real = @ + a, !.vault = @ - gross])
<1> DEFINE gross == (a * m.vault) \div (m.base + a)  paid == pumpFunSellExact(m, a)
           pool == [m EXCEPT !.base = @ + a, !.real = @ + a, !.vault = @ - gross]
<1>1. m.base \in Nat /\ m.base > 0 /\ m.vault \in Nat /\ m.vault > 0 /\ m.real \in Nat /\ m.protocol \in Nat
  BY DEF Funded, Priced, PoolStates
<1>2. gross \in Nat /\ gross < m.vault /\ (m.vault - gross) * (m.base + a) >= m.vault * m.base
  <2>1. a * m.vault = m.vault * a
    BY <1>1
  <2> QED BY <1>1, <2>1, OutKeeps
<1>3. paid = Least(Most(gross - computeFee(gross, m.protocol), 0), MaxAmount)
  <2>1. ~(m.base = 0) /\ ~(m.base + a > MaxWide) /\ ~(a * m.vault > MaxWide)
    BY <1>1, AmountsAssumption
  <2> QED BY <2>1, Zenon DEF pumpFunSellExact
<1> HIDE DEF gross, paid
<1>4. paid \in Nat /\ paid <= gross
  <2>1. computeFee(gross, m.protocol) \in Nat
    BY <1>1, <1>2, FeeType
  <2> QED BY <1>2, <1>3, <2>1, AmountsAssumption DEF Least, Most
<1>5. pool \in PoolStates /\ pool.base = m.base + a /\ pool.vault = m.vault - gross
      /\ pool.venue = m.venue /\ pool.offset = m.offset
  <2>1. m.base + a \in Nat /\ m.real + a \in Nat /\ m.vault - gross \in Nat
    BY <1>1, <1>2
  <2> QED BY <2>1 DEF PoolStates
<1> HIDE DEF pool
<1>6. Fair(m, [base |-> -a, quote |-> -paid], pool)
  BY <1>1, <1>2, <1>4, <1>5, SaleFair
<1> QED BY <1>6 DEF gross, paid, pool

\* getBuyPrice: the reserves are rounded up, and the curve sells what it has.
LEMMA CurveBuyFair ==
    ASSUME NEW m \in PoolStates, m.venue = "curve", Funded(m), NEW a \in Nat,
           NEW out \in getBuyPrice(m, a)
    PROVE  Fair(m, [base |-> out, quote |-> a],
                [m EXCEPT !.base = @ - out, !.real = @ - out, !.vault = @ + a])
<1> DEFINE left == CurveReserves(m, a)  most == m.base - left
           pool == [m EXCEPT !.base = @ - out, !.real = @ - out, !.vault = @ + a]
<1>1. m.base \in Nat /\ m.base > 0 /\ m.vault \in Nat /\ m.vault > 0 /\ m.real \in Nat
  BY DEF Funded, Priced, PoolStates
<1>2. left \in Nat /\ left > 0 /\ left * (m.vault + a) >= m.base * m.vault
  <2> DEFINE q == (m.vault * m.base) \div (m.vault + a)
  <2>1. m.vault * m.base \in Nat /\ m.vault * m.base = m.base * m.vault /\ m.vault + a \in Nat /\ m.vault + a > 0
    BY <1>1
  <2>2. q \in Nat /\ m.vault * m.base < q * (m.vault + a) + (m.vault + a)
    BY <2>1, Floor
  <2>3. left = q + 1
    BY DEF CurveReserves
  <2> HIDE DEF q, left
  <2>4. left * (m.vault + a) = q * (m.vault + a) + (m.vault + a)
    BY <1>1, <2>2, <2>3
  <2>5. q * (m.vault + a) \in Int
    BY <1>1, <2>2
  <2> QED BY <1>1, <2>1, <2>2, <2>3, <2>4, <2>5
<1>3. ~(left > m.base) /\ out = Least(m.base - left, m.real)
  BY DEF getBuyPrice, NoQuote
<1> HIDE DEF left
<1>4. out \in Nat /\ out <= most /\ out <= m.real /\ most \in Nat /\ most < m.base
  BY <1>1, <1>2, <1>3 DEF Least
<1>5. (m.base - most) * (m.vault + a) >= m.base * m.vault
  <2>1. m.base - most = left
    BY <1>1, <1>2
  <2> QED BY <1>2, <2>1
<1> HIDE DEF most
<1>6. pool \in PoolStates /\ pool.base = m.base - out /\ pool.vault = m.vault + a
      /\ pool.venue = m.venue /\ pool.offset = m.offset
  <2>1. m.base - out \in Nat /\ m.real - out \in Nat /\ m.vault + a \in Nat
    BY <1>1, <1>2, <1>4
  <2> QED BY <2>1 DEF PoolStates
<1> HIDE DEF pool
<1>7. Fair(m, [base |-> out, quote |-> a], pool)
  BY <1>1, <1>4, <1>5, <1>6, PurchaseFair
<1> QED BY <1>7 DEF pool

\* getSellPrice: the whole output leaves the curve, the fee is not paid out.
LEMMA CurveSellFair ==
    ASSUME NEW m \in PoolStates, m.venue = "curve", Funded(m), NEW a \in Nat,
           NEW out \in getSellPrice(m, a)
    PROVE  LET gross == (a * m.vault) \div (m.base + a)
           IN  Fair(m, [base |-> -a, quote |-> -out],
                    [m EXCEPT !.base = @ + a, !.real = @ + a, !.vault = @ - gross])
<1> DEFINE gross == (a * m.vault) \div (m.base + a)  fee == (gross * m.protocol) \div 10000
           pool == [m EXCEPT !.base = @ + a, !.real = @ + a, !.vault = @ - gross]
<1>1. m.base \in Nat /\ m.base > 0 /\ m.vault \in Nat /\ m.vault > 0 /\ m.real \in Nat /\ m.protocol \in Nat
  BY DEF Funded, Priced, PoolStates
<1>2. gross \in Nat /\ gross < m.vault /\ (m.vault - gross) * (m.base + a) >= m.vault * m.base
  <2>1. a * m.vault = m.vault * a
    BY <1>1
  <2> QED BY <1>1, <2>1, OutKeeps
<1>3. out = gross - fee
  BY DEF getSellPrice, NoQuote
<1>4. fee \in Nat
  <2>1. gross * m.protocol \in Nat
    BY <1>1, <1>2
  <2> QED BY <2>1, Floor
<1> HIDE DEF gross, fee
<1>5. out \in Int /\ out <= gross
  BY <1>2, <1>3, <1>4
<1>6. pool \in PoolStates /\ pool.base = m.base + a /\ pool.vault = m.vault - gross
      /\ pool.venue = m.venue /\ pool.offset = m.offset
  <2>1. m.base + a \in Nat /\ m.real + a \in Nat /\ m.vault - gross \in Nat
    BY <1>1, <1>2
  <2> QED BY <2>1 DEF PoolStates
<1> HIDE DEF pool
<1>7. Fair(m, [base |-> -a, quote |-> -out], pool)
  BY <1>1, <1>2, <1>5, <1>6, SaleFair
<1> QED BY <1>7 DEF gross, pool

\* Bonk's fees are no more than what they are taken from.
LEMMA BonkFeesType == ASSUME NEW a \in Nat PROVE BonkFees(a) \in 0..a
BY DEF BonkFees

\* getBonkBuyTokenAmountFromSolAmount: the fees do not reach the curve.
LEMMA BonkBuyFair ==
    ASSUME NEW m \in PoolStates, m.venue = "bonk", Funded(m), NEW a \in Nat
    PROVE  LET out == getBonkBuyTokenAmountFromSolAmount(m, a, 0)
           IN  Fair(m, [base |-> out, quote |-> a],
                    [m EXCEPT !.base = @ - out, !.vault = @ + a - BonkFees(a)])
<1> DEFINE net == a - BonkFees(a)  out == (net * m.base) \div (m.vault + net)
           pool == [m EXCEPT !.base = @ - out, !.vault = @ + a - BonkFees(a)]
<1>1. m.base \in Nat /\ m.base > 0 /\ m.vault \in Nat /\ m.vault > 0
  BY DEF Funded, Priced, PoolStates
<1>2. net \in Nat /\ net <= a /\ BonkFees(a) \in Nat
  BY BonkFeesType
<1>3. out \in Nat /\ out < m.base /\ (m.base - out) * (m.vault + net) >= m.base * m.vault
  <2> HIDE DEF net
  <2>1. net * m.base = m.base * net
    BY <1>1, <1>2
  <2> QED BY <1>1, <1>2, <2>1, OutKeeps
<1>4. getBonkBuyTokenAmountFromSolAmount(m, a, 0) = out
  BY <1>3, NoSlippage DEF getBonkBuyTokenAmountFromSolAmount
<1> HIDE DEF out
<1>5. pool \in PoolStates /\ pool.base = m.base - out /\ pool.vault = m.vault + net
      /\ pool.venue = m.venue /\ pool.offset = m.offset
  <2>1. m.base - out \in Nat /\ m.vault + a - BonkFees(a) \in Nat
        /\ m.vault + a - BonkFees(a) = m.vault + net
    BY <1>1, <1>2, <1>3
  <2> QED BY <2>1 DEF PoolStates
<1> HIDE DEF pool, net
<1>6. Fair(m, [base |-> out, quote |-> a], pool)
  BY <1>1, <1>2, <1>3, <1>5, PurchaseFair
<1> QED BY <1>4, <1>6 DEF pool

\* getBonkSellSolAmountFromTokenAmount: they are taken from what leaves the curve.
LEMMA BonkSellFair ==
    ASSUME NEW m \in PoolStates, m.venue = "bonk", Funded(m), NEW a \in Nat
    PROVE  LET gross == (a * m.vault) \div (m.base + a)
           IN  Fair(m, [base |-> -a, quote |-> -getBonkSellSolAmountFromTokenAmount(m, a, 0)],
                    [m EXCEPT !.base = @ + a, !.vault = @ - gross])
<1> DEFINE gross == (a * m.vault) \div (m.base + a)  paid == gross - BonkFees(gross)
           pool == [m EXCEPT !.base = @ + a, !.vault = @ - gross]
<1>1. m.base \in Nat /\ m.base > 0 /\ m.vault \in Nat /\ m.vault > 0
  BY DEF Funded, Priced, PoolStates
<1>2. gross \in Nat /\ gross < m.vault /\ (m.vault - gross) * (m.base + a) >= m.vault * m.base
  <2>1. a * m.vault = m.vault * a
    BY <1>1
  <2> QED BY <1>1, <2>1, OutKeeps
<1>3. paid \in Int /\ paid <= gross
  <2> HIDE DEF gross
  <2> QED BY <1>2, BonkFeesType
<1>4. getBonkSellSolAmountFromTokenAmount(m, a, 0) = paid
  BY <1>3, NoSlippage DEF getBonkSellSolAmountFromTokenAmount
<1> HIDE DEF gross, paid
<1>5. pool \in PoolStates /\ pool.base = m.base + a /\ pool.vault = m.vault - gross
      /\ pool.venue = m.venue /\ pool.offset = m.offset
  <2>1. m.base + a \in Nat /\ m.vault - gross \in Nat
    BY <1>1, <1>2
  <2> QED BY <2>1 DEF PoolStates
<1> HIDE DEF pool
<1>6. Fair(m, [base |-> -a, quote |-> -paid], pool)
  BY <1>1, <1>2, <1>3, <1>5, SaleFair
<1> QED BY <1>4, <1>6 DEF gross, pool

\* Raydium and Meteora: what a pool gives is no more than the product allows for a part
\* of the input; AMM v4's swap fee only lowers it.
LEMMA OutOfAtMost ==
    ASSUME NEW m \in PoolStates, m.venue \in {"ammV4", "cpmm", "damm"},
           NEW a \in Nat, NEW in \in Nat, NEW out \in Nat, in > 0, out > 0
    PROVE  /\ OutOf(m, a, in, out) \in Int
           /\ \E net \in 0..a : OutOf(m, a, in, out) <= (out * net) \div (in + net)
<1>1. CASE m.venue = "ammV4"
  <2> DEFINE fee == computeFee(a, 25)  net == a - fee  most == (out * net) \div (in + net)
  <2>1. fee \in 0..a
    BY DEF computeFee
  <2>2. (fee * 25) \div 10000 \in Nat
    BY <2>1
  <2>3. OutOf(m, a, in, out) = most - (fee * 25) \div 10000
    BY <1>1 DEF OutOf, computeRaydiumAmmV4SwapAmount
  <2> HIDE DEF fee
  <2>4. net \in 0..a
    BY <2>1
  <2> HIDE DEF net
  <2>5. most \in Nat
    BY <2>4, OutKeeps
  <2> HIDE DEF most
  <2>6. OutOf(m, a, in, out) \in Int /\ OutOf(m, a, in, out) <= most
    BY <2>2, <2>3, <2>5
  <2> QED BY <2>4, <2>6 DEF most
<1>2. CASE m.venue = "cpmm"
  <2> DEFINE net == a - (a * 2500 + 999999) \div 1000000  most == (out * net) \div (in + net)
  <2>1. net \in 0..a
    OBVIOUS
  <2>2. OutOf(m, a, in, out) = most
    BY <1>2 DEF OutOf, computeRaydiumCpmmSwapAmount
  <2> HIDE DEF net
  <2>3. most \in Nat
    BY <2>1, OutKeeps
  <2> HIDE DEF most
  <2>4. OutOf(m, a, in, out) \in Int /\ OutOf(m, a, in, out) <= most
    BY <2>2, <2>3
  <2> QED BY <2>1, <2>4 DEF most
<1>3. CASE m.venue = "damm" /\ m.lp >= 10000
  <2>1. OutOf(m, a, in, out) = 0
    BY <1>3 DEF OutOf, meteoraDammV2GetAmountOut
  <2>2. (out * 0) \div (in + 0) \in Nat
    BY OutKeeps
  <2> QED BY <2>1, <2>2
<1>4. CASE m.venue = "damm" /\ ~(m.lp >= 10000)
  <2> DEFINE net == (a * (10000 - m.lp)) \div 10000  most == (out * net) \div (in + net)
  <2>1. m.lp \in Nat /\ 10000 - m.lp \in Nat /\ 10000 - m.lp <= 10000
    BY <1>4 DEF PoolStates
  <2>2. net \in 0..a
    BY <2>1, Shares
  <2>3. OutOf(m, a, in, out) = (net * out) \div (in + net)
    BY <1>4 DEF OutOf, meteoraDammV2GetAmountOut
  <2> HIDE DEF net
  <2>4. net * out = out * net
    BY <2>2
  <2>5. most \in Nat
    BY <2>2, OutKeeps
  <2>6. OutOf(m, a, in, out) = most
    BY <2>3, <2>4
  <2> HIDE DEF most
  <2>7. OutOf(m, a, in, out) \in Int /\ OutOf(m, a, in, out) <= most
    BY <2>5, <2>6
  <2> QED BY <2>2, <2>7 DEF most
<1> QED BY <1>1, <1>2, <1>3, <1>4

\* A swap for the base token is fair, and one for the quote token.
LEMMA SwapFair ==
    ASSUME NEW m \in PoolStates, m.venue \in {"ammV4", "cpmm", "damm"}, Funded(m), NEW a \in Nat
    PROVE  /\ LET out == OutOf(m, a, m.vault, m.base)
              IN  Fair(m, [base |-> out, quote |-> a], [m EXCEPT !.base = @ - out, !.vault = @ + a])
           /\ LET out == OutOf(m, a, m.base, m.vault)
              IN  Fair(m, [base |-> -a, quote |-> -out], [m EXCEPT !.base = @ + a, !.vault = @ - out])
<1>1. m.base \in Nat /\ m.base > 0 /\ m.vault \in Nat /\ m.vault > 0
  BY DEF Funded, Priced, PoolStates
<1>2. LET out == OutOf(m, a, m.vault, m.base)
      IN  Fair(m, [base |-> out, quote |-> a], [m EXCEPT !.base = @ - out, !.vault = @ + a])
  <2> DEFINE out == OutOf(m, a, m.vault, m.base)
             pool == [m EXCEPT !.base = @ - out, !.vault = @ + a]
  <2>1. PICK net \in 0..a : out <= (m.base * net) \div (m.vault + net)
    BY <1>1, OutOfAtMost
  <2>2. out \in Int
    BY <1>1, OutOfAtMost
  <2> DEFINE most == (m.base * net) \div (m.vault + net)
  <2>3. /\ net \in Nat /\ net <= a
        /\ most \in Nat /\ most < m.base /\ (m.base - most) * (m.vault + net) >= m.base * m.vault
    <3>1. net \in Nat /\ net <= a
      BY <2>1
    <3> QED BY <1>1, <3>1, OutKeeps
  <2>4. out <= most
    BY <2>1
  <2> HIDE DEF out, most
  <2>5. pool \in PoolStates /\ pool.base = m.base - out /\ pool.vault = m.vault + a
        /\ pool.venue = m.venue /\ pool.offset = m.offset
    <3>1. m.base - out \in Nat /\ m.vault + a \in Nat
      BY <1>1, <2>2, <2>3, <2>4
    <3> QED BY <3>1 DEF PoolStates
  <2> HIDE DEF pool
  <2>6. Fair(m, [base |-> out, quote |-> a], pool)
    BY <1>1, <2>2, <2>3, <2>4, <2>5, PurchaseFair
  <2> QED BY <2>6 DEF pool, out
<1>3. LET out == OutOf(m, a, m.base, m.vault)
      IN  Fair(m, [base |-> -a, quote |-> -out], [m EXCEPT !.base = @ + a, !.vault = @ - out])
  <2> DEFINE out == OutOf(m, a, m.base, m.vault)
             pool == [m EXCEPT !.base = @ + a, !.vault = @ - out]
  <2>1. PICK net \in 0..a : out <= (m.vault * net) \div (m.base + net)
    BY <1>1, OutOfAtMost
  <2>2. out \in Int
    BY <1>1, OutOfAtMost
  <2> DEFINE most == (m.vault * net) \div (m.base + net)
  <2>3. /\ net \in Nat /\ net <= a
        /\ most \in Nat /\ most < m.vault /\ (m.vault - most) * (m.base + net) >= m.vault * m.base
    <3>1. net \in Nat /\ net <= a
      BY <2>1
    <3> QED BY <1>1, <3>1, OutKeeps
  <2>4. out <= most
    BY <2>1
  <2> HIDE DEF out, most
  <2>5. (m.vault - most) * (m.base + a) >= m.vault * m.base
    BY <1>1, <2>3, KeepMore
  <2>6. pool \in PoolStates /\ pool.base = m.base + a /\ pool.vault = m.vault - out
        /\ pool.venue = m.venue /\ pool.offset = m.offset
    <3>1. m.base + a \in Nat /\ m.vault - out \in Nat
      BY <1>1, <2>2, <2>3, <2>4
    <3> QED BY <3>1 DEF PoolStates
  <2> HIDE DEF pool
  <2>7. Fair(m, [base |-> -a, quote |-> -out], pool)
    BY <1>1, <2>2, <2>3, <2>4, <2>5, <2>6, SaleFair
  <2> QED BY <2>7 DEF pool, out
<1> QED BY <1>2, <1>3

-----------------------------------------------------------------------------
(* The Pump v3 curve, which only sells. *)

\* A quote that costs nothing brings nothing, and takes from the curve what it sells.
SellsForMoney(m, q) ==
    /\ q.out \in Nat /\ q.in \in Nat /\ (q.in = 0 => q.out = 0)
    /\ q.curveBase \in 0..m.left /\ q.curveQuote \in Nat

\* The two fees of a Pump v3 leg.
LEMMA TwoFeesType ==
    ASSUME NEW m \in CurveStates
    PROVE  /\ \A n \in Nat : TwoFees(m, n) \in Nat
           /\ \A k \in Int : TwoFees(m, k) \in Int
<1>1. m.protocol \in Nat /\ m.creator \in Nat
  BY DEF CurveStates
<1>2. ASSUME NEW n \in Nat PROVE TwoFees(m, n) \in Nat
  <2>1. computeFee(n, m.protocol) \in Nat /\ computeFee(n, m.creator) \in Nat
    BY <1>1, FeeType
  <2> QED BY <2>1 DEF TwoFees
<1>3. ASSUME NEW k \in Int PROVE TwoFees(m, k) \in Int
  <2>1. \A b \in Nat : (k * b + 9999) \div 10000 \in Int
    <3> TAKE b \in Nat
    <3>1. k * b \in Int
      OBVIOUS
    <3> QED BY <3>1
  <2>2. computeFee(k, m.protocol) \in Int /\ computeFee(k, m.creator) \in Int
    BY <1>1, <2>1 DEF computeFee
  <2> QED BY <2>2 DEF TwoFees
<1> QED BY <1>2, <1>3

\* quote of pump_v3.ts adds two legs and their fees.
LEMMA QuoteV3Sells ==
    ASSUME NEW m \in CurveStates, NEW cb \in 0..m.left, NEW cq \in Nat, NEW pb \in Nat, NEW pq \in Nat,
           cq = 0 => cb = 0, pq = 0 => pb = 0, NEW q \in QuoteV3(m, cb, cq, pb, pq)
    PROVE  SellsForMoney(m, q)
<1> DEFINE in == cq + pq + TwoFees(m, cq) + TwoFees(m, pq)
<1>1. IsAmount(cb + pb) /\ IsAmount(in) /\ q = [out |-> cb + pb, in |-> in, curveBase |-> cb, curveQuote |-> cq]
  BY DEF QuoteV3, NoQuote
<1>2. m.protocol \in Nat /\ m.creator \in Nat /\ m.left \in Nat
  BY DEF CurveStates
<1>3. TwoFees(m, cq) \in Nat /\ TwoFees(m, pq) \in Nat
  BY TwoFeesType
<1>4. in \in Nat /\ (in = 0 => cq = 0 /\ pq = 0)
  BY <1>3
<1> HIDE DEF in
<1> QED BY <1>1, <1>2, <1>4 DEF SellsForMoney

\* curveCost: a number, and only nothing is free.
LEMMA CostsMoney ==
    ASSUME NEW m \in CurveStates, m.base > m.left, NEW n \in 0..m.left
    PROVE  curveCost(m, n) \in Nat /\ (curveCost(m, n) = 0 => n = 0)
<1>1. m.base \in Nat /\ m.vault \in Nat /\ m.left \in Nat
  BY DEF CurveStates
<1>2. n * m.vault \in Nat /\ m.base - n \in Nat /\ m.base - n > 0
  BY <1>1
<1>3. (n * m.vault) \div (m.base - n) \in Nat
  BY <1>2, Floor
<1> QED BY <1>3 DEF curveCost

\* quotePumpBuyV3ExactOut
LEMMA ExactOutSells ==
    ASSUME NEW m \in CurveStates, NEW a \in Nat, NEW partialFill,
           NEW q \in quotePumpBuyV3ExactOut(m, a, partialFill)
    PROVE  ValidCurve(m) /\ SellsForMoney(m, q)
<1> DEFINE fromCurve == Least(a, m.left)  cost == curveCost(m, fromCurve)  rest == a - fromCurve
<1>1. ValidCurve(m) /\ m.base \in Nat /\ m.left \in Nat /\ m.base > m.left
  BY DEF quotePumpBuyV3ExactOut, NoQuote, ValidCurve, CurveStates
<1>2. fromCurve \in 0..m.left /\ rest \in Nat
  BY <1>1 DEF Least
<1>3. cost \in Nat /\ (cost = 0 => fromCurve = 0)
  <2> HIDE DEF fromCurve
  <2> QED BY <1>1, <1>2, CostsMoney
<1>4. CASE q \in QuoteV3(m, fromCurve, cost, 0, 0)
  <2> HIDE DEF fromCurve, cost
  <2> QED BY <1>1, <1>2, <1>3, <1>4, QuoteV3Sells
<1>5. CASE rest # 0 /\ \E p \in PoolToBe(m, cost) :
              rest < p.base /\ q \in QuoteV3(m, fromCurve, cost, rest, ceilDiv(p.quote * rest, p.base - rest))
  <2> HIDE DEF fromCurve, cost, rest
  <2>1. PICK p \in PoolToBe(m, cost) :
           rest < p.base /\ q \in QuoteV3(m, fromCurve, cost, rest, ceilDiv(p.quote * rest, p.base - rest))
    BY <1>5
  <2>2. p.base \in Nat /\ p.quote \in Nat /\ p.quote > 0
    BY <1>3 DEF PoolToBe, NoQuote, CurveStates
  <2> DEFINE in == ceilDiv(p.quote * rest, p.base - rest)
  <2>3. p.quote * rest \in Nat /\ p.base - rest \in Nat /\ p.base - rest > 0 /\ p.quote * rest > 0
    BY <1>2, <1>5, <2>1, <2>2
  <2>4. in \in Nat /\ in * (p.base - rest) >= p.quote * rest
    BY <2>3, Ceil
  <2>5. q \in QuoteV3(m, fromCurve, cost, rest, in)
    BY <2>1
  <2> HIDE DEF in
  <2>6. in # 0
    BY <2>3, <2>4
  <2> QED BY <1>1, <1>2, <1>3, <2>4, <2>5, <2>6, QuoteV3Sells
<1>6. \/ q \in QuoteV3(m, fromCurve, cost, 0, 0)
      \/ rest # 0 /\ \E p \in PoolToBe(m, cost) :
              rest < p.base /\ q \in QuoteV3(m, fromCurve, cost, rest, ceilDiv(p.quote * rest, p.base - rest))
  BY DEF quotePumpBuyV3ExactOut, NoQuote
<1> QED BY <1>1, <1>4, <1>5, <1>6

\* NetOf of a number is a number.
LEMMA NetOfType ==
    ASSUME NEW m \in CurveStates, NEW k \in Int
    PROVE  NetOf(m, k) \in Int
<1>1. m.protocol \in Nat /\ m.creator \in Nat
  BY DEF CurveStates
<1> DEFINE l == (k * 10000) \div (10000 + m.protocol + m.creator)
<1>3. 10000 + m.protocol + m.creator \in Nat /\ 10000 + m.protocol + m.creator > 0 /\ k * 10000 \in Int
  BY <1>1
<1>4. l \in Int
  BY <1>3
<1>5. NetOf(m, k) = l - Most(0, l + TwoFees(m, l) - k)
  BY DEF NetOf
<1> HIDE DEF l
<1>6. TwoFees(m, l) \in Int
  BY <1>4, TwoFeesType
<1> QED BY <1>4, <1>5, <1>6 DEF Most

\* quotePumpBuyV3ExactIn
LEMMA ExactInSells ==
    ASSUME NEW m \in CurveStates, NEW budget \in Nat, NEW q \in quotePumpBuyV3ExactIn(m, budget)
    PROVE  ValidCurve(m) /\ SellsForMoney(m, q)
<1> DEFINE n == NetOf(m, budget)  tokens == ((n - 1) * m.base) \div (m.vault + n - 1)
           fromCurve == Least(tokens, m.left)  cost == curveCost(m, fromCurve)
           leg == NetOf(m, budget - cost - TwoFees(m, cost))
           fromPool(p) == ((leg - 1) * p.base) \div (p.quote + leg - 1)
<1>1. ValidCurve(m) /\ m.base \in Nat /\ m.left \in Nat /\ m.base > m.left /\ m.vault \in Nat /\ m.vault > 0
  BY DEF quotePumpBuyV3ExactIn, NoQuote, ValidCurve, CurveStates
<1>2. \/ q \in QuoteV3(m, 0, 0, 0, 0)
      \/ /\ ~(n <= 1)
         /\ \/ q \in QuoteV3(m, fromCurve, cost, 0, 0)
            \/ ~(leg <= 1) /\ \E p \in PoolToBe(m, cost) :
                  fromPool(p) # 0 /\ q \in QuoteV3(m, fromCurve, cost, fromPool(p), leg)
  BY DEF quotePumpBuyV3ExactIn, NoQuote
<1>3. \A k \in Int : NetOf(m, k) \in Int
  BY NetOfType
<1>4. CASE q \in QuoteV3(m, 0, 0, 0, 0)
  BY <1>1, <1>4, QuoteV3Sells
<1>5. ASSUME ~(n <= 1) PROVE fromCurve \in 0..m.left /\ cost \in Nat /\ (cost = 0 => fromCurve = 0)
  <2>1. n \in Int
    BY <1>3
  <2> HIDE DEF n
  <2>2. n - 1 \in Nat /\ m.vault + n - 1 \in Nat /\ m.vault + n - 1 > 0
    BY <1>1, <1>5, <2>1
  <2>3. (n - 1) * m.base \in Nat
    BY <1>1, <2>2
  <2>4. tokens \in Nat
    BY <2>2, <2>3, Floor
  <2> HIDE DEF tokens
  <2>5. fromCurve \in 0..m.left
    BY <1>1, <2>4 DEF Least
  <2> HIDE DEF fromCurve
  <2> QED BY <1>1, <2>5, CostsMoney
<1>6. CASE ~(n <= 1) /\ q \in QuoteV3(m, fromCurve, cost, 0, 0)
  <2> HIDE DEF n, fromCurve, cost
  <2> QED BY <1>1, <1>5, <1>6, QuoteV3Sells
<1>7. CASE ~(n <= 1) /\ ~(leg <= 1) /\ \E p \in PoolToBe(m, cost) :
              q \in QuoteV3(m, fromCurve, cost, fromPool(p), leg)
  <2>1. PICK p \in PoolToBe(m, cost) : q \in QuoteV3(m, fromCurve, cost, fromPool(p), leg)
    BY <1>7
  <2>2. fromCurve \in 0..m.left /\ cost \in Nat /\ (cost = 0 => fromCurve = 0)
    BY <1>5, <1>7
  <2> HIDE DEF n, fromCurve, cost
  <2>3. leg \in Int
    <3>1. TwoFees(m, cost) \in Nat
      BY <2>2, TwoFeesType
    <3> QED BY <1>3, <2>2, <3>1
  <2> HIDE DEF leg
  <2>4. leg \in Nat /\ leg # 0 /\ leg - 1 \in Nat
    BY <1>7, <2>3
  <2>5. p.base \in Nat /\ p.quote \in Nat /\ p.quote > 0
    BY <2>2 DEF PoolToBe, NoQuote, CurveStates
  <2>6. p.quote + leg - 1 \in Nat /\ p.quote + leg - 1 > 0 /\ (leg - 1) * p.base \in Nat
    BY <2>4, <2>5
  <2>7. fromPool(p) \in Nat
    BY <2>6, Floor
  <2> HIDE DEF fromPool
  <2> QED BY <1>1, <2>1, <2>2, <2>4, <2>7, QuoteV3Sells
<1>8. \/ q \in QuoteV3(m, 0, 0, 0, 0)
      \/ ~(n <= 1) /\ q \in QuoteV3(m, fromCurve, cost, 0, 0)
      \/ ~(n <= 1) /\ ~(leg <= 1) /\ \E p \in PoolToBe(m, cost) :
              q \in QuoteV3(m, fromCurve, cost, fromPool(p), leg)
  <2> HIDE DEF n, fromCurve, cost, leg, fromPool
  <2> QED BY <1>2, Zenon
<1> QED BY <1>1, <1>4, <1>6, <1>7, <1>8

-----------------------------------------------------------------------------
(* The invariant. *)

\* Of a pool that is traded, against the pool it was: what the trader has of the base
\* token left the pool, what left the quote side is with the trader or kept as a fee,
\* and the product of the two sides never shrank.
Untraded(m0) == market = m0 /\ base = Purse /\ quote = Purse
Backed(m0) ==
    /\ Funded(m0) /\ Funded(market) /\ market.venue = m0.venue /\ market.offset = m0.offset
    /\ base + market.base = Purse + m0.base
    /\ quote + market.vault <= Purse + m0.vault
    /\ market.base * Priced(market) >= m0.base * Priced(m0)
PoolInv == market \in PoolStates /\ \E m0 \in Markets : Untraded(m0) \/ Backed(m0)

\* A Pump v3 curve only sells, and for money.
CurveInv == market \in CurveStates /\ quote <= Purse /\ (quote = Purse => base = Purse)

MarketInv ==
    /\ base \in Nat /\ quote \in Nat /\ trades \in 0..MaxTrades
    /\ PoolInv \/ CurveInv

\* A market starts untraded; a Pump v3 curve with nobody's money in it.
LEMMA MarketStarts == MarketInit => MarketInv
<1> SUFFICES ASSUME MarketInit PROVE MarketInv
  OBVIOUS
<1>1. market \in Markets /\ base = Purse /\ quote = Purse /\ trades = 0
  BY DEF MarketInit
<1>2. base \in Nat /\ quote \in Nat /\ trades \in 0..MaxTrades
  BY <1>1, AmountsAssumption
<1>3. CASE market \in PoolStates
  BY <1>1, <1>3, <1>2 DEF MarketInv, PoolInv, Untraded
<1>4. CASE market \in CurveStates
  BY <1>1, <1>4, <1>2, AmountsAssumption DEF MarketInv, CurveInv
<1> QED BY <1>1, <1>3, <1>4, MarketsAssumption

\* Only a Pump v3 curve has the venue of one.
LEMMA WhichMarket ==
    ASSUME MarketInv
    PROVE  /\ market.venue \in MarketVenues
           /\ market.venue # "pumpV3" => PoolInv
           /\ market.venue = "pumpV3" => CurveInv
<1>1. ASSUME PoolInv PROVE market.venue \in MarketVenues /\ market.venue # "pumpV3"
  BY <1>1 DEF PoolInv, PoolStates
<1>2. ASSUME CurveInv PROVE market.venue = "pumpV3"
  BY <1>2 DEF CurveInv, CurveStates
<1> QED BY <1>1, <1>2 DEF MarketInv, MarketVenues

\* Every pool but PumpSwap's is funded, and stays so; a funded pool is backed.
LEMMA FundedIsBacked ==
    ASSUME MarketInv, PoolInv
    PROVE  /\ market.venue # "pumpswap" => Funded(market)
           /\ Funded(market) => \E m0 \in Markets : Backed(m0)
<1>1. PICK m0 \in Markets : Untraded(m0) \/ Backed(m0)
  BY DEF PoolInv
<1>2. CASE Untraded(m0)
  <2>1. market \in PoolStates /\ market \in Markets /\ base = Purse /\ quote = Purse /\ market = m0
    BY <1>2 DEF PoolInv, Untraded
  <2>2. market.base \in Nat /\ market.vault \in Nat /\ market.offset \in Int /\ market.venue # "pumpV3"
    BY <2>1 DEF PoolStates
  <2>3. market.venue # "pumpswap" => Funded(market)
    BY <2>1, <2>2, MarketsAssumption DEF Funded, Priced
  <2>4. Priced(market) \in Int
    BY <2>2 DEF Priced
  <2>5. market.base * Priced(market) \in Int
    BY <2>2, <2>4
  <2>6. Funded(market) => Backed(m0)
    BY <2>1, <2>2, <2>5, AmountsAssumption DEF Backed
  <2> QED BY <2>3, <2>6
<1>3. CASE Backed(m0)
  BY <1>3 DEF Backed
<1> QED BY <1>1, <1>2, <1>3

\* A fair trade that is settled keeps the invariant.
LEMMA FairKeeps ==
    ASSUME MarketInv, PoolInv, Funded(market), NEW p, NEW pool, Fair(market, p, pool), Settle(p, pool)
    PROVE  MarketInv'
<1>1. PICK m0 \in Markets : Backed(m0)
  BY FundedIsBacked
<1>2. /\ market' = pool /\ base' = base + p.base /\ quote' = quote - p.quote /\ trades' = trades + 1
      /\ trades < MaxTrades /\ base + p.base >= 0 /\ quote - p.quote >= 0
  BY DEF Settle
<1>3. /\ pool \in PoolStates /\ pool.venue = market.venue /\ pool.offset = market.offset
      /\ p.base \in Int /\ p.quote \in Int
      /\ pool.base = market.base - p.base /\ p.quote >= pool.vault - market.vault
      /\ pool.base > 0 /\ Priced(pool) > 0
      /\ pool.base * Priced(pool) >= market.base * Priced(market)
  BY DEF Fair
<1>4. base \in Nat /\ quote \in Nat /\ trades \in 0..MaxTrades /\ MaxTrades \in Nat
  BY AmountsAssumption DEF MarketInv
<1>5. base' \in Nat /\ quote' \in Nat /\ trades' \in 0..MaxTrades
  BY <1>2, <1>3, <1>4
<1>6. Funded(pool) /\ Funded(m0) /\ pool.venue = m0.venue /\ pool.offset = m0.offset
  BY <1>1, <1>3 DEF Backed, Funded
<1>7. /\ market.base \in Nat /\ market.vault \in Nat /\ pool.vault \in Nat /\ m0.vault \in Nat
      /\ m0.base \in Nat /\ Purse \in Nat
  BY <1>3, <1>6, AmountsAssumption DEF PoolInv, PoolStates, Funded
<1>8. base' + pool.base = Purse + m0.base
  BY <1>1, <1>2, <1>3, <1>4, <1>7 DEF Backed
<1>9. quote' + pool.vault <= Purse + m0.vault
  BY <1>1, <1>2, <1>3, <1>4, <1>7 DEF Backed
<1>10. pool.base * Priced(pool) >= m0.base * Priced(m0)
  <2>1. ASSUME NEW m \in PoolStates PROVE m.base * Priced(m) \in Int
    <3>1. m.base \in Int /\ m.vault \in Int /\ m.offset \in Int
      BY DEF PoolStates
    <3>2. Priced(m) \in Int
      BY <3>1 DEF Priced
    <3> QED BY <3>1, <3>2
  <2>2. pool.base * Priced(pool) \in Int /\ market.base * Priced(market) \in Int /\ m0.base * Priced(m0) \in Int
    BY <2>1, <1>3, <1>6 DEF PoolInv, Funded
  <2> QED BY <1>1, <1>3, <2>2 DEF Backed
<1>11. Backed(m0)'
  BY <1>2, <1>6, <1>8, <1>9, <1>10 DEF Backed, Funded, Priced
<1>12. PoolInv'
  BY <1>2, <1>3, <1>11 DEF PoolInv
<1> QED BY <1>5, <1>12 DEF MarketInv

\* A PumpFun curve and the trader have no more of either token than the purse and the
\* curve had at first, so that a sale's products fit.
LEMMA ProductsFit ==
    ASSUME MarketInv, market.venue = "pumpfun", NEW a \in Nat, a <= base
    PROVE  a * market.vault <= MaxWide /\ market.base + a <= MaxWide
<1>1. PoolInv /\ Funded(market)
  BY WhichMarket, FundedIsBacked
<1>2. PICK m0 \in Markets : Backed(m0)
  BY <1>1, FundedIsBacked
<1>3. m0.venue = "pumpfun" /\ m0 \in PoolStates /\ m0.base > 0 /\ m0.vault > 0
      /\ (m0.base + Purse) * (m0.vault + Purse) <= MaxWide
  BY <1>2, MarketsAssumption DEF Backed, Funded, Priced
<1>4. /\ m0.base \in Nat /\ m0.vault \in Nat /\ market.base \in Nat /\ market.vault \in Nat
      /\ base \in Nat /\ quote \in Nat /\ Purse \in Nat /\ MaxWide \in Nat
  BY <1>1, <1>3, AmountsAssumption DEF PoolInv, PoolStates, MarketInv
<1> DEFINE B == m0.base + Purse  V == m0.vault + Purse
<1>5. B \in Nat /\ V \in Nat /\ V > 0 /\ a + market.base <= B /\ a <= B /\ market.vault <= V
  BY <1>2, <1>3, <1>4 DEF Backed
<1>6. B * V <= MaxWide
  BY <1>3
<1> HIDE DEF B, V
<1>7. a * market.vault <= B * market.vault /\ B * market.vault <= B * V
  BY <1>4, <1>5
<1>8. B <= B * V
  BY <1>5
<1>9. a * market.vault \in Int /\ B * market.vault \in Int /\ B * V \in Int
  BY <1>4, <1>5
<1> QED BY <1>4, <1>5, <1>6, <1>7, <1>8, <1>9

\* Every trade keeps the invariant.
LEMMA MarketSteps == MarketInv /\ [MarketNext]_marketVars => MarketInv'
<1> SUFFICES ASSUME MarketInv, [MarketNext]_marketVars PROVE MarketInv'
  OBVIOUS
<1>1. \A a \in Amounts : a \in Nat
  BY AmountsAssumption
<1>2. ASSUME market.venue = "pumpswap" PROVE market \in PoolStates /\ PoolInv
  BY <1>2, WhichMarket DEF PoolInv
<1>3. ASSUME market.venue \in MarketVenues \ {"pumpswap", "pumpV3"}
      PROVE market \in PoolStates /\ PoolInv /\ Funded(market)
  BY <1>3, WhichMarket, FundedIsBacked DEF PoolInv
<1>4. ASSUME NEW a \in Amounts, BuyBase(a) PROVE MarketInv'
  <2>1. PICK q \in buyBaseInput(market, a, 0) :
           Settle([base |-> a, quote |-> q.ui], AfterPumpSwap(market, a, q.raw))
    BY <1>4 DEF BuyBase
  <2>2. market.venue = "pumpswap"
    BY <1>4 DEF BuyBase
  <2> QED BY <1>1, <1>2, <2>1, <2>2, BuyBaseFair, FairKeeps
<1>5. ASSUME NEW a \in Amounts, BuyQuote(a) PROVE MarketInv'
  <2>1. PICK q \in buyQuoteInput(market, a, 0) :
           Settle([base |-> q.base, quote |-> q.raw + ThreeFees(market, q.raw)],
                  AfterPumpSwap(market, q.base, q.raw))
    BY <1>5 DEF BuyQuote
  <2>2. market.venue = "pumpswap"
    BY <1>5 DEF BuyQuote
  <2> QED BY <1>1, <1>2, <2>1, <2>2, BuyQuoteFair, FairKeeps
<1>6. ASSUME NEW a \in Amounts, SellBase(a) PROVE MarketInv'
  <2>1. PICK q \in sellBaseInput(market, a, 0) :
           Settle([base |-> -a, quote |-> -q.ui], AfterPumpSwap(market, -a, -q.raw))
    BY <1>6 DEF SellBase
  <2>2. market.venue = "pumpswap"
    BY <1>6 DEF SellBase
  <2> QED BY <1>1, <1>2, <2>1, <2>2, SellBaseFair, FairKeeps
<1>7. ASSUME NEW a \in Amounts, SellQuote(a) PROVE MarketInv'
  <2>1. PICK q \in sellQuoteInput(market, a, 0) :
           \E r \in sellBaseInput(market, q.base, 0) :
              Settle([base |-> -q.base, quote |-> -r.ui], AfterPumpSwap(market, -q.base, -r.raw))
    BY <1>7 DEF SellQuote
  <2>2. PICK r \in sellBaseInput(market, q.base, 0) :
           Settle([base |-> -q.base, quote |-> -r.ui], AfterPumpSwap(market, -q.base, -r.raw))
    BY <2>1
  <2>3. market.venue = "pumpswap"
    BY <1>7 DEF SellQuote
  <2>4. q.base \in Nat
    BY <1>1, <1>2, <2>1, <2>3, SellQuoteType
  <2> QED BY <1>2, <2>2, <2>3, <2>4, SellBaseFair, FairKeeps
<1>8. ASSUME NEW a \in Amounts, SwapReserves(a) PROVE MarketInv'
  <2>1. market.venue \in {"ammV4", "cpmm", "damm"}
    BY <1>8 DEF SwapReserves
  <2>2. market \in PoolStates /\ PoolInv /\ Funded(market)
    BY <1>3, <2>1 DEF MarketVenues
  <2>3. \/ LET out == OutOf(market, a, market.vault, market.base)
           IN  Settle([base |-> out, quote |-> a],
                      [market EXCEPT !.base = @ - out, !.vault = @ + a])
        \/ LET out == OutOf(market, a, market.base, market.vault)
           IN  Settle([base |-> -a, quote |-> -out],
                      [market EXCEPT !.base = @ + a, !.vault = @ - out])
    BY <1>8 DEF SwapReserves
  <2> QED BY <1>1, <2>1, <2>2, <2>3, SwapFair, FairKeeps
<1>9. ASSUME NEW a \in Amounts, CurveAccount(a) PROVE MarketInv'
  <2>1. market.venue = "curve"
    BY <1>9 DEF CurveAccount
  <2>2. market \in PoolStates /\ PoolInv /\ Funded(market)
    BY <1>3, <2>1 DEF MarketVenues
  <2>3. CASE \E out \in getBuyPrice(market, a) :
               Settle([base |-> out, quote |-> a],
                      [market EXCEPT !.base = @ - out, !.real = @ - out, !.vault = @ + a])
    BY <1>1, <2>1, <2>2, <2>3, CurveBuyFair, FairKeeps
  <2>4. CASE \E out \in getSellPrice(market, a) :
               Settle([base |-> -a, quote |-> -out],
                      [market EXCEPT !.base = @ + a, !.real = @ + a,
                                     !.vault = @ - (a * market.vault) \div (market.base + a)])
    BY <1>1, <2>1, <2>2, <2>4, CurveSellFair, FairKeeps
  <2> QED BY <1>9, <2>3, <2>4 DEF CurveAccount
<1>10. ASSUME NEW a \in Amounts, BuyFromCurve(a) PROVE MarketInv'
  <2>1. CASE /\ market.venue = "pumpfun"
             /\ LET out == pumpFunBuyExact(market, a)
                    net == (a * 10000) \div (market.protocol + 10000)
                IN  Settle([base |-> out, quote |-> a],
                           [market EXCEPT !.base = @ - out, !.real = @ - out, !.vault = @ + net])
    <3>1. market \in PoolStates /\ PoolInv /\ Funded(market)
      BY <1>3, <2>1 DEF MarketVenues
    <3>2. a \in Nat
      BY <1>1
    <3>3. Fair(market, [base |-> pumpFunBuyExact(market, a), quote |-> a], PumpFunBought(market, a))
      BY <2>1, <3>1, <3>2, PumpFunBuyFair
    <3>4. Settle([base |-> pumpFunBuyExact(market, a), quote |-> a], PumpFunBought(market, a))
      BY <2>1 DEF PumpFunBought
    <3> QED BY <3>1, <3>3, <3>4, FairKeeps
  <2>2. CASE /\ market.venue = "bonk"
             /\ LET out == getBonkBuyTokenAmountFromSolAmount(market, a, 0)
                IN  Settle([base |-> out, quote |-> a],
                           [market EXCEPT !.base = @ - out, !.vault = @ + a - BonkFees(a)])
    <3>1. market \in PoolStates /\ PoolInv /\ Funded(market)
      BY <1>3, <2>2 DEF MarketVenues
    <3> QED BY <1>1, <2>2, <3>1, BonkBuyFair, FairKeeps
  <2> QED BY <1>10, <2>1, <2>2 DEF BuyFromCurve
<1>11. ASSUME NEW a \in Amounts, SellToCurve(a) PROVE MarketInv'
  <2>1. CASE /\ market.venue = "pumpfun"
             /\ Settle([base |-> -a, quote |-> -pumpFunSellExact(market, a)],
                       [market EXCEPT !.base = @ + a, !.real = @ + a,
                                      !.vault = @ - (a * market.vault) \div (market.base + a)])
    <3>1. market \in PoolStates /\ PoolInv /\ Funded(market)
      BY <1>3, <2>1 DEF MarketVenues
    <3>2. a \in Nat /\ base \in Nat
      BY <1>1 DEF MarketInv
    <3>3. a <= base
      BY <2>1, <3>2 DEF Settle
    <3>4. a * market.vault <= MaxWide /\ market.base + a <= MaxWide
      BY <2>1, <3>2, <3>3, ProductsFit
    <3> QED BY <2>1, <3>1, <3>2, <3>4, PumpFunSellFair, FairKeeps
  <2>2. CASE /\ market.venue = "bonk"
             /\ Settle([base |-> -a, quote |-> -getBonkSellSolAmountFromTokenAmount(market, a, 0)],
                       [market EXCEPT !.base = @ + a,
                                      !.vault = @ - (a * market.vault) \div (market.base + a)])
    <3>1. market \in PoolStates /\ PoolInv /\ Funded(market)
      BY <1>3, <2>2 DEF MarketVenues
    <3> QED BY <1>1, <2>2, <3>1, BonkSellFair, FairKeeps
  <2> QED BY <1>11, <2>1, <2>2 DEF SellToCurve
<1>12. ASSUME NEW a \in Amounts, BuyV3(a) PROVE MarketInv'
  <2> DEFINE Bought(q) == [market EXCEPT !.base = @ - q.curveBase, !.vault = @ + q.curveQuote,
                                         !.left = @ - q.curveBase, !.real = @ + q.curveQuote,
                                         !.balance = @ - q.curveBase,
                                         !.complete = (q.curveBase = market.left)]
  <2>1. PICK q \in quotePumpBuyV3ExactIn(market, a) \cup quotePumpBuyV3ExactOut(market, a, TRUE) :
           Settle([base |-> q.out, quote |-> q.in], Bought(q))
    BY <1>12 DEF BuyV3
  <2>2. CurveInv /\ market \in CurveStates
    BY <1>12, WhichMarket DEF BuyV3, CurveInv
  <2>3. ValidCurve(market) /\ SellsForMoney(market, q)
    BY <1>1, <2>1, <2>2, ExactInSells, ExactOutSells
  <2>4. /\ market.base \in Nat /\ market.vault \in Nat /\ market.left \in Nat /\ market.real \in Nat
        /\ market.balance \in Int /\ market.base > market.left
    BY <2>2, <2>3 DEF CurveStates, ValidCurve
  <2>5. /\ q.out \in Nat /\ q.in \in Nat /\ (q.in = 0 => q.out = 0)
        /\ market.base - q.curveBase \in Nat /\ market.left - q.curveBase \in Nat
        /\ market.vault + q.curveQuote \in Nat /\ market.real + q.curveQuote \in Nat
        /\ market.balance - q.curveBase \in Int /\ (q.curveBase = market.left) \in BOOLEAN
    BY <2>3, <2>4 DEF SellsForMoney
  <2>6. Bought(q) \in CurveStates
    BY <2>2, <2>5 DEF CurveStates
  <2>7. /\ market' = Bought(q) /\ base' = base + q.out /\ quote' = quote - q.in /\ trades' = trades + 1
        /\ trades < MaxTrades /\ base + q.out >= 0 /\ quote - q.in >= 0
    BY <2>1 DEF Settle
  <2> HIDE DEF Bought
  <2>8. base' \in Nat /\ quote' \in Nat /\ trades' \in 0..MaxTrades
    BY <2>5, <2>7, AmountsAssumption DEF MarketInv
  <2>9. quote' <= Purse /\ (quote' = Purse => base' = Purse)
    BY <2>2, <2>5, <2>7, AmountsAssumption DEF MarketInv, CurveInv
  <2> QED BY <2>6, <2>7, <2>8, <2>9 DEF MarketInv, CurveInv
<1>13. ASSUME UNCHANGED marketVars PROVE MarketInv'
  BY <1>13 DEF marketVars, MarketInv, PoolInv, CurveInv, Untraded, Backed
<1> QED BY <1>4, <1>5, <1>6, <1>7, <1>8, <1>9, <1>10, <1>11, <1>12, <1>13 DEF MarketNext

\* Whatever is traded, the market is backed by what it was.
THEOREM MarketInvariance == MarketSpec => []MarketInv
<1> QED BY MarketStarts, MarketSteps, PTL DEF MarketSpec

-----------------------------------------------------------------------------
\* No sequence of quoted trades overdraws a pool or its trader, at any venue.
THEOREM NothingOverdrawn == MarketSpec => []VaultSolvent
<1>1. MarketInv => VaultSolvent
  <2> SUFFICES ASSUME MarketInv PROVE VaultSolvent
    OBVIOUS
  <2>1. market.base \in Nat /\ market.vault \in Nat /\ market.real \in Nat
    BY DEF MarketInv, PoolInv, CurveInv, PoolStates, CurveStates
  <2> QED BY <2>1, WhichMarket DEF MarketInv, VaultSolvent
<1> QED BY <1>1, MarketInvariance, PTL

\* Of two sides whose product did not shrink and of which neither grew, neither shrank.
LEMMA SameSides ==
    ASSUME NEW b \in Nat, NEW v \in Nat, NEW b0 \in Nat, NEW v0 \in Nat, b > 0, v > 0,
           b <= b0, v <= v0, b * v >= b0 * v0
    PROVE  b = b0 /\ v = v0
<1>1. b * v <= b * v0 /\ b * v0 <= b0 * v0
  OBVIOUS
<1>2. b * v = b * v0 /\ b * v0 = b0 * v0
  BY <1>1
<1> QED BY <1>2

\* No sequence of trades at quoted amounts leaves the trader with no less of either
\* token and more of one: every rounding, at every venue, is in the pool's favour.
THEOREM NoFreeLunch == MarketSpec => []NothingGained
<1>1. MarketInv => NothingGained
  <2> SUFFICES ASSUME MarketInv, base >= Purse, quote >= Purse PROVE base = Purse /\ quote = Purse
    BY DEF NothingGained
  <2>1. base \in Nat /\ quote \in Nat /\ Purse \in Nat
    BY AmountsAssumption DEF MarketInv
  <2>2. CASE CurveInv
    BY <2>1, <2>2 DEF CurveInv
  <2>3. CASE PoolInv
    <3>1. PICK m0 \in Markets : Untraded(m0) \/ Backed(m0)
      BY <2>3 DEF PoolInv
    <3>2. CASE Untraded(m0)
      BY <3>2 DEF Untraded
    <3>3. CASE Backed(m0)
      <4>1. /\ market \in PoolStates /\ market.base > 0 /\ Priced(market) > 0
            /\ m0 \in PoolStates /\ m0.base > 0 /\ Priced(m0) > 0
            /\ market.venue = m0.venue /\ market.offset = m0.offset
            /\ base + market.base = Purse + m0.base /\ quote + market.vault <= Purse + m0.vault
            /\ market.base * Priced(market) >= m0.base * Priced(m0)
        BY <3>3 DEF Backed, Funded
      <4>2. /\ market.base \in Nat /\ market.vault \in Nat /\ market.offset \in Int
            /\ m0.base \in Nat /\ m0.vault \in Nat /\ m0.offset \in Int
        BY <4>1 DEF PoolStates
      <4>3. market.base <= m0.base /\ market.vault <= m0.vault
        BY <2>1, <4>1, <4>2
      <4>4. Priced(market) \in Nat /\ Priced(m0) \in Nat /\ Priced(market) <= Priced(m0)
        BY <4>1, <4>2, <4>3 DEF Priced
      <4>5. market.base = m0.base /\ Priced(market) = Priced(m0)
        BY <4>1, <4>2, <4>3, <4>4, SameSides
      <4>6. market.vault = m0.vault
        BY <4>1, <4>2, <4>5 DEF Priced
      <4> QED BY <2>1, <4>1, <4>2, <4>5, <4>6
    <3> QED BY <3>1, <3>2, <3>3
  <2> QED BY <2>2, <2>3 DEF MarketInv
<1> QED BY <1>1, MarketInvariance, PTL
-----------------------------------------------------------------------------
(* The two directions of a quote agree. *)

\* computeFee rounds up by less than one unit.
LEMMA FeeAtMost ==
    ASSUME NEW a \in Nat, NEW bps \in Nat
    PROVE  computeFee(a, bps) * 10000 <= a * bps + 9999
<1>1. a * bps \in Nat
  OBVIOUS
<1> QED BY <1>1, Floor DEF computeFee

\* The fees of a trade grow with it.
LEMMA FeesGrow ==
    ASSUME NEW m, NEW x \in Nat, NEW y \in Nat, x <= y, m.protocol \in Nat, m.creator \in Nat
    PROVE  /\ TwoFees(m, x) \in Nat /\ TwoFees(m, x) <= TwoFees(m, y) /\ TwoFees(m, 0) = 0
           /\ m.lp \in Nat => ThreeFees(m, x) \in Nat /\ ThreeFees(m, x) <= ThreeFees(m, y)
<1>1. \A bps \in Nat : /\ computeFee(x, bps) \in Nat /\ computeFee(y, bps) \in Nat
                       /\ computeFee(x, bps) <= computeFee(y, bps) /\ computeFee(0, bps) = 0
  <2> TAKE bps \in Nat
  <2>1. computeFee(x, bps) \in Nat /\ computeFee(x, bps) <= computeFee(y, bps) /\ computeFee(0, bps) = 0
    BY FeeGrows
  <2>2. computeFee(y, bps) \in Nat
    BY FeeType
  <2> QED BY <2>1, <2>2
<1> QED BY <1>1 DEF TwoFees, ThreeFees

\* What brings the output n is given for is covered by n: the other way round of OutKeeps.
LEMMA OutCosts ==
    ASSUME NEW b \in Nat, NEW v \in Nat, NEW n \in Nat, NEW out \in Nat, out < b,
           (b - out) * (v + n) >= b * v
    PROVE  v * out <= n * (b - out) /\ ceilDiv(v * out, b - out) \in 0..n
<1>1. (b - out) * (v + n) = b * v - v * out + n * (b - out)
  OBVIOUS
<1>2. v * out \in Nat /\ b - out \in Nat /\ b - out > 0 /\ b * v \in Nat /\ n * (b - out) \in Nat
  OBVIOUS
<1>3. v * out <= n * (b - out)
  BY <1>1, <1>2
<1> QED BY <1>2, <1>3, Ceil

\* And what covers the cost of an output brings it.
LEMMA CostBrings ==
    ASSUME NEW b \in Nat, NEW v \in Nat, NEW n \in Nat, NEW a \in Nat, v + n > 0, a <= b,
           n * (b - a) >= v * a
    PROVE  (n * b) \div (v + n) \in Nat /\ a <= (n * b) \div (v + n)
<1>1. a * (v + n) = v * a + n * a /\ n * (b - a) = n * b - n * a
  OBVIOUS
<1>2. v * a \in Nat /\ n * a \in Nat /\ n * b \in Nat /\ v + n \in Nat
  OBVIOUS
<1>3. a * (v + n) <= n * b
  BY <1>1, <1>2
<1> QED BY <1>2, <1>3, Floor

\* buyQuoteInput against buyBaseInput: what a budget is said to buy costs no more.
LEMMA BudgetBuys ==
    ASSUME NEW m \in PoolStates, NEW a \in 0..MaxAmount, NEW q \in buyQuoteInput(m, a, 0)
    PROVE  \E r \in buyBaseInput(m, q.base, 0) : r.ui <= a
<1> DEFINE v == effectiveQuoteReserves(m)
           net == (a * 10000) \div (10000 + m.lp + m.protocol + m.creator)
           raw == net - Most(0, net + ThreeFees(m, net) - a)
           out == (m.base * (raw - 1)) \div (v + raw - 1)
           cost == ceilDiv(v * out, m.base - out)
           ui == cost + ThreeFees(m, cost)
<1>1. HasLiquidity(m) /\ ~(raw <= 0) /\ q.base = out
  BY DEF buyQuoteInput, NoQuote
<1>2. /\ m.base \in Nat /\ m.base > 0 /\ v \in Nat /\ v > 0 /\ a \in Nat /\ a <= MaxAmount /\ MaxAmount \in Nat
      /\ m.lp \in Nat /\ m.protocol \in Nat /\ m.creator \in Nat
  BY <1>1, AmountsAssumption DEF PoolStates, HasLiquidity, effectiveQuoteReserves
<1> HIDE DEF v
<1>3. raw \in Nat /\ raw > 0 /\ raw + ThreeFees(m, raw) <= a
  <2>1. 10000 + m.lp + m.protocol + m.creator \in Nat /\ 10000 + m.lp + m.protocol + m.creator > 0
    BY <1>2
  <2>2. net \in Nat
    BY <1>2, <2>1, Floor
  <2> HIDE DEF net
  <2>3. ThreeFees(m, net) \in Nat
    BY <2>2, ThreeFeesType
  <2>4. raw \in Nat /\ raw > 0 /\ raw <= net
        /\ ((raw = net /\ net + ThreeFees(m, net) <= a) \/ raw = a - ThreeFees(m, net))
    BY <1>1, <1>2, <2>2, <2>3 DEF Most
  <2> HIDE DEF raw
  <2>5. ThreeFees(m, raw) \in Nat /\ ThreeFees(m, raw) <= ThreeFees(m, net)
    BY <1>2, <2>2, <2>4, FeesGrow
  <2> QED BY <1>2, <2>2, <2>3, <2>4, <2>5
<1> HIDE DEF raw
<1>4. out \in Nat /\ out < m.base /\ (m.base - out) * (v + (raw - 1)) >= m.base * v
  <2>1. raw - 1 \in Nat /\ v + (raw - 1) = v + raw - 1
    BY <1>2, <1>3
  <2> QED BY <1>2, <2>1, OutKeeps
<1> HIDE DEF out
<1>5. cost \in 0..(raw - 1)
  <2>1. raw - 1 \in Nat
    BY <1>3
  <2> QED BY <1>2, <1>4, <2>1, OutCosts
<1>6. cost \in Nat /\ cost <= raw
  BY <1>3, <1>5
<1> HIDE DEF cost
<1>7. ui \in 0..MaxAmount /\ cost \in 0..MaxAmount /\ ui <= a
  <2>1. /\ ThreeFees(m, cost) \in Nat /\ ThreeFees(m, raw) \in Nat
        /\ ThreeFees(m, cost) <= ThreeFees(m, raw)
    BY <1>2, <1>3, <1>6, FeesGrow
  <2> QED BY <1>2, <1>3, <1>6, <2>1
<1> DEFINE r == [raw |-> cost, ui |-> ui, max |-> calculateWithSlippageBuy(ui, 0)]
<1>8. r \in buyBaseInput(m, out, 0)
  <2>1. ~(~HasLiquidity(m) \/ out >= m.base)
    BY <1>1, <1>2, <1>4
  <2>2. ~(~IsAmount(cost) \/ ~IsAmount(ui))
    BY <1>7 DEF IsAmount
  <2> QED BY <2>1, <2>2, Zenon DEF buyBaseInput, cost, v
<1>9. r.ui <= a
  BY <1>7
<1> QED BY <1>1, <1>8, <1>9

\* sellQuoteInput against sellBaseInput: what is asked for an amount of quote brings it but
\* for two units, the three fees being rounded up one by one.
LEMMA SaleBrings ==
    ASSUME NEW m \in PoolStates, NEW a \in Nat, NEW q \in sellQuoteInput(m, a, 0), NEW bps \in Nat,
           NEW s \in sellBaseInput(m, q.base, bps)
    PROVE  s.ui >= a - ShortBy /\ s.min <= s.ui
<1> DEFINE v == effectiveQuoteReserves(m)  left == 10000 - m.lp - m.protocol - m.creator
           gross == ceilDiv(a * 10000, left)
           needed == ceilDiv(m.base * gross, v - gross)
           raw == (v * needed) \div (m.base + needed)
           ui == raw - ThreeFees(m, raw)
<1>1. /\ HasLiquidity(m) /\ ~(left <= 0) /\ gross \in 0..MaxAmount /\ gross < v /\ q.base = needed
      /\ needed \in 0..MaxAmount
  BY DEF sellQuoteInput, calculateQuoteAmountOut, NoQuote, IsAmount
<1>2. /\ m.base \in Nat /\ m.base > 0 /\ v \in Nat /\ v > 0 /\ left \in Nat /\ left > 0
      /\ m.lp \in Nat /\ m.protocol \in Nat /\ m.creator \in Nat
  BY <1>1, AmountsAssumption DEF PoolStates, HasLiquidity, effectiveQuoteReserves
<1>3. s.ui = ui /\ s.min = minimumPumpSwapOutput(ui, bps) /\ ~(ui < 0)
  BY <1>1 DEF sellBaseInput, NoQuote
<1> HIDE DEF v
<1>4. gross \in Nat /\ gross * left >= a * 10000
  <2> HIDE DEF left
  <2>1. a * 10000 \in Nat
    OBVIOUS
  <2> QED BY <1>2, <2>1, Ceil
<1> HIDE DEF gross
<1>5. needed \in Nat /\ needed * (v - gross) >= m.base * gross
  <2>1. m.base * gross \in Nat /\ v - gross \in Nat /\ v - gross > 0
    BY <1>1, <1>2, <1>4
  <2> QED BY <2>1, Ceil
<1> HIDE DEF needed
<1>6. raw \in Nat /\ gross <= raw
  <2> DEFINE b == m.base
  <2>1. /\ b \in Nat /\ v \in Nat /\ needed \in Nat /\ gross \in Nat
        /\ b + needed > 0 /\ gross <= v /\ needed * (v - gross) >= b * gross
    BY <1>1, <1>2, <1>4, <1>5
  <2>2. raw = (v * needed) \div (b + needed)
    OBVIOUS
  <2> HIDE DEF b, raw
  <2>3. (needed * v) \div (b + needed) \in Nat /\ gross <= (needed * v) \div (b + needed)
    BY <2>1, CostBrings
  <2>4. needed * v = v * needed
    BY <2>1
  <2> QED BY <2>2, <2>3, <2>4
<1> HIDE DEF raw
<1>7. ui * 10000 >= a * 10000 - 29997
  <2> DEFINE l == m.lp  p == m.protocol  c == m.creator
             f1 == computeFee(raw, l)  f2 == computeFee(raw, p)  f3 == computeFee(raw, c)
  <2>1. l \in Nat /\ p \in Nat /\ c \in Nat /\ left = 10000 - l - p - c /\ left \in Nat
    BY <1>2
  <2>2. ui = raw - (f1 + f2 + f3)
    BY DEF ThreeFees
  <2> HIDE DEF l, p, c, ui, left
  <2>3. f1 \in Nat /\ f1 * 10000 <= raw * l + 9999
    <3>1. raw \in Nat /\ l \in Nat
      BY <1>6, <2>1
    <3>2. f1 * 10000 <= raw * l + 9999
      BY <3>1, FeeAtMost
    <3> QED BY <3>1, <3>2, FeeType
  <2>4. f2 \in Nat /\ f2 * 10000 <= raw * p + 9999
    <3>1. raw \in Nat /\ p \in Nat
      BY <1>6, <2>1
    <3>2. f2 * 10000 <= raw * p + 9999
      BY <3>1, FeeAtMost
    <3> QED BY <3>1, <3>2, FeeType
  <2>5. f3 \in Nat /\ f3 * 10000 <= raw * c + 9999
    <3>1. raw \in Nat /\ c \in Nat
      BY <1>6, <2>1
    <3>2. f3 * 10000 <= raw * c + 9999
      BY <3>1, FeeAtMost
    <3> QED BY <3>1, <3>2, FeeType
  <2> HIDE DEF f1, f2, f3
  <2>6. raw * l \in Nat /\ raw * p \in Nat /\ raw * c \in Nat /\ raw * left \in Nat
        /\ raw * left = raw * 10000 - raw * l - raw * p - raw * c
    BY <1>6, <2>1
  <2>7. raw * left >= gross * left /\ gross * left \in Nat
    BY <1>2, <1>4, <1>6
  <2> QED BY <1>4, <1>6, <2>1, <2>2, <2>3, <2>4, <2>5, <2>6, <2>7
<1>8. ui \in Nat
  <2>1. ThreeFees(m, raw) \in Nat
    BY <1>6, ThreeFeesType
  <2> QED BY <1>3, <1>6, <2>1
<1> HIDE DEF ui
<1>9. ui >= a - 2
  BY <1>7, <1>8
<1>10. minimumPumpSwapOutput(ui, bps) <= ui
  <2>1. ClampBps(bps) \in Nat /\ ClampBps(bps) <= 9999
    BY DEF ClampBps, Least
  <2>2. 10000 - ClampBps(bps) \in Nat /\ 10000 - ClampBps(bps) <= 10000
    BY <2>1
  <2>3. (ui * (10000 - ClampBps(bps))) \div 10000 \in 0..ui
    BY <1>8, <2>2, Shares
  <2> QED BY <1>8, <2>3 DEF minimumPumpSwapOutput
<1> QED BY <1>3, <1>9, <1>10 DEF ShortBy

\* What less than an output costs is covered by what covers the output.
LEMMA CostOfLess ==
    ASSUME NEW b \in Nat, NEW v \in Nat, NEW n \in Nat, NEW t \in Nat, NEW c \in Nat,
           c <= t, t < b, v * t <= n * (b - t)
    PROVE  (c * v) \div (b - c) \in 0..n
<1>1. c * v <= v * t /\ n * (b - t) <= n * (b - c)
  OBVIOUS
<1>2. c * v \in Nat /\ v * t \in Nat /\ n * (b - t) \in Nat /\ n * (b - c) \in Nat /\ b - c \in Nat /\ b - c > 0
  OBVIOUS
<1> DEFINE d == b - c  k == (c * v) \div d
<1>3. k \in Nat /\ k * d <= c * v
  BY <1>2, Floor
<1>4. c * v <= n * d
  BY <1>1, <1>2
<1> HIDE DEF d, k
<1>5. k <= n
  <2>1. d \in Nat /\ d > 0
    BY <1>2 DEF d
  <2>2. k * d <= n * d
    BY <1>2, <1>3, <1>4, <2>1
  <2> QED BY <1>3, <2>1, <2>2
<1> QED BY <1>3, <1>5 DEF d, k

\* NetOf leaves room for the fees of what it returns (pump_v3.ts, netOf).
LEMMA NetFits ==
    ASSUME NEW m \in CurveStates, NEW k \in Int, NetOf(m, k) \in Nat
    PROVE  NetOf(m, k) + TwoFees(m, NetOf(m, k)) <= k
<1> DEFINE d == 10000 + m.protocol + m.creator  l == (k * 10000) \div d
           n == l - Most(0, l + TwoFees(m, l) - k)
<1>1. m.protocol \in Nat /\ m.creator \in Nat /\ d \in Nat /\ d > 0 /\ k * 10000 \in Int
  BY DEF CurveStates
<1>2. NetOf(m, k) = n
  BY DEF NetOf
<1>3. l \in Int
  BY <1>1
<1> HIDE DEF d, l
<1>4. TwoFees(m, l) \in Int
  BY <1>3, TwoFeesType
<1>5. n \in Nat /\ n <= l /\ ((n = l /\ l + TwoFees(m, l) <= k) \/ n = k - TwoFees(m, l))
  BY <1>2, <1>3, <1>4 DEF Most
<1> HIDE DEF n
<1>6. l \in Nat
  BY <1>3, <1>5
<1>7. TwoFees(m, n) \in Nat /\ TwoFees(m, n) <= TwoFees(m, l)
  BY <1>1, <1>5, <1>6, FeesGrow
<1> QED BY <1>2, <1>4, <1>5, <1>6, <1>7

\* Two legs that are paid within a budget are quoted.
LEMMA QuotedWithin ==
    ASSUME NEW m \in CurveStates, NEW cb \in Nat, NEW cq \in Nat, NEW pb \in Nat, NEW pq \in Nat,
           NEW a \in 0..MaxAmount, cb + pb <= MaxAmount,
           cq + pq + TwoFees(m, cq) + TwoFees(m, pq) <= a
    PROVE  \E r \in QuoteV3(m, cb, cq, pb, pq) : r.in <= a
<1> DEFINE in == cq + pq + TwoFees(m, cq) + TwoFees(m, pq)
           r == [out |-> cb + pb, in |-> in, curveBase |-> cb, curveQuote |-> cq]
<1>1. TwoFees(m, cq) \in Nat /\ TwoFees(m, pq) \in Nat
  BY TwoFeesType
<1>2. IsAmount(cb + pb) /\ IsAmount(in)
  BY <1>1, AmountsAssumption DEF IsAmount
<1>3. r \in QuoteV3(m, cb, cq, pb, pq)
  BY <1>2, Zenon DEF QuoteV3
<1> QED BY <1>3

\* quotePumpBuyV3ExactIn against quotePumpBuyV3ExactOut: what a budget is said to buy costs
\* no more, on the curve, across its completion and where only part of it is filled.
LEMMA CurveBudgetBuys ==
    ASSUME NEW m \in CurveStates, NEW a \in 0..MaxAmount, NEW q \in quotePumpBuyV3ExactIn(m, a)
    PROVE  q.in <= a /\ \E r \in quotePumpBuyV3ExactOut(m, q.out, TRUE) : r.in <= a
<1> DEFINE n == NetOf(m, a)  tokens == ((n - 1) * m.base) \div (m.vault + n - 1)
           fromCurve == Least(tokens, m.left)  cost == curveCost(m, fromCurve)
           leg == NetOf(m, a - cost - TwoFees(m, cost))
           fromPool(p) == ((leg - 1) * p.base) \div (p.quote + leg - 1)
           needs(p, rest) == ceilDiv(p.quote * rest, p.base - rest)
<1>1. /\ ValidCurve(m) /\ m.base \in Nat /\ m.left \in Nat /\ m.base > m.left
      /\ m.vault \in Nat /\ m.vault > 0 /\ m.protocol \in Nat /\ m.creator \in Nat
      /\ a \in Nat /\ a <= MaxAmount /\ MaxAmount \in Nat
  BY AmountsAssumption DEF quotePumpBuyV3ExactIn, NoQuote, ValidCurve, CurveStates
\* A quote of the curve alone, for what is there to sell.
<1>2. ASSUME NEW c \in 0..m.left, curveCost(m, c) \in Nat,
             curveCost(m, c) + TwoFees(m, curveCost(m, c)) <= a,
             q \in QuoteV3(m, c, curveCost(m, c), 0, 0)
      PROVE  q.in <= a /\ \E r \in quotePumpBuyV3ExactOut(m, q.out, TRUE) : r.in <= a
  <2> DEFINE k == curveCost(m, c)
  <2>1. TwoFees(m, 0) = 0 /\ TwoFees(m, k) \in Nat
    BY <1>1, <1>2, FeesGrow
  <2>2. q.out = c /\ q.in = k + 0 + TwoFees(m, k) + TwoFees(m, 0)
    BY <1>1, <1>2, <2>1 DEF QuoteV3, NoQuote
  <2>3. q.in <= a
    BY <1>2, <2>1, <2>2
  <2>4. Least(q.out, m.left) = c /\ q.out - c = 0
    BY <1>1, <1>2, <2>2 DEF Least
  <2>5. q \in quotePumpBuyV3ExactOut(m, q.out, TRUE)
    <3>1. ~(~ValidCurve(m) \/ (q.out - c > 0 /\ m.mayhem /\ ~TRUE))
      BY <1>1
    <3> QED BY <1>2, <2>4, <3>1, Zenon DEF quotePumpBuyV3ExactOut
  <2> QED BY <2>3, <2>5
<1>3. CASE n <= 1 /\ q \in QuoteV3(m, 0, 0, 0, 0)
  <2>1. curveCost(m, 0) = 0 /\ 0 \in 0..m.left
    BY <1>1 DEF curveCost
  <2>2. TwoFees(m, 0) = 0
    BY <1>1, FeesGrow
  <2>3. /\ curveCost(m, 0) \in Nat /\ q \in QuoteV3(m, 0, curveCost(m, 0), 0, 0)
        /\ curveCost(m, 0) + TwoFees(m, curveCost(m, 0)) <= a
    BY <1>1, <1>3, <2>1, <2>2
  <2> QED BY <1>2, <2>1, <2>3
<1>4. ASSUME ~(n <= 1)
      PROVE  /\ n \in Nat /\ tokens \in Nat /\ fromCurve \in 0..m.left /\ cost \in Nat
             /\ (fromCurve = tokens \/ (fromCurve = m.left /\ m.left < tokens))
             /\ cost + TwoFees(m, cost) <= a
  <2>1. n \in Nat /\ n - 1 \in Nat /\ n > 1
    <3>1. n \in Int
      BY <1>1, NetOfType
    <3> HIDE DEF n
    <3> QED BY <1>4, <3>1
  <2>2. n + TwoFees(m, n) <= a
    BY <1>1, <2>1, NetFits
  <2> HIDE DEF n
  <2> DEFINE b == m.base  v == m.vault
  <2>3. b \in Nat /\ v \in Nat /\ b > 0 /\ v > 0 /\ tokens = (b * (n - 1)) \div (v + (n - 1))
    <3>1. (n - 1) * m.base = m.base * (n - 1) /\ m.vault + n - 1 = m.vault + (n - 1)
      BY <1>1, <2>1
    <3> QED BY <1>1, <3>1
  <2> HIDE DEF tokens, b, v
  <2>4. tokens \in Nat /\ tokens < b /\ (b - tokens) * (v + (n - 1)) >= b * v
    BY <2>1, <2>3, OutKeeps
  <2>5. v * tokens <= (n - 1) * (b - tokens)
    BY <2>1, <2>3, <2>4, OutCosts
  <2>6. /\ fromCurve \in 0..m.left /\ fromCurve <= tokens
        /\ (fromCurve = tokens \/ (fromCurve = m.left /\ m.left < tokens))
    <3> DEFINE y == m.left
    <3>1. tokens \in Nat /\ y \in Nat /\ fromCurve = (IF tokens < y THEN tokens ELSE y)
      BY <1>1, <2>4 DEF Least
    <3> HIDE DEF fromCurve, y
    <3>2. /\ fromCurve \in 0..y /\ fromCurve <= tokens
          /\ (fromCurve = tokens \/ (fromCurve = y /\ y < tokens))
      BY <3>1
    <3> QED BY <3>2 DEF y
  <2> HIDE DEF fromCurve
  <2>7. (fromCurve * v) \div (b - fromCurve) \in 0..(n - 1)
    <3>1. fromCurve \in Nat
      BY <1>1, <2>6
    <3> QED BY <2>1, <2>3, <2>4, <2>5, <2>6, <3>1, CostOfLess
  <2>8. cost \in Nat /\ cost <= n
    BY <2>1, <2>7 DEF curveCost, b, v
  <2> HIDE DEF cost
  <2>9. TwoFees(m, cost) \in Nat /\ TwoFees(m, cost) <= TwoFees(m, n)
    BY <1>1, <2>1, <2>8, FeesGrow
  <2>10. TwoFees(m, n) \in Nat
    BY <2>1, TwoFeesType
  <2> QED BY <1>1, <2>1, <2>2, <2>4, <2>6, <2>8, <2>9, <2>10
<1>5. CASE ~(n <= 1) /\ q \in QuoteV3(m, fromCurve, cost, 0, 0)
  <2>1. fromCurve \in 0..m.left /\ cost \in Nat /\ cost + TwoFees(m, cost) <= a
    BY <1>4, <1>5
  <2> HIDE DEF n, fromCurve
  <2> QED BY <1>2, <1>5, <2>1
\* The buy that completes the curve.
<1>6. CASE /\ ~(n <= 1) /\ ~(tokens <= m.left) /\ ~m.mayhem /\ ~(leg <= 1)
           /\ \E p \in PoolToBe(m, cost) :
                 fromPool(p) # 0 /\ q \in QuoteV3(m, fromCurve, cost, fromPool(p), leg)
  <2>1. PICK p \in PoolToBe(m, cost) :
           fromPool(p) # 0 /\ q \in QuoteV3(m, fromCurve, cost, fromPool(p), leg)
    BY <1>6
  <2>2. fromCurve = m.left /\ cost \in Nat /\ cost + TwoFees(m, cost) <= a
    BY <1>1, <1>4, <1>6
  <2> HIDE DEF n, tokens, fromCurve
  <2>3. cost = curveCost(m, m.left)
    BY <2>2
  <2> HIDE DEF cost
  <2>4. TwoFees(m, cost) \in Nat
    BY <2>2, TwoFeesType
  <2>5. leg \in Nat /\ leg > 1 /\ leg + TwoFees(m, leg) <= a - cost - TwoFees(m, cost)
    <3>1. a - cost - TwoFees(m, cost) \in Int
      BY <1>1, <2>2, <2>4
    <3>2. leg \in Int
      BY <3>1, NetOfType
    <3>3. leg \in Nat /\ leg > 1
      <4> HIDE DEF leg
      <4> QED BY <1>6, <3>2
    <3> QED BY <3>1, <3>3, NetFits
  <2> HIDE DEF leg
  <2> DEFINE b == p.base  v == p.quote  rest == fromPool(p)  back == needs(p, rest)
  <2>6. b \in Nat /\ v \in Nat /\ b > 0 /\ v > 0
    BY <2>2 DEF PoolToBe, NoQuote, CurveStates
  <2>7. rest \in Nat /\ rest < b /\ (b - rest) * (v + (leg - 1)) >= b * v
    <3>1. leg - 1 \in Nat /\ rest = ((leg - 1) * b) \div (v + leg - 1)
      BY <2>5
    <3>2. (leg - 1) * b = b * (leg - 1) /\ v + leg - 1 = v + (leg - 1)
      BY <2>5, <2>6, <3>1
    <3> HIDE DEF rest, b, v
    <3>3. rest = (b * (leg - 1)) \div (v + (leg - 1))
      BY <3>1, <3>2
    <3> QED BY SMTT(30), <2>6, <3>1, <3>3, OutKeeps
  <2>8. rest # 0 /\ q \in QuoteV3(m, m.left, cost, rest, leg)
    BY <2>1, <2>2
  <2> HIDE DEF fromPool, rest
  <2>9. back \in Nat /\ back <= leg
    <3>1. leg - 1 \in Nat /\ back = ceilDiv(v * rest, b - rest)
      BY <2>5
    <3> HIDE DEF back, b, v
    <3>2. ceilDiv(v * rest, b - rest) \in 0..(leg - 1)
      BY <2>6, <2>7, <3>1, OutCosts
    <3> QED BY <2>5, <3>1, <3>2
  <2>10. TwoFees(m, back) \in Nat /\ TwoFees(m, back) <= TwoFees(m, leg) /\ TwoFees(m, leg) \in Nat
    <3> HIDE DEF back
    <3> QED BY <1>1, <2>5, <2>9, FeesGrow, TwoFeesType
  <2>11. /\ q.out = m.left + rest /\ q.out <= MaxAmount
         /\ q.in = cost + leg + TwoFees(m, cost) + TwoFees(m, leg)
    BY <2>8 DEF QuoteV3, NoQuote, IsAmount
  <2>12. q.in <= a
    BY <1>1, <2>2, <2>4, <2>5, <2>10, <2>11
  <2>13. \E r \in QuoteV3(m, m.left, cost, rest, back) : r.in <= a
    <3>1. cost + back + TwoFees(m, cost) + TwoFees(m, back) <= a
      <4> HIDE DEF back
      <4> QED BY <1>1, <2>2, <2>4, <2>5, <2>9, <2>10
    <3> HIDE DEF back
    <3> QED BY ZenonT(30), <1>1, <2>2, <2>7, <2>9, <2>11, <3>1, QuotedWithin
  <2>14. PICK r \in QuoteV3(m, m.left, cost, rest, back) : r.in <= a
    BY <2>13
  <2>15. r \in quotePumpBuyV3ExactOut(m, q.out, TRUE)
    <3>1. /\ Least(q.out, m.left) = m.left /\ q.out - m.left = rest
          /\ ~(~ValidCurve(m) \/ (rest > 0 /\ m.mayhem /\ ~TRUE))
          /\ ~(rest = 0 \/ m.mayhem)
      BY <1>1, <1>6, <2>7, <2>8, <2>11 DEF Least
    <3>2. p \in {x \in PoolToBe(m, cost) : rest < x.base}
      BY <2>1, <2>7
    <3> QED BY <2>3, <2>14, <3>1, <3>2, Zenon DEF quotePumpBuyV3ExactOut
  <2> QED BY <2>12, <2>14, <2>15
<1>7. \/ n <= 1 /\ q \in QuoteV3(m, 0, 0, 0, 0)
      \/ ~(n <= 1) /\ q \in QuoteV3(m, fromCurve, cost, 0, 0)
      \/ /\ ~(n <= 1) /\ ~(tokens <= m.left) /\ ~m.mayhem /\ ~(leg <= 1)
         /\ \E p \in PoolToBe(m, cost) :
               fromPool(p) # 0 /\ q \in QuoteV3(m, fromCurve, cost, fromPool(p), leg)
  BY DEF quotePumpBuyV3ExactIn, NoQuote
<1> QED BY <1>3, <1>5, <1>6, <1>7

\* raydiumAmmV4GetAmountIn against raydiumAmmV4GetAmountOut.
LEMMA AmmV4Brings ==
    ASSUME NEW v \in Nat, NEW b \in Nat, NEW a \in Nat, NEW in \in raydiumAmmV4GetAmountIn(a, v, b)
    PROVE  in = 0 \/ raydiumAmmV4GetAmountOut(in, v, b) >= a
<1> SUFFICES ASSUME in # 0 PROVE raydiumAmmV4GetAmountOut(in, v, b) >= a
  OBVIOUS
<1>1. v # 0 /\ b # 0 /\ a < b /\ in = ceilDiv(v * a * 10000, (b - a) * 9975)
  BY DEF raydiumAmmV4GetAmountIn, NoQuote
<1> DEFINE w == v * 10000
<1>2. v * a * 10000 \in Nat /\ v * a * 10000 = w * a /\ (b - a) * 9975 \in Nat /\ (b - a) * 9975 > 0
      /\ b - a \in Nat /\ w \in Nat /\ w > 0
  BY <1>1
<1>3. in \in Nat /\ in * ((b - a) * 9975) >= w * a
  <2> DEFINE k == v * a * 10000  d == (b - a) * 9975
  <2>1. k \in Nat /\ k = w * a /\ d \in Nat /\ d > 0 /\ in = ceilDiv(k, d)
    BY <1>1, <1>2
  <2> HIDE DEF k, w
  <2>2. in \in Nat /\ in * d >= k
    <3> HIDE DEF d
    <3> QED BY <2>1, Ceil
  <2> QED BY <2>1, <2>2
<1> DEFINE n == in * 9975
<1>4. n \in Nat /\ n * (b - a) >= w * a /\ w + n > 0
  BY <1>2, <1>3
<1>5. raydiumAmmV4GetAmountOut(in, v, b) = (n * b) \div (w + n)
  BY <1>1 DEF raydiumAmmV4GetAmountOut
<1> HIDE DEF w, n
<1>6. (n * b) \div (w + n) \in Nat /\ a <= (n * b) \div (w + n)
  BY <1>1, <1>2, <1>4, CostBrings
<1> QED BY <1>5, <1>6

\* meteoraDammV2GetAmountIn against meteoraDammV2GetAmountOut.
LEMMA DammBrings ==
    ASSUME NEW v \in Nat, NEW b \in Nat, NEW bps \in Nat, NEW a \in Nat,
           meteoraDammV2GetAmountIn(a, v, b, bps) # 0
    PROVE  meteoraDammV2GetAmountOut(meteoraDammV2GetAmountIn(a, v, b, bps), v, b, bps) >= a
<1> DEFINE net == ceilDiv(v * a, b - a)  share == 10000 - bps
           gross == ceilDiv(net * 10000, share)  n == (gross * share) \div 10000
<1>1. ~(bps >= 10000) /\ v # 0 /\ b # 0 /\ a < b /\ meteoraDammV2GetAmountIn(a, v, b, bps) = gross
  BY DEF meteoraDammV2GetAmountIn
<1>2. share \in Nat /\ share > 0 /\ v * a \in Nat /\ b - a \in Nat /\ b - a > 0
  BY <1>1
<1>3. net \in Nat /\ net * (b - a) >= v * a
  BY <1>2, Ceil
<1> HIDE DEF net
<1>4. meteoraDammV2GetAmountOut(gross, v, b, bps) = (n * b) \div (v + n)
  BY <1>1 DEF meteoraDammV2GetAmountOut
<1> HIDE DEF share
<1>5. gross \in Nat /\ gross * share >= net * 10000
  <2> DEFINE k == net * 10000
  <2>1. k \in Nat /\ gross = ceilDiv(k, share)
    BY <1>3
  <2> HIDE DEF gross, k
  <2>2. gross \in Nat /\ gross * share >= k
    BY <1>2, <2>1, Ceil
  <2> QED BY <2>2 DEF k
<1> HIDE DEF gross
<1>6. n \in Nat /\ net <= n
  <2>1. gross * share \in Nat
    BY <1>2, <1>5
  <2> QED BY <1>3, <1>5, <2>1, Floor
<1> HIDE DEF n
<1>7. n * (b - a) >= v * a /\ v + n > 0
  <2>1. n * (b - a) >= net * (b - a)
    BY <1>2, <1>3, <1>6
  <2>2. n * (b - a) \in Nat /\ net * (b - a) \in Nat
    BY <1>2, <1>3, <1>6
  <2> QED BY <1>1, <1>2, <1>3, <1>6, <2>1, <2>2
<1>8. a <= (n * b) \div (v + n) /\ (n * b) \div (v + n) \in Nat
  BY <1>1, <1>6, <1>7, CostBrings
<1> QED BY <1>1, <1>4, <1>8

\* Whatever was traded before, the two directions of every quote agree: in every pool state
\* a behaviour reaches, a budget's quote is covered by the quote of what it buys, and an
\* output's by what it is said to cost.
THEOREM QuotesAgree == MarketSpec => []QuotesCover
<1>1. MarketInv => QuotesCover
  <2> SUFFICES ASSUME MarketInv, NEW a \in Amounts
               PROVE  QuotesCover!(a)
    BY DEF QuotesCover
  <2>1. a \in 0..MaxAmount /\ a \in Nat /\ \A r \in Slippages : r \in Nat
    BY AmountsAssumption
  <2>2. market.venue # "pumpV3" => market \in PoolStates
    BY WhichMarket DEF PoolInv
  <2>3. market.venue = "pumpV3" => market \in CurveStates
    BY WhichMarket DEF CurveInv
  <2>4. ASSUME market.venue # "pumpV3"
        PROVE  market.base \in Nat /\ market.vault \in Nat /\ market.lp \in Nat
    BY <2>2, <2>4 DEF PoolStates
  <2>5. ASSUME market.venue = "pumpswap"
        PROVE  /\ \A q \in buyQuoteInput(market, a, 0) : q.base = 0 \/
                     \E r \in buyBaseInput(market, q.base, 0) : r.ui <= a
               /\ \A q \in sellQuoteInput(market, a, 0), r \in Slippages :
                     \A s \in sellBaseInput(market, q.base, r) : s.ui >= a - ShortBy /\ s.min <= s.ui
    BY <2>1, <2>2, <2>5, BudgetBuys, SaleBrings
  <2>6. ASSUME market.venue = "pumpV3", NEW q \in quotePumpBuyV3ExactIn(market, a)
        PROVE  q.in <= a /\ \E r \in quotePumpBuyV3ExactOut(market, q.out, TRUE) : r.in <= a
    BY <2>1, <2>3, <2>6, CurveBudgetBuys
  <2>7. ASSUME market.venue = "ammV4",
               NEW in \in raydiumAmmV4GetAmountIn(a, market.vault, market.base)
        PROVE  in = 0 \/ raydiumAmmV4GetAmountOut(in, market.vault, market.base) >= a
    BY <2>1, <2>4, <2>7, AmmV4Brings
  <2>8. ASSUME market.venue = "damm",
               meteoraDammV2GetAmountIn(a, market.vault, market.base, market.lp) # 0
        PROVE  meteoraDammV2GetAmountOut(meteoraDammV2GetAmountIn(a, market.vault, market.base, market.lp),
                                         market.vault, market.base, market.lp) >= a
    BY <2>1, <2>4, <2>8, DammBrings
  <2> QED BY <2>5, <2>6, <2>7, <2>8
<1> QED BY <1>1, MarketInvariance, PTL

-----------------------------------------------------------------------------
(* CachedRoutes.                                                           *)

-----------------------------------------------------------------------------
(* Sequences, and functions defined by recursion on the numbers up to n.   *)

\* What holds of 0, and of a number if it holds of the one before it, holds up to n.
LEMMA UpTo ==
    ASSUME NEW n \in Nat, NEW S, 0 \in S, \A i \in 1..n : i - 1 \in S => i \in S
    PROVE  \A i \in 0..n : i \in S
<1> DEFINE T == {i \in 0..n : i \notin S}
<1>1. ASSUME T # {} PROVE FALSE
  <2>0. T \in SUBSET Nat
    OBVIOUS
  <2>1. PICK x \in T : \A y \in T : x <= y
    <3> HIDE DEF T
    <3> QED BY <1>1, <2>0, NatWellFounded
  <2>2. x # 0 /\ x - 1 \in 0..n /\ x \in 1..n
    BY <2>1
  <2>3. x - 1 \in S
    BY <2>1, <2>2
  <2> QED BY <2>1, <2>2, <2>3
<1> QED BY <1>1

\* A function on 1..n for an n, whatever its values are.
Sequence(s) == Len(s) \in Nat /\ s = [i \in 1..Len(s) |-> s[i]]

\* Sequences are such functions.
LEMMA SeqIsSequence == ASSUME NEW V, NEW s \in Seq(V) PROVE Sequence(s)
<1>1. Len(s) \in Nat /\ DOMAIN s = 1..Len(s) /\ s = [i \in DOMAIN s |-> s[i]]
  OBVIOUS
<1> QED BY <1>1 DEF Sequence

\* The parts of a concatenation.
LEMMA Join ==
    ASSUME NEW s, NEW t, Sequence(s), Sequence(t)
    PROVE  /\ Sequence(s \o t) /\ Len(s \o t) = Len(s) + Len(t)
           /\ \A i \in 1..Len(s) : (s \o t)[i] = s[i]
           /\ \A i \in 1..Len(t) : (s \o t)[Len(s) + i] = t[i]
<1> DEFINE V == {s[i] : i \in 1..Len(s)} \cup {t[i] : i \in 1..Len(t)}
<1>1. s \in Seq(V) /\ t \in Seq(V)
  BY DEF Sequence
<1> HIDE DEF V
<1>2. s \o t \in Seq(V) /\ Len(s \o t) = Len(s) + Len(t)
  BY <1>1
<1>3. Sequence(s \o t)
  BY <1>2, SeqIsSequence
<1> QED BY <1>1, <1>2, <1>3

\* A step on values of V for each number up to n, and what it yields from the value x on.
Stepping(F, n, V) == F \in [(1..n) \X V -> V]
Recursion(f, n, V, x, F) ==
    f \in [0..n -> V] /\ f[0] = x /\ \A i \in 1..n : f[i] = F[<<i, f[i - 1]>>]

\* What is defined by recursion exists.
LEMMA Recursive ==
    ASSUME NEW n \in Nat, NEW V, NEW x \in V, NEW F, Stepping(F, n, V)
    PROVE  \E f : Recursion(f, n, V, x, F)
<1> USE DEF Stepping
<1> DEFINE Is(f, m) == f \in [0..m -> V] /\ f[0] = x /\ \A i \in 1..m : f[i] = F[<<i, f[i - 1]>>]
           Defined == {m \in 0..n : \E f : Is(f, m)}
<1>1. 0 \in Defined
  <2>1. Is([i \in 0..0 |-> x], 0)
    OBVIOUS
  <2> HIDE DEF Is
  <2> QED BY <2>1
<1>2. ASSUME NEW m \in 1..n, m - 1 \in Defined PROVE m \in Defined
  <2>1. PICK f : Is(f, m - 1)
    BY <1>2
  <2>2. m - 1 \in 0..(m - 1) /\ f[m - 1] \in V /\ m \in 0..n
    BY <2>1
  <2> DEFINE y == F[<<m, f[m - 1]>>]
             g == [i \in 0..m |-> IF i = m THEN y ELSE f[i]]
  <2>3. y \in V
    BY <2>2
  <2>4. (\A i \in 0..(m - 1) : g[i] = f[i]) /\ g[m] = y
    OBVIOUS
  <2>5. g \in [0..m -> V]
    <3>1. \A i \in 0..m : (IF i = m THEN y ELSE f[i]) \in V
      <4> HIDE DEF y
      <4> QED BY <2>1, <2>3
    <3> QED BY <3>1
  <2> HIDE DEF g
  <2>6. g[0] = x
    BY <2>1, <2>4
  <2>7. ASSUME NEW i \in 1..m PROVE g[i] = F[<<i, g[i - 1]>>]
    <3>1. i - 1 \in 0..(m - 1) /\ g[i - 1] = f[i - 1]
      BY <2>4
    <3>2. CASE i = m
      BY <2>4, <3>1, <3>2
    <3>3. CASE i # m
      <4>1. i \in 1..(m - 1) /\ g[i] = f[i]
        BY <2>4, <3>3
      <4> QED BY <2>1, <3>1, <4>1
    <3> QED BY <3>2, <3>3
  <2>8. Is(g, m)
    BY <2>5, <2>6, <2>7
  <2> HIDE DEF Is
  <2> QED BY <2>2, <2>8
<1>3. n \in Defined
  <2> HIDE DEF Defined
  <2> QED BY <1>1, <1>2, UpTo
<1> QED BY <1>3 DEF Recursion

-----------------------------------------------------------------------------
(* Swaps through intervals: what is left and what is paid are numbers.     *)

\* A quotient rounded up is the smallest number that covers (SwapWalks!CeilDiv).
LEMMA Covers ==
    ASSUME NEW a \in Nat, NEW b \in Nat, b > 0
    PROVE  /\ CeilDiv(a, b) \in Nat /\ CeilDiv(a, b) * b >= a
           /\ \A n \in Nat : n * b >= a => CeilDiv(a, b) <= n
<1> DEFINE c == a + b - 1  q == c \div b
<1>1. c \in Nat
  OBVIOUS
<1>2. q \in Nat /\ q * b <= c /\ c < q * b + b
  <2> HIDE DEF c
  <2> QED BY <1>1, Floor
<1>3. CeilDiv(a, b) = q
  BY DEF CeilDiv
<1> HIDE DEF q
<1>4. q * b >= a
  <2>1. q * b \in Int
    BY <1>2
  <2> QED BY <1>2, <2>1
<1>5. ASSUME NEW n \in Nat, n * b >= a PROVE q <= n
  <2>1. q * b < n * b + b
    <3>1. q * b \in Int /\ n * b \in Int
      BY <1>2
    <3> QED BY <1>2, <1>5, <3>1
  <2>2. n * b + b = (n + 1) * b
    OBVIOUS
  <2>3. q < n + 1
    BY <1>2, <2>1, <2>2
  <2> QED BY <1>2, <2>3
<1> QED BY <1>2, <1>3, <1>4, <1>5

\* A fee is part of what it is charged on, and covers its share of it.
LEMMA ShareOf ==
    ASSUME NEW a \in Nat, NEW fee \in Fees
    PROVE  Share(a, fee) \in 0..a /\ Share(a, fee) * Bps >= a * fee
<1>1. a * fee \in Nat /\ a * fee <= a * Bps
  BY DEF Fees, Bps
<1> DEFINE n == a * fee
<1>2. /\ CeilDiv(n, Bps) \in Nat /\ CeilDiv(n, Bps) * Bps >= n
      /\ a * Bps >= n => CeilDiv(n, Bps) <= a
  <2> HIDE DEF n
  <2> QED BY <1>1, Covers DEF n, Bps
<1> QED BY <1>1, <1>2 DEF Share

\* An amount whose fee is deducted can be charged that fee.
LEMMA FeeFits ==
    ASSUME NEW a \in Nat, NEW x \in Nat, NEW fee \in Fees, x * Bps <= a * (Bps - fee)
    PROVE  /\ x <= a
           /\ CeilDiv(x * fee, Bps - fee) \in Nat /\ x + CeilDiv(x * fee, Bps - fee) <= a
           /\ GrossOf(x, fee) \in Nat /\ GrossOf(x, fee) <= a
<1> DEFINE d == Bps - fee
<1>1. d \in Nat /\ d > 0 /\ d <= Bps /\ fee \in Nat /\ Bps \in Nat /\ Bps > 0 /\ Bps = d + fee
  BY DEF Fees, Bps
<1>2. x * Bps <= a * d /\ x * Bps = x * d + x * fee
  BY <1>1
<1> HIDE DEF d
<1>3. x <= a
  <2>1. a * d <= a * Bps
    BY <1>1
  <2>2. x * Bps <= a * Bps
    BY <1>1, <1>2, <2>1
  <2> QED BY <1>1, <2>2
<1>4. x * fee \in Nat /\ x * Bps \in Nat /\ a - x \in Nat
  BY <1>1, <1>3
<1>5. (a - x) * d >= x * fee
  <2>1. (a - x) * d = a * d - x * d
    BY <1>1
  <2> QED BY <1>1, <1>2, <2>1
<1> DEFINE n == x * fee  g == x * Bps  rest == a - x
<1>6. CeilDiv(n, d) \in Nat /\ CeilDiv(n, d) <= rest
  <2>1. n \in Nat /\ rest \in Nat /\ rest * d >= n
    BY <1>4, <1>5
  <2> HIDE DEF n, rest
  <2> QED BY <1>1, <2>1, Covers
<1>7. CeilDiv(g, d) \in Nat /\ CeilDiv(g, d) <= a
  <2>1. g \in Nat /\ a * d >= g
    BY <1>2, <1>4
  <2> HIDE DEF g
  <2> QED BY <1>1, <2>1, Covers
<1>8. x + CeilDiv(n, d) <= a
  BY <1>3, <1>6
<1> QED BY <1>3, <1>6, <1>7, <1>8 DEF GrossOf, d

\* What is left of an amount after its fee can be charged the fee.
LEMMA FeeFitsRest ==
    ASSUME NEW a \in Nat, NEW fee \in Fees, NEW x \in Nat, x <= a - Share(a, fee)
    PROVE  x * Bps <= a * (Bps - fee)
<1> DEFINE s == Share(a, fee)
<1>1. s \in Nat /\ s <= a /\ s * Bps >= a * fee /\ fee \in Nat /\ Bps \in Nat
  <2>1. s \in 0..a /\ s * Bps >= a * fee
    BY ShareOf
  <2>2. fee \in Nat /\ Bps \in Nat
    BY DEF Fees, Bps
  <2> HIDE DEF s
  <2> QED BY <2>1, <2>2
<1>2. x + s <= a
  BY <1>1
<1> HIDE DEF s
<1>3. (x + s) * Bps <= a * Bps
  BY <1>1, <1>2
<1>4. (x + s) * Bps = x * Bps + s * Bps /\ a * (Bps - fee) = a * Bps - a * fee
  BY <1>1
<1> QED BY <1>1, <1>3, <1>4

\* A walk that got somewhere.
IsWalk(w) == w = Walk(w.left, w.out) /\ w.left \in Nat /\ w.out \in Nat

\* The fields of a walk.
LEMMA WalkIs == ASSUME NEW a \in Nat, NEW b \in Nat PROVE IsWalk(Walk(a, b))
BY DEF IsWalk, Walk

\* An output never falls below nothing by its fee.
LEMMA NetOut ==
    ASSUME NEW out \in Nat, NEW more \in Nat, NEW fee \in Fees, NEW onInput
    PROVE  out + more - (IF onInput THEN 0 ELSE Share(more, fee)) \in Nat
<1>1. Share(more, fee) \in 0..more
  BY ShareOf
<1> QED BY <1>1

\* What an interval's numbers are.
LEMMA TickParts ==
    ASSUME NEW tick \in Ticks
    PROVE  /\ tick.room \in Nat /\ tick.num \in Nat /\ tick.den \in Nat /\ tick.den > 0
           /\ tick.fee \in Fees
BY DEF Ticks

\* A fee leaves something.
LEMMA FeesLeave ==
    /\ Bps \in Nat /\ Bps > 0 /\ 0 \in Fees
    /\ \A fee \in Fees : fee \in Nat /\ Bps - fee \in Nat
BY DEF Fees, Bps

\* A step takes no more than there is (clmmSwapStep).
LEMMA StepType ==
    ASSUME NEW tick \in Ticks, NEW a \in Nat, NEW fee \in Fees
    PROVE  LET step == clmmSwapStep(tick, a, fee)
           IN step.in \in Nat /\ step.fee \in Nat /\ step.in + step.fee <= a /\ step.out \in Nat
<1> DEFINE n == a * (Bps - fee)
           net == n \div Bps
           crossed == tick.room <= net
           x == IF crossed THEN tick.room ELSE net
           f == IF crossed THEN CeilDiv(x * fee, Bps - fee) ELSE a - x
           p == x * tick.num
           step == clmmSwapStep(tick, a, fee)
<1>1. /\ tick.room \in Nat /\ tick.num \in Nat /\ tick.den \in Nat /\ tick.den > 0
      /\ Bps \in Nat /\ Bps > 0 /\ Bps - fee \in Nat /\ n \in Nat
  <2>1. Bps - fee \in Nat
    BY FeesLeave
  <2>2. n \in Nat
    BY <2>1
  <2> QED BY <2>1, <2>2, TickParts, FeesLeave
<1>2. net \in Nat /\ net * Bps <= n
  <2> HIDE DEF n
  <2> QED BY <1>1, Floor
<1>3. step.in = x /\ step.fee = f /\ step.out = p \div tick.den
  BY DEF clmmSwapStep
<1>4. x \in Nat /\ x <= net
  <2> HIDE DEF net
  <2> QED BY <1>1, <1>2
<1>5. x * Bps <= n
  <2> HIDE DEF x, net, n
  <2>1. x * Bps <= net * Bps
    BY <1>1, <1>2, <1>4
  <2>2. x * Bps \in Nat /\ net * Bps \in Nat /\ n \in Nat
    BY <1>1, <1>2, <1>4
  <2> QED BY <1>2, <2>1, <2>2
<1>6. x <= a /\ CeilDiv(x * fee, Bps - fee) \in Nat /\ x + CeilDiv(x * fee, Bps - fee) <= a
  <2> HIDE DEF x
  <2> QED BY <1>4, <1>5, FeeFits
<1>7. f \in Nat /\ x + f <= a
  <2> HIDE DEF x, crossed
  <2> QED BY <1>4, <1>6
<1>8. p \in Nat /\ p \div tick.den \in Nat
  <2>1. p \in Nat
    <3> HIDE DEF x
    <3> QED BY <1>1, <1>4
  <2> HIDE DEF p
  <2> QED BY <1>1, <2>1, Floor
<1> HIDE DEF x, f, p, step
<1>9. step.in \in Nat /\ step.fee \in Nat /\ step.in + step.fee <= a /\ step.out \in Nat
  BY <1>3, <1>4, <1>7, <1>8
<1> QED BY SMTT(30), <1>9 DEF step

\* Orders take no more than there is.
LEMMA OrdersType ==
    ASSUME NEW tick \in Ticks, NEW w, IsWalk(w), NEW onInput
    PROVE  IsWalk(TakeOrders(tick, w, onInput))
<1> DEFINE charged == IF onInput THEN Share(w.left, tick.fee) ELSE 0
           available == w.left - charged
           n == available * tick.num
           matched == n \div tick.den
           gross == Min({matched, tick.orders})
           c == gross * tick.den
           all == CeilDiv(c, tick.num)
           used == IF matched <= tick.orders THEN available + charged
                   ELSE IF onInput THEN all + CeilDiv(all * tick.fee, Bps - tick.fee) ELSE all
           out == w.out + gross - (IF onInput THEN 0 ELSE Share(gross, tick.fee))
<1>1. /\ tick.orders \in Nat /\ tick.num \in Nat /\ tick.num > 0 /\ tick.den \in Nat /\ tick.den > 0
      /\ tick.fee \in Fees /\ w.left \in Nat /\ w.out \in Nat
  BY DEF Ticks, IsWalk
<1>2. TakeOrders(tick, w, onInput) = IF tick.orders = 0 \/ w.left = 0 THEN w ELSE Walk(w.left - used, out)
  BY DEF TakeOrders
<1>3. charged \in 0..w.left
  BY <1>1, ShareOf
<1>4. available \in Nat /\ available + charged = w.left
  <2> HIDE DEF charged
  <2> QED BY <1>1, <1>3
<1>5. n \in Nat /\ matched \in Nat /\ matched * tick.den <= n
  <2>1. n \in Nat
    <3> HIDE DEF available
    <3> QED BY <1>1, <1>4
  <2> HIDE DEF n
  <2> QED BY <1>1, <2>1, Floor
<1>6. gross \in Nat /\ gross <= matched
  <2> HIDE DEF matched
  <2>1. gross = IF matched <= tick.orders THEN matched ELSE tick.orders
    <3>1. \A x, y \in Nat : Min({x, y}) = IF x <= y THEN x ELSE y
      <4> SUFFICES ASSUME NEW x \in Nat, NEW y \in Nat PROVE Min({x, y}) = IF x <= y THEN x ELSE y
        OBVIOUS
      <4> DEFINE S == {x, y}  m == IF x <= y THEN x ELSE y
      <4>1. m \in S /\ \A z \in S : m <= z
        OBVIOUS
      <4>2. \A z \in S : (\A u \in S : z <= u) => z = m
        OBVIOUS
      <4> HIDE DEF S, m
      <4>3. Min(S) = m
        BY <4>1, <4>2 DEF Min
      <4> QED BY <4>3 DEF S, m
    <3> QED BY <1>1, <1>5, <3>1
  <2> HIDE DEF gross
  <2> QED BY <1>1, <1>5, <2>1
<1>7. c \in Nat /\ all \in Nat /\ all <= available
  <2> HIDE DEF gross, available, matched
  <2>1. c \in Nat /\ c <= matched * tick.den
    BY <1>1, <1>5, <1>6
  <2>2. c <= available * tick.num
    <3>1. matched * tick.den \in Nat
      BY <1>1, <1>5
    <3> QED BY <1>5, <2>1, <3>1
  <2> HIDE DEF c
  <2> QED BY <1>1, <1>4, <2>1, <2>2, Covers
<1>8. out \in Nat
  <2> HIDE DEF gross
  <2> QED BY <1>1, <1>6, NetOut
<1>9. used \in Nat /\ used <= w.left
  <2>1. CASE matched <= tick.orders
    <3> HIDE DEF available, charged, matched
    <3> QED BY <1>1, <1>4, <2>1
  <2>2. CASE matched > tick.orders /\ ~onInput
    <3>1. used = all
      <4> HIDE DEF all, available, charged, matched
      <4> QED BY <1>1, <1>5, <2>2
    <3> HIDE DEF used, all, available, charged
    <3> QED BY <1>1, <1>3, <1>4, <1>7, <3>1
  <2>3. CASE matched > tick.orders /\ onInput
    <3>1. used = all + CeilDiv(all * tick.fee, Bps - tick.fee)
      <4> HIDE DEF all, available, charged, matched
      <4> QED BY <1>1, <1>5, <2>3
    <3>2. all <= w.left - Share(w.left, tick.fee)
      <4>1. charged = Share(w.left, tick.fee)
        BY <2>3
      <4>2. available = w.left - Share(w.left, tick.fee)
        BY <4>1
      <4> HIDE DEF all, available, charged
      <4> QED BY <1>7, <4>2
    <3> HIDE DEF used, all
    <3>3. all * Bps <= w.left * (Bps - tick.fee)
      BY <1>1, <1>7, <3>2, FeeFitsRest
    <3>4. CeilDiv(all * tick.fee, Bps - tick.fee) \in Nat /\ all + CeilDiv(all * tick.fee, Bps - tick.fee) <= w.left
      BY <1>1, <1>7, <3>3, FeeFits
    <3> QED BY <1>7, <3>1, <3>4
  <2> HIDE DEF used
  <2>4. matched <= tick.orders \/ matched > tick.orders
    <3> HIDE DEF matched
    <3> QED BY <1>1, <1>5
  <2> QED BY <2>1, <2>2, <2>3, <2>4
<1> HIDE DEF used, out
<1>10. IsWalk(Walk(w.left - used, out))
  <2>1. w.left - used \in Nat
    BY <1>1, <1>9
  <2> QED BY <1>8, <2>1, WalkIs
<1> QED BY <1>2, <1>10

\* So does the crossing of a tick.
LEMMA TickType ==
    ASSUME NEW tick \in Ticks, NEW w, IsWalk(w), NEW onInput
    PROVE  IsWalk(CrossTick(tick, w, onInput))
<1> DEFINE fee == IF onInput THEN tick.fee ELSE 0
           step == clmmSwapStep(tick, w.left, fee)
           out == w.out + step.out - (IF onInput THEN 0 ELSE Share(step.out, tick.fee))
           after == Walk(w.left - step.in - step.fee, out)
<1>1. w.left \in Nat /\ w.out \in Nat /\ tick.fee \in Fees /\ fee \in Fees
  <2>1. tick.fee \in Fees /\ 0 \in Fees
    BY TickParts, FeesLeave
  <2> QED BY SMTT(30), <2>1 DEF IsWalk
<1>2. step.in \in Nat /\ step.fee \in Nat /\ step.in + step.fee <= w.left /\ step.out \in Nat
  <2> HIDE DEF fee
  <2> QED BY <1>1, StepType
<1>3. CrossTick(tick, w, onInput) = IF step.crossed THEN TakeOrders(tick, after, onInput) ELSE after
  BY DEF CrossTick
<1> HIDE DEF step
<1>4. out \in Nat
  BY <1>1, <1>2, NetOut
<1>5. IsWalk(after)
  <2>1. w.left - step.in - step.fee \in Nat
    BY <1>1, <1>2
  <2> HIDE DEF out
  <2> QED BY <1>4, <2>1, WalkIs
<1> HIDE DEF after
<1> QED BY <1>3, <1>5, OrdersType

\* The walks that got somewhere.
AllWalks == [left : Nat, out : Nat]

\* They are all of these.
LEMMA WalksAre == \A w : IsWalk(w) <=> w \in AllWalks
BY DEF IsWalk, Walk, AllWalks

\* A swap through ticks (clmmSwapExactIn).
LEMMA ClmmType ==
    ASSUME NEW ticks \in Seq(Ticks), NEW onInput, NEW amount \in Nat,
           NEW w \in clmmSwapExactIn(ticks, onInput, amount)
    PROVE  IsWalk(w)
<1> DEFINE n == Len(ticks)
           Next(i, v) == IF v.left = 0 THEN v ELSE CrossTick(ticks[i], v, onInput)
           Is(f) == f = [i \in 0..n |-> IF i = 0 THEN Walk(amount, 0) ELSE Next(i, f[i - 1])]
           F == [x \in (1..n) \X AllWalks |-> Next(x[1], x[2])]
           walked == CHOOSE f : Is(f)
           Good == {i \in 0..n : IsWalk(walked[i])}
<1>1. n \in Nat
  OBVIOUS
<1>2. ASSUME NEW i \in 1..n, NEW v, IsWalk(v) PROVE IsWalk(Next(i, v))
  BY <1>2, TickType
<1>3. Walk(amount, 0) \in AllWalks
  BY WalkIs, WalksAre
<1>4. w = walked[n]
  BY DEF clmmSwapExactIn
<1> HIDE DEF Next, n
<1>5. Stepping(F, n, AllWalks)
  BY <1>2, WalksAre DEF Stepping
<1>6. \E f : Is(f)
  <2> DEFINE first == Walk(amount, 0)
  <2>1. \A i \in 1..n, v \in AllWalks : F[<<i, v>>] = Next(i, v)
    OBVIOUS
  <2> HIDE DEF F, first
  <2>2. PICK f : Recursion(f, n, AllWalks, first, F)
    <3>1. first \in AllWalks
      BY <1>3 DEF first
    <3> QED BY <1>1, <1>5, <3>1, Recursive
  <2>3. \A i \in 1..n : f[i] = Next(i, f[i - 1])
    <3>1. \A i \in 1..n : i - 1 \in 0..n
      BY <1>1
    <3> QED BY <2>1, <2>2, <3>1 DEF Recursion
  <2> QED BY <1>1, <2>2, <2>3 DEF first, Recursion
<1>7. Is(walked)
  <2> HIDE DEF Is
  <2> QED BY <1>6
<1> HIDE DEF walked, F
<1>8. 0 \in Good
  BY <1>1, <1>3, <1>7, WalksAre
<1>9. ASSUME NEW i \in 1..n, i - 1 \in Good PROVE i \in Good
  BY <1>1, <1>2, <1>7, <1>9
<1>10. n \in Good
  <2> HIDE DEF Good
  <2> QED BY SMTT(30), <1>1, <1>8, <1>9, UpTo
<1> QED BY <1>4, <1>10

\* A tier takes no more than there is.
LEMMA TierType ==
    ASSUME NEW bin \in Bins, NEW w, IsWalk(w), NEW tier \in Nat
    PROVE  IsWalk(TakeTier(bin, w, tier)) /\ TakeTier(bin, w, tier).left <= w.left
<1> DEFINE c == tier * bin.den
           needed == CeilDiv(c, bin.num)
           p == w.left * bin.num
           v == TakeTier(bin, w, tier)
<1>1. bin.num \in Nat /\ bin.num > 0 /\ bin.den \in Nat /\ bin.den > 0 /\ w.left \in Nat /\ w.out \in Nat
  BY DEF Bins, IsWalk
<1>2. c \in Nat /\ p \in Nat
  BY <1>1
<1>3. needed \in Nat
  <2> HIDE DEF c
  <2> QED BY <1>1, <1>2, Covers
<1>4. p \div bin.den \in Nat
  <2> HIDE DEF p
  <2> QED BY <1>1, <1>2, Floor
<1>5. v = IF tier = 0 \/ w.left = 0 THEN w
          ELSE IF w.left >= needed THEN Walk(w.left - needed, w.out + tier)
          ELSE Walk(0, w.out + p \div bin.den)
  BY DEF TakeTier
<1> DEFINE q == p \div bin.den
<1> HIDE DEF needed, p, v
<1>6. CASE v = w
  BY <1>1, <1>6 DEF v
<1>7. CASE w.left >= needed /\ v = Walk(w.left - needed, w.out + tier)
  <2> DEFINE a == w.left - needed  b == w.out + tier
  <2>1. a \in Nat /\ b \in Nat /\ a <= w.left
    BY <1>1, <1>3, <1>7
  <2>2. v = Walk(a, b)
    BY <1>7
  <2> HIDE DEF a, b
  <2>3. IsWalk(v) /\ v.left = a
    BY <2>1, <2>2, WalkIs DEF Walk
  <2> QED BY <2>1, <2>3 DEF v
<1>8. CASE v = Walk(0, w.out + q)
  <2> DEFINE b == w.out + q
  <2>1. b \in Nat
    BY <1>1, <1>4
  <2>2. v = Walk(0, b)
    BY <1>8
  <2> HIDE DEF b
  <2>3. IsWalk(v) /\ v.left = 0
    BY <2>1, <2>2, WalkIs DEF Walk
  <2> QED BY <1>1, <2>3 DEF v
<1> QED BY <1>5, <1>6, <1>7, <1>8

\* So do all of a bin's tiers.
LEMMA TiersType ==
    ASSUME NEW bin \in Bins, NEW offered \in Nat
    PROVE  IsWalk(TakeTiers(bin, offered)) /\ TakeTiers(bin, offered).left <= offered
<1> DEFINE n == Len(bin.tiers)
           V == {w \in AllWalks : w.left <= offered}
           Next(i, v) == TakeTier(bin, v, bin.tiers[i])
           Is(f) == f = [i \in 0..n |-> IF i = 0 THEN Walk(offered, 0) ELSE Next(i, f[i - 1])]
           F == [x \in (1..n) \X V |-> Next(x[1], x[2])]
           taken == CHOOSE f : Is(f)
           Good == {i \in 0..n : taken[i] \in V}
<1>1. n \in Nat /\ \A i \in 1..n : bin.tiers[i] \in Nat
  BY DEF Bins
<1>2. ASSUME NEW i \in 1..n, NEW v \in V PROVE Next(i, v) \in V
  <2> HIDE DEF n
  <2>1. IsWalk(v) /\ bin.tiers[i] \in Nat
    BY <1>1, WalksAre
  <2>2. IsWalk(Next(i, v)) /\ Next(i, v).left <= v.left
    BY <2>1, TierType
  <2> HIDE DEF Next
  <2>3. Next(i, v) \in AllWalks /\ v.left <= offered /\ v.left \in Nat /\ Next(i, v).left \in Nat
    BY <2>1, <2>2, WalksAre DEF IsWalk
  <2> QED BY <2>2, <2>3
<1>3. Walk(offered, 0) \in V
  <2>1. Walk(offered, 0) \in AllWalks
    BY WalkIs, WalksAre
  <2>2. Walk(offered, 0).left = offered
    BY DEF Walk
  <2> QED BY <2>1, <2>2
<1>4. TakeTiers(bin, offered) = taken[n]
  BY DEF TakeTiers
<1>0. n \in Nat
  BY <1>1
<1> HIDE DEF Next, n, V
<1>5. Stepping(F, n, V)
  BY <1>2 DEF Stepping
<1>6. \E f : Is(f)
  <2> DEFINE first == Walk(offered, 0)
  <2>1. \A i \in 1..n, v \in V : F[<<i, v>>] = Next(i, v)
    OBVIOUS
  <2> HIDE DEF F, first
  <2>2. PICK f : Recursion(f, n, V, first, F)
    <3>1. first \in V
      BY <1>3 DEF first
    <3> QED BY <1>0, <1>5, <3>1, Recursive
  <2>3. \A i \in 1..n : f[i] = Next(i, f[i - 1])
    <3>1. \A i \in 1..n : i - 1 \in 0..n
      BY <1>0
    <3> QED BY <2>1, <2>2, <3>1 DEF Recursion
  <2> QED BY <1>0, <2>2, <2>3 DEF first, Recursion
<1>7. Is(taken)
  <2> HIDE DEF Is
  <2> QED BY <1>6
<1> HIDE DEF taken, F
<1>8. 0 \in Good
  BY <1>0, <1>3, <1>7
<1>9. ASSUME NEW i \in 1..n, i - 1 \in Good PROVE i \in Good
  BY <1>0, <1>2, <1>7, <1>9
<1>10. n \in Good
  <2> HIDE DEF Good
  <2> QED BY <1>0, <1>8, <1>9, UpTo
<1>11. taken[n] \in AllWalks /\ taken[n].left <= offered
  BY <1>10 DEF V
<1> QED BY <1>4, <1>11, WalksAre

\* And a bin.
LEMMA BinType ==
    ASSUME NEW bin \in Bins, NEW w, IsWalk(w), NEW onInput
    PROVE  IsWalk(CrossBin(bin, w, onInput))
<1> DEFINE charged == IF onInput THEN Share(w.left, bin.fee) ELSE 0
           offered == w.left - charged
           taken == TakeTiers(bin, offered)
           used == offered - taken.left
           left == IF taken.left = 0 THEN 0
                   ELSE w.left - (IF onInput THEN GrossOf(used, bin.fee) ELSE used)
           out == w.out + taken.out - (IF onInput THEN 0 ELSE Share(taken.out, bin.fee))
<1>1. bin.fee \in Fees /\ w.left \in Nat /\ w.out \in Nat
  BY DEF Bins, IsWalk
<1>2. CrossBin(bin, w, onInput) = Walk(left, out)
  BY DEF CrossBin
<1>3. Share(w.left, bin.fee) \in 0..w.left
  BY <1>1, ShareOf
<1>4. offered \in Nat /\ offered <= w.left
  BY <1>1, <1>3
<1>5. IsWalk(taken) /\ taken.left <= offered
  <2> HIDE DEF offered
  <2> QED BY <1>4, TiersType
<1>6. taken.left \in Nat /\ taken.out \in Nat
  <2> HIDE DEF taken
  <2> QED BY <1>5 DEF IsWalk
<1> HIDE DEF taken
<1>7. out \in Nat
  BY <1>1, <1>6, NetOut
<1>8. used \in Nat /\ used <= offered
  <2> HIDE DEF offered
  <2> QED BY <1>4, <1>5, <1>6
<1>9. ASSUME onInput PROVE GrossOf(used, bin.fee) \in Nat /\ GrossOf(used, bin.fee) <= w.left
  <2>1. offered = w.left - Share(w.left, bin.fee)
    BY <1>9
  <2> HIDE DEF used, offered
  <2>2. used * Bps <= w.left * (Bps - bin.fee)
    BY <1>1, <1>8, <2>1, FeeFitsRest
  <2> QED BY <1>1, <1>8, <2>2, FeeFits
<1>10. left \in Nat
  <2> HIDE DEF used, offered
  <2>1. used <= w.left
    BY <1>1, <1>4, <1>8
  <2> QED BY <1>1, <1>8, <1>9, <2>1
<1> HIDE DEF left, out
<1> QED BY <1>2, <1>7, <1>10, WalkIs

\* A swap through bins (dlmmSwapExactIn).
LEMMA DlmmType ==
    ASSUME NEW bins \in Seq(Bins), NEW onInput, NEW amount \in Nat,
           NEW w \in dlmmSwapExactIn(bins, onInput, amount)
    PROVE  IsWalk(w)
<1> DEFINE n == Len(bins)
           Next(i, v) == IF v.left = 0 \/ IsEmpty(bins[i]) THEN v ELSE CrossBin(bins[i], v, onInput)
           Is(f) == f = [i \in 0..n |-> IF i = 0 THEN Walk(amount, 0) ELSE Next(i, f[i - 1])]
           F == [x \in (1..n) \X AllWalks |-> Next(x[1], x[2])]
           walked == CHOOSE f : Is(f)
           Good == {i \in 0..n : IsWalk(walked[i])}
<1>1. n \in Nat
  OBVIOUS
<1>2. ASSUME NEW i \in 1..n, NEW v, IsWalk(v) PROVE IsWalk(Next(i, v))
  BY <1>2, BinType
<1>3. Walk(amount, 0) \in AllWalks
  BY WalkIs, WalksAre
<1>4. w = walked[n]
  BY DEF dlmmSwapExactIn
<1> HIDE DEF Next, n
<1>5. Stepping(F, n, AllWalks)
  BY <1>2, WalksAre DEF Stepping
<1>6. \E f : Is(f)
  <2> DEFINE first == Walk(amount, 0)
  <2>1. \A i \in 1..n, v \in AllWalks : F[<<i, v>>] = Next(i, v)
    OBVIOUS
  <2> HIDE DEF F, first
  <2>2. PICK f : Recursion(f, n, AllWalks, first, F)
    <3>1. first \in AllWalks
      BY <1>3 DEF first
    <3> QED BY <1>1, <1>5, <3>1, Recursive
  <2>3. \A i \in 1..n : f[i] = Next(i, f[i - 1])
    <3>1. \A i \in 1..n : i - 1 \in 0..n
      BY <1>1
    <3> QED BY <2>1, <2>2, <3>1 DEF Recursion
  <2> QED BY <1>1, <2>2, <2>3 DEF first, Recursion
<1>7. Is(walked)
  <2> HIDE DEF Is
  <2> QED BY <1>6
<1> HIDE DEF walked, F
<1>8. 0 \in Good
  BY <1>1, <1>3, <1>7, WalksAre
<1>9. ASSUME NEW i \in 1..n, i - 1 \in Good PROVE i \in Good
  BY <1>1, <1>2, <1>7, <1>9
<1>10. n \in Good
  <2> HIDE DEF Good
  <2> QED BY SMTT(30), <1>1, <1>8, <1>9, UpTo
<1> QED BY <1>4, <1>10

-----------------------------------------------------------------------------
(* Quotes: an estimate is a number, and a minimum is one of those up to it. *)

\* Arrays in a row are one (Loaded).
LEMMA FlatType ==
    ASSUME NEW V, NEW seqs \in Seq(Seq(V))
    PROVE  FlattenSeq(seqs) \in Seq(V)
<1> DEFINE n == Len(seqs)
           Is(f) == f = [i \in 1..n |-> IF i = 1 THEN seqs[i] ELSE f[i - 1] \o seqs[i]]
           Full(g) == g = [i \in 0..n |-> IF i = 0 THEN <<>> ELSE g[i - 1] \o seqs[i]]
           F == [x \in (1..n) \X Seq(V) |-> x[2] \o seqs[x[1]]]
           flat == CHOOSE f : Is(f)
           Good == {i \in 0..n : i # 0 => flat[i] \in Seq(V)}
<1>1. n \in Nat /\ \A i \in 1..n : seqs[i] \in Seq(V)
  OBVIOUS
<1>2. CASE n = 0
  <2>1. seqs = <<>>
    BY <1>2
  <2>2. seqs \in Seq(V)
    BY <2>1
  <2> QED BY <1>2, <2>2 DEF FlattenSeq
<1>3. CASE n # 0
  <2>1. FlattenSeq(seqs) = flat[n]
    BY <1>3 DEF FlattenSeq
  <2> HIDE DEF n
  <2>2. \E f : Is(f)
    <3>1. Stepping(F, n, Seq(V))
      <4>1. ASSUME NEW x \in (1..n) \X Seq(V) PROVE x[2] \o seqs[x[1]] \in Seq(V)
        BY <1>1
      <4> QED BY <4>1 DEF Stepping
    <3>2. <<>> \in Seq(V)
      OBVIOUS
    <3> DEFINE none == <<>>
    <3>3. \A i \in 1..n, v \in Seq(V) : F[<<i, v>>] = v \o seqs[i]
      OBVIOUS
    <3> HIDE DEF F, none
    <3>4. PICK g : Recursion(g, n, Seq(V), none, F)
      BY <1>1, <3>1, <3>2, Recursive DEF none
    <3>5. g[0] = none /\ \A i \in 1..n : i - 1 \in 0..n /\ g[i - 1] \in Seq(V) /\ g[i] = g[i - 1] \o seqs[i]
      <4>1. \A i \in 1..n : i - 1 \in 0..n
        BY <1>1
      <4> QED BY <3>3, <3>4, <4>1 DEF Recursion
    <3> DEFINE f == [i \in 1..n |-> g[i]]
    <3>6. ASSUME NEW i \in 1..n PROVE f[i] = IF i = 1 THEN seqs[i] ELSE f[i - 1] \o seqs[i]
      <4>1. CASE i = 1
        <5>1. none \o seqs[1] = seqs[1]
          BY <1>1, <4>1 DEF none
        <5>2. f[i] = g[i - 1] \o seqs[i]
          BY <3>5
        <5>3. i - 1 = 0
          BY <4>1
        <5>4. f[i] = none \o seqs[1]
          BY <3>5, <4>1, <5>2, <5>3
        <5> QED BY <4>1, <5>1, <5>4
      <4>2. CASE i # 1
        <5>1. i - 1 \in 1..n
          BY <1>1, <4>2
        <5> QED BY <3>5, <4>2, <5>1
      <4> QED BY <4>1, <4>2
    <3>7. f = [i \in 1..n |-> f[i]]
      OBVIOUS
    <3> HIDE DEF f
    <3>8. Is(f)
      BY <3>6, <3>7
    <3> HIDE DEF Is
    <3> QED BY <3>8
  <2>3. Is(flat)
    <3> HIDE DEF Is
    <3> QED BY <2>2
  <2> HIDE DEF flat
  <2>4. \A i \in 1..n : flat[i] = IF i = 1 THEN seqs[i] ELSE flat[i - 1] \o seqs[i]
    BY <2>3
  <2>5. 0 \in Good
    BY <1>1
  <2>6. ASSUME NEW i \in 1..n, i - 1 \in Good PROVE i \in Good
    <3>0. i \in 0..n
      BY <1>1
    <3>1. CASE i = 1
      BY <1>1, <2>4, <3>0, <3>1
    <3>2. CASE i # 1
      <4>0. i - 1 # 0
        BY <3>2
      <4>1. flat[i - 1] \in Seq(V) /\ seqs[i] \in Seq(V)
        BY <1>1, <2>6, <4>0
      <4>2. flat[i - 1] \o seqs[i] \in Seq(V)
        BY <4>1
      <4>3. flat[i] \in Seq(V)
        BY <2>4, <3>2, <4>2
      <4> QED BY <3>0, <4>3
    <3> QED BY <3>1, <3>2
  <2>7. n \in Good
    <3>1. n \in Nat
      BY <1>1
    <3> HIDE DEF Good
    <3>2. \A i \in 0..n : i \in Good
      BY <2>5, <2>6, <3>1, UpTo
    <3> QED BY <3>1, <3>2
  <2> QED BY <1>3, <2>1, <2>7
<1> QED BY <1>2, <1>3

\* What is loaded from arrays of intervals is intervals.
LEMMA LoadedType ==
    ASSUME NEW V, NEW p, NEW buy \in BOOLEAN, p.arrays \in [BOOLEAN -> Seq(Seq(V))],
           NEW n \in DOMAIN p.arrays[buy]
    PROVE  Loaded(p, buy, n) \in Seq(V)
<1> DEFINE a == p.arrays[buy]
<1>1. a \in Seq(Seq(V))
  OBVIOUS
<1> HIDE DEF a
<1>2. SubSeq(a, 1, n) \in Seq(Seq(V))
  <2>1. n \in 1..Len(a)
    BY <1>1 DEF a
  <2>2. \A i \in 1..n : a[i] \in Seq(V)
    BY <1>1, <2>1
  <2> QED BY <1>1, <2>1, <2>2
<1> QED BY <1>2, FlatType DEF Loaded, a

\* Orca's swap through ticks is one without orders.
LEMMA WhirlpoolType ==
    ASSUME NEW ticks \in Seq(Ticks), NEW amount \in Nat, NEW w \in whirlpoolSwapExactIn(ticks, amount)
    PROVE  IsWalk(w)
<1>1. WithoutOrders(ticks) \in Seq(Ticks)
  <2>1. \A i \in DOMAIN ticks : [ticks[i] EXCEPT !.orders = 0] \in Ticks
    <3>1. \A t \in Ticks : [t EXCEPT !.orders = 0] \in Ticks
      BY DEF Ticks
    <3> QED BY <3>1
  <2>2. DOMAIN ticks = 1..Len(ticks) /\ Len(ticks) \in Nat
    OBVIOUS
  <2> QED BY <2>1, <2>2 DEF WithoutOrders
<1>2. w \in clmmSwapExactIn(WithoutOrders(ticks), TRUE, amount)
  BY DEF whirlpoolSwapExactIn
<1> QED BY <1>1, <1>2, ClmmType

\* What a quote promises: an estimate, and a minimum above nothing and up to it.
IsQuote(q) ==
    q = [used |-> q.used, est |-> q.est, min |-> q.min] /\ q.est \in Nat /\ q.min \in 1..q.est

\* Slippage is deducted from an output (ProtectedDown).
LEMMA Protected ==
    ASSUME NEW est \in Nat, NEW slip \in Fees
    PROVE  ProtectedDown(est, slip) \in 0..est /\ est - (est * slip) \div Bps \in 0..est
<1> DEFINE a == est * (Bps - slip)  b == est * slip
<1>1. a \in Nat /\ b \in Nat /\ a <= est * Bps /\ b <= est * Bps /\ Bps \in Nat /\ Bps > 0
  BY DEF Fees, Bps
<1>2. a \div Bps \in Nat /\ (a \div Bps) * Bps <= a /\ b \div Bps \in Nat /\ (b \div Bps) * Bps <= b
  <2> HIDE DEF a, b
  <2> QED BY <1>1, Floor
<1> HIDE DEF a, b
<1>3. a \div Bps <= est /\ b \div Bps <= est
  BY <1>1, <1>2 DEF Bps
<1> QED BY <1>2, <1>3 DEF ProtectedDown, a, b

\* A quote that is not refused.
LEMMA QuotedType ==
    ASSUME NEW used, NEW est \in Nat, NEW min \in 0..est, NEW q \in Quoted(used, est, min)
    PROVE  IsQuote(q)
<1>1. min # 0 /\ q = [used |-> used, est |-> est, min |-> min]
  BY DEF Quoted, Thrown
<1> QED BY <1>1 DEF IsQuote

\* The swap through as many arrays as it takes is one of those tried.
LEMMA ThroughType ==
    ASSUME NEW walks, DOMAIN walks \subseteq Nat, NEW budget, NEW amount, NEW slip \in Fees,
           \A n \in DOMAIN walks : \A w \in walks[n] : IsWalk(w),
           NEW q \in ThroughArrays(walks, slip, budget, amount)
    PROVE  IsQuote(q)
<1> DEFINE whole(n) == {walk \in walks[n] : walk.left = 0}
           enough == {n \in DOMAIN walks : n <= budget /\ whole(n) # Thrown}
           least == Min(enough)
<1>1. PICK w \in IF enough = {} THEN Thrown ELSE whole(least) :
          q \in Quoted(amount, w.out, ProtectedDown(w.out, slip))
  BY DEF ThroughArrays
<1>2. enough # {} /\ w \in whole(least)
  BY <1>1 DEF Thrown
<1>3. enough \in SUBSET Nat
  OBVIOUS
<1>4. least \in enough
  <2> HIDE DEF enough
  <2>1. PICK x \in enough : \A y \in enough : x <= y
    BY <1>2, <1>3, NatWellFounded
  <2> QED BY <2>1 DEF Min
<1> HIDE DEF least
<1>5. IsWalk(w)
  BY <1>2, <1>4
<1>6. w.out \in Nat
  BY <1>5 DEF IsWalk
<1>7. ProtectedDown(w.out, slip) \in 0..w.out
  BY <1>6, Protected
<1> QED BY <1>1, <1>6, <1>7, QuotedType

\* A funded pool pays a number (Swapped).
LEMMA SwappedType ==
    ASSUME NEW p, p.rb \in Nat \ {0}, p.rq \in Nat \ {0}, NEW buy, NEW net \in Nat
    PROVE  Swapped(p, buy, net) \in Nat
<1> DEFINE in == IF buy THEN p.rq ELSE p.rb
           out == IF buy THEN p.rb ELSE p.rq
           a == out * net
           b == in + net
<1>1. in \in Nat /\ in > 0 /\ out \in Nat
  OBVIOUS
<1> HIDE DEF in, out
<1>2. a \in Nat /\ b \in Nat /\ b > 0
  BY <1>1
<1>3. a \div b \in Nat
  <2> HIDE DEF a, b
  <2> QED BY <1>2, Floor
<1> QED BY <1>3 DEF Swapped, a, b, in, out

\* What is left of an output, or an input, after a fee on it.
LEMMA AfterFee ==
    ASSUME NEW n \in Nat, NEW fee \in Fees
    PROVE  n - CeilDiv(n * fee, Bps) \in Nat
<1>1. Share(n, fee) \in 0..n
  BY ShareOf
<1> QED BY <1>1 DEF Share

\* A pool of constant product is quoted numbers.
Product(p) == p.rb \in Nat \ {0} /\ p.rq \in Nat \ {0} /\ p.cap \in Nat /\ p.fee \in Fees

\* A quotient by the whole and a fee.
LEMMA BeforeFee ==
    ASSUME NEW n \in Nat, NEW fee \in Fees
    PROVE  (n * Bps) \div (Bps + fee) \in Nat
<1> DEFINE a == n * Bps  b == Bps + fee
<1>1. a \in Nat /\ b \in Nat /\ b > 0
  BY DEF Fees, Bps
<1> HIDE DEF a, b
<1>2. a \div b \in Nat
  BY <1>1, Floor
<1> QED BY <1>2 DEF a, b

\* PumpSwap.
LEMMA PumpSwapType ==
    ASSUME NEW p, Product(p), NEW buy, NEW amount \in Nat, NEW slip \in Fees,
           NEW q \in quoteCachedPumpSwap(p, buy, amount, slip)
    PROVE  IsQuote(q)
<1> DEFINE net == (amount * Bps) \div (Bps + p.fee)
           gross == Swapped(p, FALSE, amount)
           bought == Swapped(p, TRUE, net)
           sold == gross - CeilDiv(gross * p.fee, Bps)
           out == IF buy THEN bought ELSE sold
<1>1. p.rb \in Nat \ {0} /\ p.rq \in Nat \ {0} /\ p.fee \in Fees
  BY DEF Product
<1>2. q \in Quoted(amount, out, ProtectedDown(out, slip))
  BY DEF quoteCachedPumpSwap
<1>3. net \in Nat /\ gross \in Nat
  BY <1>1, BeforeFee, SwappedType
<1> HIDE DEF net, gross
<1>4. bought \in Nat /\ sold \in Nat
  BY <1>1, <1>3, SwappedType, AfterFee
<1> HIDE DEF bought, sold
<1>5. out \in Nat
  BY <1>4
<1> HIDE DEF out
<1>6. ProtectedDown(out, slip) \in 0..out
  BY <1>5, Protected
<1> QED BY <1>2, <1>5, <1>6, QuotedType

\* AMM v4 and CPMM.
LEMMA AmmV4Type ==
    ASSUME NEW p, Product(p), NEW buy, NEW amount \in Nat, NEW slip \in Fees,
           NEW q \in quoteCachedAmmV4ExactIn(p, buy, amount, slip)
    PROVE  IsQuote(q)
<1> DEFINE net == amount - CeilDiv(amount * p.fee, Bps)
           out == Swapped(p, buy, net)
<1>1. p.rb \in Nat \ {0} /\ p.rq \in Nat \ {0} /\ p.fee \in Fees
  BY DEF Product
<1>2. q \in Quoted(amount, out, ProtectedDown(out, slip))
  BY DEF quoteCachedAmmV4ExactIn
<1>3. net \in Nat
  BY <1>1, AfterFee
<1> HIDE DEF net
<1>4. out \in Nat
  BY <1>1, <1>3, SwappedType
<1> HIDE DEF out
<1>5. ProtectedDown(out, slip) \in 0..out
  BY <1>4, Protected
<1> QED BY <1>2, <1>4, <1>5, QuotedType

\* PumpFun's curve.
LEMMA PumpFunType ==
    ASSUME NEW p, Product(p), NEW buy, NEW amount \in Nat \ {0}, NEW slip \in Fees,
           NEW q \in quoteCachedPumpFunExactIn(p, buy, amount, slip)
    PROVE  IsQuote(q)
<1> DEFINE net == ((amount - 1) * Bps) \div (Bps + p.fee)
           bought == Swapped(p, TRUE, net)
           gross == Swapped(p, FALSE, amount)
           sold == gross - CeilDiv(gross * p.fee, Bps)
           out == IF buy THEN (IF bought > p.cap THEN p.cap ELSE bought) ELSE sold
<1>1. p.rb \in Nat \ {0} /\ p.rq \in Nat \ {0} /\ p.fee \in Fees /\ p.cap \in Nat
  BY DEF Product
<1>2. q \in Quoted(amount, out, ProtectedDown(out, slip))
  BY DEF quoteCachedPumpFunExactIn
<1>3. net \in Nat /\ gross \in Nat
  <2>1. amount - 1 \in Nat /\ amount \in Nat
    OBVIOUS
  <2> QED BY <1>1, <2>1, BeforeFee, SwappedType
<1> HIDE DEF net, gross
<1>4. bought \in Nat /\ sold \in Nat
  BY <1>1, <1>3, SwappedType, AfterFee
<1> HIDE DEF bought, sold
<1>5. out \in Nat
  BY <1>1, <1>4
<1> HIDE DEF out
<1>6. ProtectedDown(out, slip) \in 0..out
  BY <1>5, Protected
<1> QED BY <1>2, <1>5, <1>6, QuotedType

\* LaunchLab's curve.
LEMMA LaunchLabType ==
    ASSUME NEW p, Product(p), NEW buy, NEW amount \in Nat, NEW slip \in Fees,
           NEW q \in quoteLaunchLabExactIn(p, buy, amount, slip)
    PROVE  IsQuote(q)
<1> DEFINE net == amount - CeilDiv(amount * p.fee, Bps)
           out == Swapped(p, TRUE, net)
           capped == buy /\ p.cap > 0 /\ out > p.cap
           price == CeilDiv(CeilDiv(p.rq * p.cap, p.rb - p.cap) * Bps, Bps - p.fee)
           gross == Swapped(p, FALSE, amount)
           sold == gross - CeilDiv(gross * p.fee, Bps)
           received == IF capped THEN p.cap ELSE IF buy THEN out ELSE sold
           used == IF capped /\ price < amount THEN price ELSE amount
           min == received - (received * slip) \div Bps
<1>1. p.rb \in Nat \ {0} /\ p.rq \in Nat \ {0} /\ p.fee \in Fees /\ p.cap \in Nat
  BY DEF Product
<1>2. q \in Quoted(used, received, min)
  BY DEF quoteLaunchLabExactIn
<1> HIDE DEF used, capped
<1>3. net \in Nat /\ gross \in Nat
  BY <1>1, AfterFee, SwappedType
<1> HIDE DEF net, gross
<1>4. out \in Nat /\ sold \in Nat
  BY <1>1, <1>3, SwappedType, AfterFee
<1> HIDE DEF out, sold
<1>5. received \in Nat
  BY <1>1, <1>4
<1> HIDE DEF received
<1>6. min \in 0..received
  BY <1>5, Protected
<1> HIDE DEF min
<1> QED BY <1>2, <1>5, <1>6, QuotedType

\* The venues with arrays.
LEMMA ClmmQuote ==
    ASSUME NEW p, p.arrays \in [BOOLEAN -> Seq(Seq(Ticks))], NEW buy \in BOOLEAN,
           NEW amount \in Nat, NEW slip \in Fees, NEW q \in quoteCachedClmm(p, buy, amount, slip)
    PROVE  IsQuote(q)
<1> DEFINE onInput == buy \in p.feeOn
           D == DOMAIN p.arrays[buy]
           walks == [n \in D |-> clmmSwapExactIn(Loaded(p, buy, n), onInput, amount)]
<1>1. q \in ThroughArrays(walks, slip, MaxArrays, amount)
  BY DEF quoteCachedClmm
<1>2. D \subseteq Nat
  <2>1. p.arrays[buy] \in Seq(Seq(Ticks))
    OBVIOUS
  <2> QED BY <2>1
<1> HIDE DEF onInput
<1>3. ASSUME NEW n \in D, NEW w \in clmmSwapExactIn(Loaded(p, buy, n), onInput, amount) PROVE IsWalk(w)
  <2>1. Loaded(p, buy, n) \in Seq(Ticks)
    BY LoadedType
  <2> QED BY <1>3, <2>1, ClmmType
<1>4. DOMAIN walks = D /\ \A n \in D : \A w \in walks[n] : IsWalk(w)
  <2> HIDE DEF D
  <2> QED BY <1>3
<1> HIDE DEF walks, D
<1> QED BY <1>1, <1>2, <1>4, ThroughType

\* Orca.
LEMMA WhirlpoolQuote ==
    ASSUME NEW p, p.arrays \in [BOOLEAN -> Seq(Seq(Ticks))], NEW buy \in BOOLEAN,
           NEW amount \in Nat, NEW slip \in Fees, NEW q \in quoteCachedWhirlpool(p, buy, amount, slip)
    PROVE  IsQuote(q)
<1> DEFINE D == DOMAIN p.arrays[buy]
           walks == [n \in D |-> whirlpoolSwapExactIn(Loaded(p, buy, n), amount)]
<1>1. q \in ThroughArrays(walks, slip, Min({MaxArrays, 6}), amount)
  BY DEF quoteCachedWhirlpool
<1>2. D \subseteq Nat
  <2>1. p.arrays[buy] \in Seq(Seq(Ticks))
    OBVIOUS
  <2> QED BY <2>1
<1>3. ASSUME NEW n \in D, NEW w \in whirlpoolSwapExactIn(Loaded(p, buy, n), amount) PROVE IsWalk(w)
  <2>1. Loaded(p, buy, n) \in Seq(Ticks)
    BY LoadedType
  <2> QED BY <1>3, <2>1, WhirlpoolType
<1>4. DOMAIN walks = D /\ \A n \in D : \A w \in walks[n] : IsWalk(w)
  <2> HIDE DEF D
  <2> QED BY <1>3
<1> HIDE DEF walks, D
<1> QED BY <1>1, <1>2, <1>4, ThroughType

\* Meteora.
LEMMA DlmmQuote ==
    ASSUME NEW p, p.arrays \in [BOOLEAN -> Seq(Seq(Bins))], NEW buy \in BOOLEAN,
           NEW amount \in Nat, NEW slip \in Fees, NEW q \in quoteCachedDlmm(p, buy, amount, slip)
    PROVE  IsQuote(q)
<1> DEFINE onInput == buy \in p.feeOn
           D == DOMAIN p.arrays[buy]
           walks == [n \in D |-> dlmmSwapExactIn(Loaded(p, buy, n), onInput, amount)]
<1>1. q \in ThroughArrays(walks, slip, MaxArrays, amount)
  BY DEF quoteCachedDlmm
<1>2. D \subseteq Nat
  <2>1. p.arrays[buy] \in Seq(Seq(Bins))
    OBVIOUS
  <2> QED BY <2>1
<1> HIDE DEF onInput
<1>3. ASSUME NEW n \in D, NEW w \in dlmmSwapExactIn(Loaded(p, buy, n), onInput, amount) PROVE IsWalk(w)
  <2>1. Loaded(p, buy, n) \in Seq(Bins)
    BY LoadedType
  <2> QED BY <1>3, <2>1, DlmmType
<1>4. DOMAIN walks = D /\ \A n \in D : \A w \in walks[n] : IsWalk(w)
  <2> HIDE DEF D
  <2> QED BY <1>3
<1> HIDE DEF walks, D
<1> QED BY <1>1, <1>2, <1>4, ThroughType

\* Whatever the venue, what a decoded pool is quoted is a quote (prepareLeg).
LEMMA LegType ==
    ASSUME NEW h, h.pool \in Pools, NEW spend \in Nat, NEW slip \in Fees, NEW native,
           NEW q \in prepareLeg(h, spend, slip, native)
    PROVE  IsQuote(q)
<1> DEFINE p == PoolOf[h.pool]  buy == Buys(h)
<1>1. buy \in BOOLEAN
  BY DEF Buys
<1>2. q \in quoteVenue(p, buy, spend, slip) /\ spend \in Nat \ {0}
  BY DEF prepareLeg, Thrown
<1>3. Decoded(p)
  BY RoutesAssumption
<1> HIDE DEF p, buy
<1>4. p.venue \in Venues
  BY <1>3 DEF Decoded
<1>5. CASE p.venue = "Clmm"
  <2>1. p.arrays \in [BOOLEAN -> Seq(Seq(Ticks))] /\ q \in quoteCachedClmm(p, buy, spend, slip)
    BY <1>2, <1>3, <1>5 DEF Decoded, quoteVenue
  <2> QED BY <1>1, <2>1, ClmmQuote
<1>6. CASE p.venue = "Whirlpool"
  <2>1. p.arrays \in [BOOLEAN -> Seq(Seq(Ticks))] /\ q \in quoteCachedWhirlpool(p, buy, spend, slip)
    BY <1>2, <1>3, <1>6 DEF Decoded, quoteVenue
  <2> QED BY <1>1, <2>1, WhirlpoolQuote
<1>7. CASE p.venue = "Dlmm"
  <2>1. p.arrays \in [BOOLEAN -> Seq(Seq(Bins))] /\ q \in quoteCachedDlmm(p, buy, spend, slip)
    BY <1>2, <1>3, <1>7 DEF Decoded, quoteVenue
  <2> QED BY <1>1, <2>1, DlmmQuote
<1>8. CASE p.venue \in {"PumpSwap", "AmmV4", "PumpFun", "Cpmm", "LaunchLab"}
  <2>1. Product(p)
    BY <1>3, <1>8 DEF Decoded, Product
  <2>2. CASE p.venue = "PumpSwap"
    BY <1>2, <2>1, <2>2, PumpSwapType DEF quoteVenue
  <2>3. CASE p.venue = "AmmV4"
    BY <1>2, <2>1, <2>3, AmmV4Type DEF quoteVenue
  <2>4. CASE p.venue = "PumpFun"
    BY <1>2, <2>1, <2>4, PumpFunType DEF quoteVenue
  <2>5. CASE p.venue = "Cpmm"
    BY <1>2, <2>1, <2>5, AmmV4Type DEF quoteVenue, quoteCachedCpmmExactIn
  <2>6. CASE p.venue = "LaunchLab"
    BY <1>2, <2>1, <2>6, LaunchLabType DEF quoteVenue
  <2> QED BY <1>8, <2>2, <2>3, <2>4, <2>5, <2>6
<1> QED BY <1>4, <1>5, <1>6, <1>7, <1>8 DEF Venues

\* What the legs so far were quoted: each spends no more than the one before it must yield.
Quotes == {q \in [used : Nat, est : Nat, min : Nat] : q.min \in 1..q.est}
Funds(quotes, i, amount) == IF i = 1 THEN amount ELSE quotes[i - 1].min
IsPartial(route, amount) ==
    /\ route = [quotes |-> route.quotes, spend |-> route.spend]
    /\ route.quotes \in Seq(Quotes)
    /\ route.spend = Funds(route.quotes, Len(route.quotes) + 1, amount)
    /\ \A i \in 1..Len(route.quotes) : route.quotes[i].used \in 1..Funds(route.quotes, i, amount)
Partials(amount) ==
    {route \in [quotes : Seq(Quotes), spend : Nat] : IsPartial(route, amount)}

\* What is left to spend is a number.
LEMMA PartialIs ==
    ASSUME NEW amount \in Nat, NEW route
    PROVE  IsPartial(route, amount) <=> route \in Partials(amount)
<1>1. ASSUME IsPartial(route, amount) PROVE route.spend \in Nat
  <2> DEFINE n == Len(route.quotes)
  <2>1. route.quotes \in Seq(Quotes) /\ n \in Nat
    BY <1>1 DEF IsPartial
  <2>2. CASE n = 0
    BY <1>1, <2>2 DEF IsPartial, Funds
  <2>3. CASE n # 0
    <3>1. route.quotes[n] \in Quotes
      BY <2>1, <2>3
    <3>2. route.spend = route.quotes[n + 1 - 1].min /\ n + 1 - 1 = n
      BY <1>1, <2>1, <2>3 DEF IsPartial, Funds
    <3> QED BY <3>1, <3>2 DEF Quotes
  <2> QED BY <2>2, <2>3
<1>2. ASSUME IsPartial(route, amount) PROVE route \in [quotes : Seq(Quotes), spend : Nat]
  <2>1. route.quotes \in Seq(Quotes) /\ route = [quotes |-> route.quotes, spend |-> route.spend]
    BY <1>2 DEF IsPartial
  <2>2. route.spend \in Nat
    BY <1>1, <1>2
  <2> DEFINE Q == Seq(Quotes)
  <2> HIDE DEF Q
  <2> QED BY <2>1, <2>2 DEF Q
<1> QED BY <1>2 DEF Partials

\* One more leg (AddQuote).
LEMMA AddedQuote ==
    ASSUME NEW amount \in Nat, NEW route, IsPartial(route, amount), NEW h, h.pool \in Pools,
           NEW slip, NEW native, NEW limits, RequestIsValid(amount, slip, limits),
           NEW more \in AddQuote(route, h, slip, native, limits)
    PROVE  /\ IsPartial(more, amount) /\ Len(more.quotes) = Len(route.quotes) + 1
           /\ native \/ ~NativeQuote(h.pool)
<1> DEFINE bridge == limits # NoLimits /\ h.pool # limits.anchor
           mine == IF bridge THEN limits.slip ELSE slip
           leg(q) == q.used \in 1..route.spend /\ (bridge => BridgeHolds(h, q, route.spend, limits))
           Q == Seq(Quotes)
<1>1. PICK q \in prepareLeg(h, route.spend, mine, native) :
         leg(q) /\ more = [quotes |-> Append(route.quotes, q), spend |-> NextSpend(q)]
  BY DEF AddQuote
<1>2. route.spend \in Nat
  BY PartialIs DEF Partials
<1>3. mine \in Fees
  BY DEF RequestIsValid, Fees
<1> HIDE DEF mine
<1>4. IsQuote(q) /\ q.used \in 1..route.spend
  BY <1>1, <1>2, <1>3, LegType
<1>5. q \in Quotes
  BY <1>2, <1>4 DEF IsQuote, Quotes
<1> DEFINE n == Len(route.quotes)  all == more.quotes
<1>6. route.quotes \in Seq(Quotes) /\ n \in Nat
  BY DEF IsPartial
<1>7. more = [quotes |-> more.quotes, spend |-> more.spend] /\ all = Append(route.quotes, q) /\ more.spend = q.min
  BY <1>1 DEF NextSpend
<1>8. all \in Seq(Quotes) /\ Len(all) = n + 1 /\ all[n + 1] = q /\ \A i \in 1..n : all[i] = route.quotes[i]
  BY <1>5, <1>6, <1>7
<1>9. more.spend = Funds(all, Len(all) + 1, amount)
  BY <1>6, <1>7, <1>8 DEF Funds
<1>10. ASSUME NEW i \in 1..Len(all) PROVE all[i].used \in 1..Funds(all, i, amount)
  <2>1. Funds(all, i, amount) = Funds(route.quotes, i, amount)
    <3>1. i = 1 \/ i - 1 \in 1..n
      BY <1>6, <1>8
    <3> HIDE DEF n
    <3> QED BY <1>8, <3>1 DEF Funds
  <2>2. CASE i = n + 1
    <3>1. Funds(route.quotes, i, amount) = route.spend
      BY <2>2 DEF IsPartial
    <3> QED BY <1>4, <1>8, <2>1, <2>2, <3>1
  <2>3. CASE i # n + 1
    <3>1. i \in 1..n
      BY <1>6, <1>8, <2>3
    <3> QED BY <1>8, <2>1, <3>1 DEF IsPartial
  <2> QED BY <2>2, <2>3
<1> HIDE DEF all
<1>11. IsPartial(more, amount)
  BY <1>7, <1>8, <1>9, <1>10 DEF IsPartial, all
<1>12. native \/ ~NativeQuote(h.pool)
  BY <1>1 DEF prepareLeg, Thrown
<1> QED BY <1>8, <1>11, <1>12 DEF all

\* A route whose legs are quoted, each on what the one before it must yield.
Chained(r, hints, amount) ==
    \E q \in Partials(amount) :
       /\ Len(q.quotes) = Len(hints)
       /\ r.legs = [i \in 1..Len(hints) |-> Leg(hints[i], q.quotes[i])] /\ r.min = q.spend

\* None of these pools is a curve that is quoted in SOL.
NoCurves(hints, n) == \A i \in 1..n : ~NativeQuote(hints[i].pool)

\* So is every sequential route that is prepared over known pools.
LEMMA RouteIsPriced ==
    ASSUME NEW hints, NEW amount, NEW slip, NEW native, NEW limits,
           \A i \in 1..Len(hints) : hints[i].pool \in Pools,
           NEW r \in prepareCachedRoute(hints, amount, slip, native, limits)
    PROVE  Chained(r, hints, amount) /\ amount \in Nat \ {0} /\ (native \/ NoCurves(hints, Len(hints)))
<1> DEFINE n == Len(hints)
           start == [quotes |-> <<>>, spend |-> amount]
           V == SUBSET Partials(amount)
           Next(i, S) == UNION {AddQuote(p, hints[i], slip, native, limits) : p \in S}
           Is(f) == f = [i \in 0..n |-> IF i = 0 THEN {start} ELSE Next(i, f[i - 1])]
           F == [x \in (1..n) \X V |-> Next(x[1], x[2])]
           quoted == CHOOSE f : Is(f)
           Long(i) == {p \in Partials(amount) : Len(p.quotes) = i /\ (native \/ NoCurves(hints, i))}
           Good == {i \in 0..n : quoted[i] \subseteq Long(i)}
           made(p) == [legs |-> [i \in 1..n |-> Leg(hints[i], p.quotes[i])],
                       setup |-> <<hints[1].in>> \o [i \in 1..n |-> hints[i].out],
                       min |-> p.spend, official |-> FALSE,
                       residuals |-> [i \in 1..(n - 1) |-> p.quotes[i].est - p.quotes[i + 1].used]]
<1>1. /\ RequestIsValid(amount, slip, limits) /\ RouteIsValid(hints)
      /\ r \in {made(p) : p \in quoted[n]}
  BY DEF prepareCachedRoute, Thrown
<1>2. amount \in Nat \ {0} /\ n \in Nat
  BY <1>1 DEF RequestIsValid, RouteIsValid
<1> HIDE DEF n
<1>3. start \in Partials(amount) /\ Len(start.quotes) = 0
  <2>1. <<>> \in Seq(Quotes) /\ Len(<<>>) = 0
    OBVIOUS
  <2>2. start.quotes = <<>> /\ start.spend = amount
    OBVIOUS
  <2>3. IsPartial(start, amount)
    BY <2>1, <2>2 DEF IsPartial, Funds
  <2> HIDE DEF start
  <2> QED BY <1>2, <2>1, <2>2, <2>3, PartialIs
<1>4. ASSUME NEW i \in 1..n, NEW p \in Partials(amount), NEW m \in AddQuote(p, hints[i], slip, native, limits)
      PROVE  /\ m \in Partials(amount) /\ Len(m.quotes) = Len(p.quotes) + 1
             /\ native \/ ~NativeQuote(hints[i].pool)
  <2>1. IsPartial(p, amount)
    BY <1>2, PartialIs
  <2>2. hints[i].pool \in Pools
    BY DEF n
  <2>3. IsPartial(m, amount) /\ Len(m.quotes) = Len(p.quotes) + 1 /\ (native \/ ~NativeQuote(hints[i].pool))
    BY <1>1, <1>2, <2>1, <2>2, AddedQuote
  <2> QED BY <1>2, <2>3, PartialIs
<1>5. ASSUME NEW i \in 1..n, NEW S \in V PROVE Next(i, S) \in V
  BY <1>4
<1>6. {start} \in V
  BY <1>3
<1> HIDE DEF start
<1>7. \E f : Is(f)
  <2> HIDE DEF Next
  <2>1. Stepping(F, n, V)
    <3> HIDE DEF V
    <3> QED BY <1>5 DEF Stepping
  <2>2. \A i \in 1..n, S \in V : F[<<i, S>>] = Next(i, S)
    OBVIOUS
  <2> DEFINE first == {start}
  <2> HIDE DEF F, V, first
  <2>3. PICK f : Recursion(f, n, V, first, F)
    BY <1>2, <1>6, <2>1, Recursive DEF first
  <2>4. f \in [0..n -> V] /\ f[0] = first /\ \A i \in 1..n : i - 1 \in 0..n /\ f[i] = Next(i, f[i - 1])
    <3>1. \A i \in 1..n : i - 1 \in 0..n
      BY <1>2
    <3> QED BY <2>2, <2>3, <3>1 DEF Recursion
  <2>5. Is(f)
    BY <1>2, <2>4 DEF first
  <2> HIDE DEF Is
  <2> QED BY <2>5
<1>8. Is(quoted)
  <2> HIDE DEF Is
  <2> QED BY <1>7
<1> HIDE DEF quoted, F, made
<1>9. 0 \in Good
  <2>1. quoted[0] = {start}
    BY <1>2, <1>8
  <2>2. NoCurves(hints, 0)
    BY DEF NoCurves
  <2> QED BY <1>2, <1>3, <2>1, <2>2
<1>10. ASSUME NEW i \in 1..n, i - 1 \in Good PROVE i \in Good
  <2>1. quoted[i] = Next(i, quoted[i - 1])
    <3>1. i \in 0..n /\ i # 0
      BY <1>2
    <3> HIDE DEF Next
    <3> QED BY <1>8, <3>1
  <2>2. ASSUME NEW m \in Next(i, quoted[i - 1]) PROVE m \in Long(i)
    <3>1. PICK p \in quoted[i - 1] : m \in AddQuote(p, hints[i], slip, native, limits)
      OBVIOUS
    <3>2. p \in Partials(amount) /\ Len(p.quotes) = i - 1 /\ (native \/ NoCurves(hints, i - 1))
      BY <1>10
    <3>3. m \in Partials(amount) /\ Len(m.quotes) = (i - 1) + 1 /\ (native \/ ~NativeQuote(hints[i].pool))
      BY <1>4, <3>1, <3>2
    <3>4. \A j \in 1..i : j = i \/ j \in 1..(i - 1)
      OBVIOUS
    <3>5. native \/ NoCurves(hints, i)
      BY <3>2, <3>3, <3>4 DEF NoCurves
    <3> QED BY <3>3, <3>5
  <2>3. i \in 0..n
    BY <1>2
  <2> HIDE DEF Next
  <2> QED BY <2>1, <2>2, <2>3
<1>11. n \in Good
  <2>1. n \in Nat
    BY <1>2
  <2> HIDE DEF Good
  <2>2. \A i \in 0..n : i \in Good
    BY <1>9, <1>10, <2>1, UpTo
  <2> QED BY <2>1, <2>2
<1>12. PICK p \in quoted[n] : r = made(p)
  BY <1>1
<1>13. p \in Partials(amount) /\ Len(p.quotes) = n /\ (native \/ NoCurves(hints, n))
  BY <1>11, <1>12
<1>14. r.legs = [i \in 1..n |-> Leg(hints[i], p.quotes[i])] /\ r.min = p.spend
  BY <1>12 DEF made
<1> QED BY <1>2, <1>13, <1>14 DEF Chained, n

-----------------------------------------------------------------------------
(* What the instructions of a trade do to the wallet's accounts.           *)

Ops == {"ata", "createTemp", "closeTemp", "fundAta", "moveToTemp", "transfer", "nonceAdvance",
        "computeBudget", "swap"}

\* With a native endpoint an instruction leaves the wallet's own wrapped SOL account alone.
Spares(ix, native) ==
    /\ ix.op \in Ops
    /\ native => /\ ix.op \notin {"fundAta", "moveToTemp"}
                 /\ ix.op = "ata" => ix.mint # Wsol
                 /\ ix.op = "swap" => ix.from # Wsol /\ ix.to # Wsol

\* All of them do; and after each temporary account that is created there is a closing.
Sparing(s, native) == Sequence(s) /\ \A i \in 1..Len(s) : Spares(s[i], native)
Closing(s) ==
    \A i \in 1..Len(s) : s[i].op = "createTemp" => \E j \in (i + 1)..Len(s) : s[j].op = "closeTemp"
Clean(s, native) == Sparing(s, native) /\ Closing(s)

\* An instruction of its own.
LEMMA CleanOne ==
    ASSUME NEW ix, NEW native, Spares(ix, native)
    PROVE  Sparing(<<ix>>, native) /\ (ix.op # "createTemp" => Clean(<<ix>>, native))
<1>1. Len(<<ix>>) = 1 /\ <<ix>>[1] = ix /\ Sequence(<<ix>>)
  BY DEF Sequence
<1> QED BY <1>1 DEF Sparing, Closing, Clean

\* No instruction at all.
LEMMA CleanNone == ASSUME NEW native PROVE Clean(<<>>, native)
<1>1. Len(<<>>) = 0 /\ Sequence(<<>>)
  BY DEF Sequence
<1> QED BY <1>1 DEF Sparing, Closing, Clean

\* Sparing instructions one after the other.
LEMMA SparingJoin ==
    ASSUME NEW s, NEW t, NEW native, Sparing(s, native), Sparing(t, native)
    PROVE  Sparing(s \o t, native)
<1>1. Sequence(s) /\ Sequence(t)
  BY DEF Sparing
<1>2. ASSUME NEW i \in 1..Len(s \o t) PROVE Spares((s \o t)[i], native)
  <2>1. Len(s) \in Nat /\ Len(t) \in Nat
    BY <1>1 DEF Sequence
  <2>2. i \in 1..Len(s) \/ (i - Len(s) \in 1..Len(t) /\ i = Len(s) + (i - Len(s)))
    BY <1>1, <1>2, <2>1, Join
  <2>3. CASE i \in 1..Len(s)
    BY <1>1, <1>2, <2>3, Join DEF Sparing
  <2>4. CASE i - Len(s) \in 1..Len(t)
    <3>1. (s \o t)[Len(s) + (i - Len(s))] = t[i - Len(s)]
      BY <1>1, <2>4, Join
    <3>2. (s \o t)[i] = t[i - Len(s)]
      BY <2>1, <3>1
    <3> QED BY <1>2, <2>4, <3>2 DEF Sparing
  <2> QED BY <2>2, <2>3, <2>4
<1> QED BY <1>1, <1>2, Join DEF Sparing

\* Clean instructions one after the other.
LEMMA CleanJoin ==
    ASSUME NEW s, NEW t, NEW native, Clean(s, native), Clean(t, native)
    PROVE  Clean(s \o t, native)
<1>1. Sequence(s) /\ Sequence(t)
  BY DEF Clean, Sparing
<1>2. Len(s) \in Nat /\ Len(t) \in Nat /\ Len(s \o t) = Len(s) + Len(t)
  BY <1>1, Join DEF Sequence
<1>3. ASSUME NEW i \in 1..Len(s \o t), (s \o t)[i].op = "createTemp"
      PROVE  \E j \in (i + 1)..Len(s \o t) : (s \o t)[j].op = "closeTemp"
  <2>1. CASE i \in 1..Len(s)
    <3>1. s[i].op = "createTemp"
      BY <1>1, <1>3, <2>1, Join
    <3>2. PICK j \in (i + 1)..Len(s) : s[j].op = "closeTemp"
      BY <2>1, <3>1 DEF Clean, Closing
    <3>3. j \in 1..Len(s) /\ j \in (i + 1)..Len(s \o t)
      BY <1>2, <2>1
    <3>4. (s \o t)[j] = s[j]
      BY <1>1, <3>3, Join
    <3> QED BY <3>2, <3>3, <3>4
  <2>2. CASE i - Len(s) \in 1..Len(t)
    <3>1. (s \o t)[Len(s) + (i - Len(s))] = t[i - Len(s)]
      BY <1>1, <2>2, Join
    <3>2. t[i - Len(s)].op = "createTemp"
      BY <1>2, <1>3, <3>1
    <3>3. PICK j \in (i - Len(s) + 1)..Len(t) : t[j].op = "closeTemp"
      BY <2>2, <3>2 DEF Clean, Closing
    <3>4. j \in 1..Len(t) /\ Len(s) + j \in (i + 1)..Len(s \o t)
      BY <1>2, <2>2
    <3>5. (s \o t)[Len(s) + j] = t[j]
      BY <1>1, <3>4, Join
    <3> QED BY <3>3, <3>4, <3>5
  <2> QED BY <1>2, <2>1, <2>2
<1> QED BY <1>3, SparingJoin DEF Clean, Closing

\* A closing at the end closes everything.
LEMMA CloseLast ==
    ASSUME NEW s, NEW native, Sparing(s, native)
    PROVE  Clean(s \o <<CloseTemp>>, native)
<1> DEFINE t == s \o <<CloseTemp>>
<1>1. Spares(CloseTemp, native) /\ CloseTemp.op = "closeTemp"
  BY DEF Spares, CloseTemp, Ops
<1>2. Sparing(<<CloseTemp>>, native) /\ Sequence(s) /\ Sequence(<<CloseTemp>>) /\ Len(<<CloseTemp>>) = 1
  BY <1>1, CleanOne DEF Sparing
<1>3. Sparing(t, native) /\ Len(s) \in Nat /\ Len(t) = Len(s) + 1
  BY <1>2, SparingJoin, Join DEF Sequence
<1>4. t[Len(s) + 1] = <<CloseTemp>>[1]
  BY <1>2, Join
<1> HIDE DEF t
<1>5. t[Len(t)].op = "closeTemp"
  BY <1>1, <1>3, <1>4
<1>6. ASSUME NEW i \in 1..Len(t), t[i].op = "createTemp" PROVE Len(t) \in (i + 1)..Len(t)
  BY <1>3, <1>5, <1>6
<1>7. Closing(t)
  BY <1>5, <1>6 DEF Closing
<1> QED BY <1>3, <1>7 DEF Clean, t

-----------------------------------------------------------------------------
(* Settlement: every transaction is clean.                                 *)

\* Creations of associated accounts.
Creating(s) == Sequence(s) /\ \A i \in 1..Len(s) : s[i] = Ata(s[i].mint)

\* What Keep leaves are creations, of none the wrapped SOL account; and no other is dropped.
LEMMA KeepIs ==
    ASSUME NEW ixs, Creating(ixs)
    PROVE  /\ Creating(Keep(ixs))
           /\ \A i \in 1..Len(Keep(ixs)) :
                 \E j \in 1..Len(ixs) : Keep(ixs)[i] = ixs[j] /\ ixs[j] # Ata(Wsol)
           /\ \A j \in 1..Len(ixs) :
                 ixs[j] # Ata(Wsol) => \E i \in 1..Len(Keep(ixs)) : Keep(ixs)[i] = ixs[j]
<1> DEFINE n == Len(ixs)
           Step(f, i) == IF i = 0 THEN <<>>
                         ELSE IF ixs[i] = Ata(Wsol) THEN f[i - 1] ELSE Append(f[i - 1], ixs[i])
           Is(f, m) == f = [i \in 0..m |-> Step(f, i)]
           Defined == {m \in 0..n : \E f : Is(f, m)}
           kept == CHOOSE f : Is(f, n)
           Others == {ixs[i] : i \in 1..n} \ {Ata(Wsol)}
<1>0. n \in Nat
  BY DEF Creating, Sequence
<1>1. 0 \in Defined
  <2>1. Is([i \in 0..0 |-> <<>>], 0)
    OBVIOUS
  <2> HIDE DEF Is, n
  <2> QED BY <1>0, <2>1
<1>2. ASSUME NEW m \in 1..n, m - 1 \in Defined PROVE m \in Defined
  <2> HIDE DEF n
  <2>1. PICK f : Is(f, m - 1)
    BY <1>2
  <2> DEFINE g == [i \in 0..m |-> IF i = m THEN Step(f, m) ELSE f[i]]
  <2>2. (\A i \in 0..(m - 1) : g[i] = f[i]) /\ g[m] = Step(f, m)
    BY <1>0
  <2>3. \A i \in 0..m : g[i] = Step(g, i)
    <3> SUFFICES ASSUME NEW i \in 0..m PROVE g[i] = Step(g, i)
      OBVIOUS
    <3>1. CASE i = m
      <4>1. i # 0 /\ i - 1 = m - 1 /\ g[i - 1] = f[m - 1] /\ g[i] = Step(f, m)
        BY <3>1, <2>2, <1>0
      <4> HIDE DEF g
      <4> QED BY <4>1, <3>1
    <3>2. CASE i # m
      <4>1. i \in 0..(m - 1) /\ g[i] = f[i] /\ (i # 0 => g[i - 1] = f[i - 1])
        BY <3>2, <2>2, <1>0
      <4> HIDE DEF g
      <4> QED BY <4>1, <2>1
    <3> QED BY <3>1, <3>2
  <2>4. g = [i \in 0..m |-> g[i]]
    OBVIOUS
  <2>5. Is(g, m)
    <3> HIDE DEF g, Step
    <3> QED BY <2>3, <2>4
  <2> HIDE DEF Is, g
  <2> QED BY <2>5, <1>0
<1>3. n \in Defined
  <2> HIDE DEF Defined, n
  <2> QED BY <1>0, <1>1, <1>2, UpTo
<1>4. Is(kept, n)
  <2>1. \E f : Is(f, n)
    BY <1>3
  <2> HIDE DEF Is
  <2> QED BY <2>1
<1>5. Keep(ixs) = kept[n]
  BY DEF Keep
<1> DEFINE Holds(t, i) == \A j \in 1..i : ixs[j] # Ata(Wsol) => \E k \in 1..Len(t) : t[k] = ixs[j]
<1>6. kept[n] \in Seq(Others) /\ Holds(kept[n], n)
  <2> DEFINE Good == {i \in 0..n : kept[i] \in Seq(Others) /\ Holds(kept[i], i)}
  <2> HIDE DEF kept, Others, n
  <2>1. 0 \in Good
    BY <1>0, <1>4
  <2>2. ASSUME NEW i \in 1..n, i - 1 \in Good PROVE i \in Good
    <3> DEFINE s == kept[i - 1]  t == kept[i]
    <3>1. s \in Seq(Others) /\ Holds(s, i - 1) /\ i # 0 /\ i \in 0..n
      BY <1>0, <2>2
    <3>2. t = Step(kept, i)
      <4> HIDE DEF Step
      <4> QED BY <1>4, <3>1
    <3>3. CASE ixs[i] = Ata(Wsol)
      <4>1. t = s
        BY <3>1, <3>2, <3>3
      <4> HIDE DEF s, t
      <4>2. \A j \in 1..i : j = i \/ j \in 1..(i - 1)
        OBVIOUS
      <4>3. Holds(t, i)
        BY <3>1, <3>3, <4>1, <4>2
      <4> QED BY <3>1, <4>1, <4>3 DEF t
    <3>4. CASE ixs[i] # Ata(Wsol)
      <4>1. ixs[i] \in Others
        BY <3>4 DEF Others, n
      <4>2. t = Append(s, ixs[i])
        BY <3>1, <3>2, <3>4
      <4> HIDE DEF s, t
      <4>3. /\ t \in Seq(Others) /\ Len(s) \in Nat /\ Len(t) = Len(s) + 1 /\ t[Len(t)] = ixs[i]
            /\ \A k \in 1..Len(s) : t[k] = s[k]
        BY <3>1, <4>1, <4>2
      <4>4. \A j \in 1..i : j = i \/ j \in 1..(i - 1)
        OBVIOUS
      <4>5. Holds(t, i)
        BY <3>1, <4>3, <4>4
      <4> QED BY <3>1, <4>3, <4>5 DEF t
    <3> QED BY <3>3, <3>4
  <2>3. n \in Good
    <3> HIDE DEF Good
    <3> QED BY <1>0, <2>1, <2>2, UpTo
  <2> QED BY <2>3
<1> DEFINE s == Keep(ixs)
<1>7. Sequence(s) /\ \A i \in 1..Len(s) : s[i] \in Others
  <2> HIDE DEF kept, Others, n
  <2>1. s \in Seq(Others)
    BY <1>5, <1>6
  <2> HIDE DEF s
  <2> QED BY <2>1, SeqIsSequence
<1>8. Holds(s, n)
  BY <1>5, <1>6
<1> HIDE DEF s
<1>9. \A i \in 1..Len(s) : \E j \in 1..n : s[i] = ixs[j] /\ ixs[j] # Ata(Wsol)
  BY <1>7
<1>10. Creating(s)
  BY <1>7, <1>9 DEF Creating
<1> QED BY <1>8, <1>9, <1>10 DEF s

\* So what it leaves is clean.
LEMMA Kept ==
    ASSUME NEW ixs, Creating(ixs), NEW native
    PROVE  Clean(Keep(ixs), native)
<1> DEFINE s == Keep(ixs)
<1>1. /\ Creating(s)
      /\ \A i \in 1..Len(s) : \E j \in 1..Len(ixs) : s[i] = ixs[j] /\ ixs[j] # Ata(Wsol)
  BY KeepIs
<1> HIDE DEF s
<1>2. \A i \in 1..Len(s) : Spares(s[i], native) /\ s[i].op = "ata"
  <2> SUFFICES ASSUME NEW i \in 1..Len(s) PROVE Spares(s[i], native) /\ s[i].op = "ata"
    OBVIOUS
  <2>1. s[i] # Ata(Wsol) /\ s[i] = Ata(s[i].mint)
    BY <1>1 DEF Creating
  <2> QED BY <2>1 DEF Ata, Spares, Ops
<1>3. Clean(s, native)
  BY <1>1, <1>2 DEF Creating, Clean, Sparing, Closing
<1> QED BY <1>3 DEF s

\* Creations are clean as they are where no endpoint is native.
LEMMA CreatingIsClean == ASSUME NEW s, Creating(s) PROVE Clean(s, FALSE)
<1>1. ASSUME NEW i \in 1..Len(s) PROVE s[i].op = "ata"
  <2>1. s[i] = Ata(s[i].mint)
    BY DEF Creating
  <2>2. \A x : Ata(x).op = "ata"
    BY DEF Ata
  <2> QED BY <2>1, <2>2
<1> QED BY <1>1 DEF Creating, Clean, Sparing, Closing, Spares, Ops

-----------------------------------------------------------------------------
\* What a settlement returns.
Settled(s, native) ==
    s = [instructions |-> s.instructions, required |-> s.required] /\ Clean(s.instructions, native)

\* A route's legs and the assets to set up, whatever they are.
Shape(r) == Sequence(r.setup) /\ Sequence(r.legs)

\* The setup of a route creates accounts.
LEMMA SetupCreates == ASSUME NEW r, Shape(r) PROVE Creating(Setup(r))
<1> DEFINE s == Setup(r)
<1>1. DOMAIN r.setup = 1..Len(r.setup) /\ Len(r.setup) \in Nat
  BY DEF Shape, Sequence
<1>2. s = [i \in 1..Len(r.setup) |-> Ata(r.setup[i])]
  BY <1>1 DEF Setup
<1>3. Len(s) = Len(r.setup) /\ Sequence(s) /\ \A i \in 1..Len(s) : s[i] = Ata(r.setup[i])
  BY <1>1, <1>2 DEF Sequence
<1> HIDE DEF s
<1>4. \A x : Ata(x) = Ata(Ata(x).mint)
  BY DEF Ata
<1>5. Creating(s)
  BY <1>3, <1>4 DEF Creating
<1> QED BY <1>5 DEF s

\* The swaps of a route, through a temporary account or not.
LEMMA SwapsAreClean ==
    ASSUME NEW r, Shape(r)
    PROVE  /\ Clean(Swaps(r), FALSE)
           /\ \A i \in 1..Len(Swaps(r)) : Swaps(r)[i].op = "swap"
           /\ Clean([i \in DOMAIN r.legs |-> ToTemporary(Swap(r.legs[i]))], TRUE)
<1> DEFINE n == Len(r.legs)
           t == [i \in DOMAIN r.legs |-> ToTemporary(Swap(r.legs[i]))]
           u == [i \in DOMAIN r.legs |-> Swap(r.legs[i])]
<1>1. DOMAIN r.legs = 1..n /\ n \in Nat
  BY DEF Shape, Sequence
<1>2. /\ Len(t) = n /\ Sequence(t) /\ \A i \in 1..n : t[i] = ToTemporary(Swap(r.legs[i]))
      /\ Len(u) = n /\ Sequence(u) /\ \A i \in 1..n : u[i] = Swap(r.legs[i])
  BY <1>1 DEF Sequence
<1>3. Wsol # "temp"
  BY RoutesAssumption, TradeAssumption
<1>4. ASSUME NEW i \in 1..n PROVE Spares(t[i], TRUE) /\ Spares(u[i], FALSE) /\ t[i].op = "swap" /\ u[i].op = "swap"
  <2>1. \A leg : Swap(leg) = [op |-> "swap", amount |-> leg.used, min |-> leg.min, est |-> leg.est,
                              from |-> Swap(leg).from, to |-> Swap(leg).to]
    BY DEF Swap
  <2> DEFINE ix == Swap(r.legs[i])
  <2>2. ix = [op |-> "swap", amount |-> ix.amount, min |-> ix.min, est |-> ix.est,
              from |-> ix.from, to |-> ix.to]
    BY <2>1
  <2> HIDE DEF ix
  <2>3. /\ ToTemporary(ix).op = "swap"
        /\ ToTemporary(ix).from = IF ix.from = Wsol THEN "temp" ELSE ix.from
        /\ ToTemporary(ix).to = IF ix.to = Wsol THEN "temp" ELSE ix.to
    BY <2>2 DEF ToTemporary
  <2>4. t[i] = ToTemporary(ix) /\ u[i] = ix
    BY <1>2 DEF ix
  <2> QED BY <1>3, <2>2, <2>3, <2>4 DEF Spares, Ops
<1> HIDE DEF t, u, n
<1>5. Clean(t, TRUE) /\ Clean(u, FALSE)
  BY <1>2, <1>4 DEF Clean, Sparing, Closing
<1>6. Clean(<<Official(r)>>, FALSE) /\ <<Official(r)>>[1].op = "swap" /\ Len(<<Official(r)>>) = 1
  <2>1. Official(r).op = "swap"
    BY DEF Official
  <2>2. Spares(Official(r), FALSE)
    BY <2>1 DEF Spares, Ops
  <2> QED BY <2>1, <2>2, CleanOne
<1>7. Swaps(r) = IF r.official THEN <<Official(r)>> ELSE u
  BY DEF Swaps, u
<1> DEFINE o == <<Official(r)>>
           v == Swaps(r)
<1>8. \A i \in 1..Len(v) : v[i].op = "swap"
  <2>1. \A i \in 1..Len(u) : u[i].op = "swap"
    BY <1>2, <1>4
  <2>2. \A i \in 1..Len(o) : o[i].op = "swap"
    BY <1>6
  <2>3. v = o \/ v = u
    BY <1>7
  <2> HIDE DEF o, v
  <2> QED BY <2>1, <2>2, <2>3
<1> QED BY <1>5, <1>6, <1>7, <1>8 DEF t

\* A route through a temporary account is clean.
LEMMA NativeSettled ==
    ASSUME NEW r, Shape(r), NEW a, NEW b, NEW s \in settleCachedRouteWithNativeSol(r, a, b)
    PROVE  Settled(s, TRUE)
<1> DEFINE deposit == Rent + (IF a THEN r.legs[1].used ELSE 0)
           swaps == [i \in DOMAIN r.legs |-> ToTemporary(Swap(r.legs[i]))]
           kept == Keep(Setup(r))
           refused == a = b \/ r.official \/ NativeEndpoint(r, a) # Wsol
           ixs == <<CreateTemp(deposit)>> \o kept \o swaps \o <<CloseTemp>>
<1>1. s = [instructions |-> ixs, required |-> deposit]
  <2>1. s \in IF refused THEN {} ELSE {[instructions |-> ixs, required |-> deposit]}
    BY DEF settleCachedRouteWithNativeSol, Thrown
  <2> HIDE DEF refused, ixs
  <2> QED BY <2>1
<1>2. Sparing(<<CreateTemp(deposit)>>, TRUE)
  BY CleanOne DEF CreateTemp, Spares, Ops
<1>3. Sparing(kept, TRUE)
  BY SetupCreates, Kept DEF Clean
<1>4. Sparing(swaps, TRUE)
  BY SwapsAreClean DEF Clean
<1>5. Clean(ixs, TRUE)
  <2> HIDE DEF deposit, swaps, kept
  <2>1. Sparing(<<CreateTemp(deposit)>> \o kept \o swaps, TRUE)
    BY <1>2, <1>3, <1>4, SparingJoin
  <2> QED BY <2>1, CloseLast
<1> HIDE DEF deposit, ixs
<1> QED BY <1>1, <1>5 DEF Settled

\* What settles a single PumpFun leg is clean: with a native endpoint the curve itself
\* pays or takes the lamports.
LEMMA LegSettled ==
    ASSUME NEW leg, NEW creations, Creating(creations), NEW a, NEW b,
           a \/ b => NativeQuote(leg.hint.pool) /\ leg.hint.out # leg.hint.in,
           NEW s \in SettleLeg(leg, creations, a, b)
    PROVE  Settled(s, a \/ b)
<1> DEFINE buy == leg.hint.in = Wsol
           ixs == CASE a \/ b -> Keep(creations) \o <<Swap(leg)>>
                    [] ~buy /\ ~b -> creations \o <<Swap(leg), FundAta(leg.min)>>
                    [] buy /\ ~a -> <<CreateTemp(Rent), MoveToTemp(leg.used), CloseTemp>>
                                       \o Keep(creations) \o <<Swap(leg)>>
           deposit == CASE a -> leg.used [] buy /\ ~a -> Rent [] OTHER -> 0
<1>1. ~(buy /\ b) /\ ~(~buy /\ a) /\ s = [instructions |-> ixs, required |-> deposit]
  <2>1. s \in IF (buy /\ b) \/ (~buy /\ a) THEN {} ELSE {[instructions |-> ixs, required |-> deposit]}
    BY DEF SettleLeg, Thrown
  <2> HIDE DEF buy, ixs, deposit
  <2> QED BY <2>1
<1>2. Swap(leg).op = "swap" /\ Clean(<<Swap(leg)>>, FALSE)
  <2>1. Swap(leg).op = "swap"
    BY DEF Swap
  <2>2. Spares(Swap(leg), FALSE)
    BY <2>1 DEF Spares, Ops
  <2> QED BY <2>1, <2>2, CleanOne
<1>3. ASSUME a \/ b PROVE Clean(ixs, a \/ b)
  <2>1. ixs = Keep(creations) \o <<Swap(leg)>>
    BY <1>1, <1>3
  <2>2. Wsol # "lamports" /\ PoolOf[leg.hint.pool].quote = Wsol
    BY <1>3, RoutesAssumption, TradeAssumption DEF NativeQuote
  <2>3. Swap(leg).from # Wsol /\ Swap(leg).to # Wsol
    BY <1>1, <1>3, <2>2 DEF Swap, Buys
  <2>4. Clean(<<Swap(leg)>>, TRUE)
    BY <1>2, <2>3, CleanOne DEF Spares, Ops
  <2>5. Clean(Keep(creations) \o <<Swap(leg)>>, TRUE)
    BY <2>4, Kept, CleanJoin
  <2> QED BY <1>3, <2>1, <2>5
<1>4. ASSUME ~(a \/ b), ~buy PROVE Clean(ixs, a \/ b)
  <2>1. ixs = creations \o <<Swap(leg), FundAta(leg.min)>>
    BY <1>1, <1>4
  <2>2. Clean(<<Swap(leg), FundAta(leg.min)>>, FALSE)
    <3> DEFINE t == <<Swap(leg), FundAta(leg.min)>>
    <3>1. Sequence(t) /\ Len(t) = 2 /\ t[1] = Swap(leg) /\ t[2] = FundAta(leg.min)
      BY DEF Sequence
    <3> HIDE DEF t
    <3>2. Clean(t, FALSE)
      BY <1>2, <3>1 DEF Clean, Sparing, Closing, FundAta, Spares, Ops
    <3> QED BY <3>2 DEF t
  <2>3. Clean(creations \o <<Swap(leg), FundAta(leg.min)>>, FALSE)
    BY <2>2, CreatingIsClean, CleanJoin
  <2> QED BY <1>4, <2>1, <2>3
<1>5. ASSUME ~(a \/ b), buy PROVE Clean(ixs, a \/ b)
  <2> DEFINE t == <<CreateTemp(Rent), MoveToTemp(leg.used), CloseTemp>>
  <2>1. ixs = t \o Keep(creations) \o <<Swap(leg)>>
    BY <1>1, <1>5
  <2>2. /\ Sequence(t) /\ Len(t) = 3
        /\ t[1] = CreateTemp(Rent) /\ t[2] = MoveToTemp(leg.used) /\ t[3] = CloseTemp
    BY DEF Sequence
  <2> HIDE DEF t
  <2>3. \A i \in 1..3 : t[i].op = "createTemp" => i = 1
    BY <2>2 DEF CreateTemp, MoveToTemp, CloseTemp
  <2>4. t[3].op = "closeTemp" /\ 3 \in 2..3
    BY <2>2 DEF CloseTemp
  <2>5. \A i \in 1..3 : Spares(t[i], FALSE)
    BY <2>2 DEF CreateTemp, MoveToTemp, CloseTemp, Spares, Ops
  <2>6. Clean(t, FALSE)
    <3>1. Closing(t)
      BY <2>2, <2>3, <2>4 DEF Closing
    <3> QED BY <2>2, <2>5, <3>1 DEF Clean, Sparing
  <2>7. Clean(t \o Keep(creations), FALSE)
    BY <2>6, Kept, CleanJoin
  <2>8. Clean(t \o Keep(creations) \o <<Swap(leg)>>, FALSE)
    BY <1>2, <2>7, CleanJoin
  <2> QED BY <1>5, <2>1, <2>8
<1> HIDE DEF ixs, deposit, buy
<1> QED BY <1>1, <1>3, <1>4, <1>5 DEF Settled

\* A stretch of the swaps of a route.
LEMMA SomeSwaps ==
    ASSUME NEW r, Shape(r), NEW i \in 1..(Len(Swaps(r)) + 1), NEW j \in (i - 1)..Len(Swaps(r))
    PROVE  Clean(SubSeq(Swaps(r), i, j), FALSE)
<1> DEFINE s == Swaps(r)
           V == {s[k] : k \in 1..Len(s)}
           t == SubSeq(s, i, j)
<1>1. s \in Seq(V) /\ Len(s) \in Nat
  <2>1. Sequence(s)
    BY SwapsAreClean DEF Clean, Sparing
  <2> HIDE DEF s
  <2> QED BY <2>1 DEF Sequence
<1>2. \A ix \in V : ix.op = "swap"
  BY SwapsAreClean
<1> HIDE DEF s, V
<1>3. t \in Seq(V)
  <2> i \in 1..(Len(s) + 1) /\ j \in (i - 1)..Len(s)
    BY DEF s
  <2> QED BY <1>1, SubSeqProperties
<1> HIDE DEF t
<1>4. Sequence(t) /\ \A k \in 1..Len(t) : t[k] \in V
  BY <1>3, SeqIsSequence
<1>5. Clean(t, FALSE)
  BY <1>2, <1>4 DEF Clean, Sparing, Closing, Spares, Ops
<1> QED BY <1>5 DEF t, s

\* settlePumpFunNativeQuote: one leg with or without a native endpoint, or one leg of
\* several without.
LEMMA PumpFunSettled ==
    ASSUME NEW r, Shape(r), ~r.official, NEW a, NEW b,
           Len(r.legs) = 1 => /\ NativeQuote(r.legs[1].hint.pool)
                              /\ r.legs[1].hint.out # r.legs[1].hint.in,
           NEW s \in settlePumpFunNativeQuote(r, a, b)
    PROVE  Settled(s, a \/ b)
<1> DEFINE n == Len(r.legs)
           k == CHOOSE k \in Anchors(r) : TRUE
           refused == a \/ b \/ Cardinality(Anchors(r)) # 1 \/ Anchors(r) \cap {1, n} = {}
           around(c) == IF k = n THEN Setup(r) \o SubSeq(Swaps(r), 1, n - 1) \o c.instructions
                                 ELSE Setup(r) \o c.instructions \o SubSeq(Swaps(r), 2, n)
           legs == {c \in SettleLeg(r.legs[k], <<>>, FALSE, FALSE) :
                      (IF k = n THEN r.legs[k].hint.in ELSE r.legs[k].hint.out) = Wsol}
<1>1. s \in IF n = 1 THEN SettleLeg(r.legs[1], Setup(r), a, b)
            ELSE IF refused THEN {} ELSE {[c EXCEPT !.instructions = around(c)] : c \in legs}
  BY DEF settlePumpFunNativeQuote, Thrown
<1>2. CASE n = 1
  <2>1. s \in SettleLeg(r.legs[1], Setup(r), a, b)
    BY <1>1, <1>2
  <2> QED BY <1>2, <2>1, SetupCreates, LegSettled
<1>3. CASE n # 1
  <2>1. ~a /\ ~b /\ \E c \in legs : s = [c EXCEPT !.instructions = around(c)]
    <3> HIDE DEF n, around, legs
    <3> QED BY <1>1, <1>3 DEF refused
  <2>2. PICK c \in legs : s = [c EXCEPT !.instructions = around(c)]
    BY <2>1
  <2>3. Creating(<<>>)
    BY DEF Creating, Sequence
  <2>4. Settled(c, FALSE)
    <3> HIDE DEF k, n
    <3> QED BY <2>3, LegSettled
  <2>5. Clean(Setup(r), FALSE)
    BY SetupCreates, CreatingIsClean
  <2>6. n \in Nat /\ Len(Swaps(r)) = n
    <3>1. Swaps(r) = [i \in DOMAIN r.legs |-> Swap(r.legs[i])] /\ DOMAIN r.legs = 1..n /\ n \in Nat
      BY DEF Swaps, Shape, Sequence
    <3> HIDE DEF n
    <3> QED BY <3>1
  <2>8. CASE n = 0
    <3>1. k \in {} \/ Anchors(r) = {}
      <4>1. DOMAIN r.legs = {}
        BY <2>6, <2>8 DEF Shape, Sequence
      <4> QED BY <4>1 DEF Anchors
    <3>2. Cardinality(Anchors(r)) # 1 \/ Anchors(r) \cap {1, n} = {}
      BY <3>1
    <3> QED BY <1>1, <1>3, <3>1
  <2>9. CASE n # 0
    <3>1. Clean(SubSeq(Swaps(r), 1, n - 1), FALSE) /\ Clean(SubSeq(Swaps(r), 2, n), FALSE)
      <4>1. /\ 1 \in 1..(n + 1) /\ n - 1 \in (1 - 1)..n
            /\ 2 \in 1..(n + 1) /\ n \in (2 - 1)..n
        BY <1>3, <2>6, <2>9
      <4> HIDE DEF n
      <4> QED BY <2>6, <4>1, SomeSwaps
    <3>2. Clean(around(c), FALSE)
      <4>1. Clean(c.instructions, FALSE)
        BY <2>4 DEF Settled
      <4>2. Clean(Setup(r) \o SubSeq(Swaps(r), 1, n - 1) \o c.instructions, FALSE)
        <5> HIDE DEF n
        <5> QED BY <2>5, <3>1, <4>1, CleanJoin
      <4>3. Clean(Setup(r) \o c.instructions \o SubSeq(Swaps(r), 2, n), FALSE)
        <5> HIDE DEF n
        <5> QED BY <2>5, <3>1, <4>1, CleanJoin
      <4> QED BY <4>2, <4>3
    <3> HIDE DEF around
    <3>3. Settled(s, FALSE)
      BY <2>2, <2>4, <3>2 DEF Settled
    <3> QED BY <2>1, <3>3
  <2> QED BY <2>8, <2>9
<1> QED BY <1>2, <1>3

-----------------------------------------------------------------------------
(* Routes and transactions.                                                *)

\* A sequential route has a leg for each hint, in their order.
Follows(r, hints) ==
    /\ RouteIsValid(hints) /\ Shape(r) /\ r.official = FALSE /\ Len(r.legs) = Len(hints)
    /\ \A i \in 1..Len(hints) : r.legs[i].hint = hints[i]
    /\ r.setup = <<hints[1].in>> \o [i \in 1..Len(hints) |-> hints[i].out]

\* Every route that is prepared does.
LEMMA RouteOfHints ==
    ASSUME NEW hints, NEW amount, NEW slip, NEW native, NEW limits,
           NEW r \in prepareCachedRoute(hints, amount, slip, native, limits)
    PROVE  Follows(r, hints)
<1> DEFINE n == Len(hints)
           route(q, res) == [legs |-> [i \in 1..n |-> Leg(hints[i], q.quotes[i])],
                             setup |-> <<hints[1].in>> \o [i \in 1..n |-> hints[i].out],
                             min |-> q.spend, official |-> FALSE, residuals |-> res]
<1>1. RouteIsValid(hints) /\ \E q, res : r = route(q, res)
  BY DEF prepareCachedRoute, Thrown
<1>2. PICK q, res : r = route(q, res)
  BY <1>1
<1>3. n \in 1..5
  BY <1>1 DEF RouteIsValid
<1> HIDE DEF n
<1>4. /\ r.legs = [i \in 1..n |-> Leg(hints[i], q.quotes[i])] /\ r.official = FALSE
      /\ r.setup = <<hints[1].in>> \o [i \in 1..n |-> hints[i].out]
  BY <1>2
<1>5. Sequence(r.legs) /\ Len(r.legs) = n
  BY <1>3, <1>4 DEF Sequence
<1>6. Sequence(r.setup)
  <2>1. Sequence(<<hints[1].in>>) /\ Sequence([i \in 1..n |-> hints[i].out])
    BY <1>3 DEF Sequence
  <2> QED BY <1>4, <2>1, Join
<1>7. \A i \in 1..n : r.legs[i].hint = hints[i]
  BY <1>4 DEF Leg
<1> QED BY <1>1, <1>4, <1>5, <1>6, <1>7 DEF n, Shape, Follows

\* The official route has its two endpoints, and no legs.
LEMMA OfficialRoute ==
    ASSUME NEW hints, NEW amount, NEW opts, NEW native,
           NEW r \in prepareOfficialPumpRoute(hints, amount, opts, native)
    PROVE  Shape(r) /\ r.official = TRUE
<1>1. r = [legs |-> <<>>, setup |-> <<hints[1].in, Last(hints).out>>, min |-> opts.minimum,
           official |-> TRUE, residuals |-> <<>>, spends |-> amount]
  BY DEF prepareOfficialPumpRoute
<1>2. r.legs = <<>> /\ r.setup = <<hints[1].in, Last(hints).out>> /\ r.official = TRUE
  BY <1>1
<1> QED BY <1>2 DEF Shape, Sequence

\* The instructions of a route whose endpoints are accounts.
LEMMA PlainSettled == ASSUME NEW r, Shape(r) PROVE Settled(Plain(r), FALSE)
<1>1. Clean(Setup(r) \o Swaps(r), FALSE)
  BY SetupCreates, CreatingIsClean, SwapsAreClean, CleanJoin
<1> QED BY <1>1 DEF Plain, Settled

\* Whichever way a trade is settled.
LEMMA RouteSettled ==
    ASSUME NEW t, NEW hints, NEW r, Shape(r), r.official \in BOOLEAN,
           ~r.official => /\ RouteIsValid(hints) /\ Len(r.legs) = Len(hints)
                          /\ \A i \in 1..Len(hints) : r.legs[i].hint = hints[i],
           NEW s \in SettleRoute(t, hints, r)
    PROVE  Settled(s, t.nativeInput \/ t.nativeOutput)
<1>1. CASE ~r.official /\ t.dex = "PumpFun" /\ NativeQuote(Anchor(t, hints).pool)
  <2>1. s \in settlePumpFunNativeQuote(r, t.nativeInput, t.nativeOutput)
    BY <1>1 DEF SettleRoute
  <2>2. ASSUME Len(r.legs) = 1
        PROVE  NativeQuote(r.legs[1].hint.pool) /\ r.legs[1].hint.out # r.legs[1].hint.in
    <3>1. Len(hints) = 1 /\ r.legs[1].hint = hints[1] /\ hints[1].out # hints[1].in
      BY <1>1, <2>2 DEF RouteIsValid
    <3>2. Anchor(t, hints) = hints[1]
      BY <3>1 DEF Anchor, Last
    <3> QED BY <1>1, <3>1, <3>2
  <2> QED BY <1>1, <2>1, <2>2, PumpFunSettled
<1>2. CASE /\ ~(~r.official /\ t.dex = "PumpFun" /\ NativeQuote(Anchor(t, hints).pool))
           /\ t.nativeInput \/ t.nativeOutput
  <2>1. s \in settleCachedRouteWithNativeSol(r, t.nativeInput, t.nativeOutput)
    BY <1>2 DEF SettleRoute
  <2>2. Settled(s, TRUE)
    BY <2>1, NativeSettled
  <2> QED BY <1>2, <2>2
<1>3. CASE /\ ~(~r.official /\ t.dex = "PumpFun" /\ NativeQuote(Anchor(t, hints).pool))
           /\ ~(t.nativeInput \/ t.nativeOutput)
  <2>1. s = Plain(r)
    BY <1>3 DEF SettleRoute
  <2> QED BY <1>3, <2>1, PlainSettled
<1> QED BY <1>1, <1>2, <1>3

\* What is true of every signed transaction.
CleanWire(w) == Clean(w.instructions, w.nativeInput \/ w.nativeOutput)

\* What a tip is paid with, and what comes before the settlement of a held route.
Tip(n) == IF n > 0 THEN <<Transfer(n)>> ELSE <<>>
Lead(o) == (IF o.nonce THEN <<NonceAdvance>> ELSE <<>>) \o Tip(o.tip)
              \o (IF o.version = 0 THEN <<ComputeBudget>> ELSE <<>>)

\* How a trade was prepared: over a path it was given or found, along an official or a
\* sequential route, settled behind its tip.
PreparedAs(t, w, hints, r, s) ==
    /\ hints = t.hints \/ hints \in Walks(t.candidates, t.from, t.to, {}, 5)
    /\ \/ r \in prepareOfficialPumpRoute(hints, t.amount, t.route, t.nativeInput \/ t.nativeOutput)
       \/ r \in prepareCachedRoute(hints, t.amount, t.slip,
                                   t.dex = "PumpFun" /\ NativeQuote(Anchor(t, hints).pool), NoLimits)
    /\ s \in SettleRoute(t, hints, r) /\ Settled(s, t.nativeInput \/ t.nativeOutput)
    /\ w.kind = "wire" /\ w.instructions = Tip(t.tip) \o s.instructions
    /\ w.required = s.required + t.tip /\ w.tip = t.tip /\ w.amount = t.amount /\ w.min = r.min
    /\ w.nativeInput = t.nativeInput /\ w.nativeOutput = t.nativeOutput
    /\ w.in = r.setup[1] /\ w.out = Last(r.setup)

\* How a held trade was signed.
BuiltAs(o, w, s) ==
    /\ s \in IF o.nativeInput \/ o.nativeOutput
              THEN settleCachedRouteWithNativeSol(held.route, o.nativeInput, o.nativeOutput)
              ELSE {Plain(held.route)}
    /\ Settled(s, o.nativeInput \/ o.nativeOutput)
    /\ w.kind = "wire" /\ w.instructions = Middleware(o, Lead(o) \o s.instructions)
    /\ w.required = s.required + o.tip /\ w.tip = o.tip /\ w.amount = held.search.amount
    /\ w.min = held.route.min /\ w.nativeInput = o.nativeInput /\ w.nativeOutput = o.nativeOutput
    /\ w.in = held.route.setup[1] /\ w.out = Last(held.route.setup)

\* A settlement with what comes before it.
With(s, full) == [s EXCEPT !.instructions = full]

\* A transaction, field by field.
LEMMA CompiledIs ==
    ASSUME NEW r, NEW s, NEW native, Settled(s, native), NEW full, NEW tip, NEW a, NEW b, NEW amount, NEW at,
           NEW w, w = Compiled(r, With(s, full), tip, a, b, amount, Endpoints(r), at)
    PROVE  /\ w.kind = "wire" /\ w.instructions = full /\ w.required = s.required + tip /\ w.tip = tip
           /\ w.amount = amount /\ w.min = r.min /\ w.nativeInput = a /\ w.nativeOutput = b
           /\ w.in = r.setup[1] /\ w.out = Last(r.setup)
<1> DEFINE c == With(s, full)
<1>1. c.instructions = full /\ c.required = s.required
  BY DEF Settled, With
<1> HIDE DEF c
<1>2. w = Compiled(r, c, tip, a, b, amount, Endpoints(r), at)
  BY DEF c
<1> QED BY <1>1, <1>2 DEF Compiled, Endpoints

\* Every prepared trade was.
LEMMA PreparedIs ==
    ASSUME NEW t, NEW w \in prepareCachedTrade(t)
    PROVE  \E hints, r, s : PreparedAs(t, w, hints, r, s)
<1> DEFINE walks == Walks(t.candidates, t.from, t.to, {}, 5)
           candidates == CandidateRoutes(t.candidates, t.from, t.to)
           Prepare(hints) == PrepareHints(t, hints)
<1>1. \E hints : (hints = t.hints \/ hints \in walks) /\ w \in Prepare(hints)
  <2>1. candidates \subseteq walks
    BY DEF CandidateRoutes
  <2> DEFINE fits == {path \in candidates : Prepare(path) # {}}
  <2>2. \/ w \in Prepare(t.hints)
        \/ w \in UNION {Prepare(path) : path \in {p \in fits : \A q \in fits : ~Earlier(q, p)}}
    BY DEF prepareCachedTrade
  <2> HIDE DEF walks, candidates, Prepare
  <2> QED BY <2>1, <2>2
<1>2. PICK hints : (hints = t.hints \/ hints \in walks) /\ w \in Prepare(hints)
  BY <1>1
<1> DEFINE official == IF t.dex \in {"PumpFun", "PumpSwap"}
                       THEN prepareOfficialPumpRoute(hints, t.amount, t.route, t.nativeInput \/ t.nativeOutput)
                       ELSE {}
           allow == t.dex = "PumpFun" /\ NativeQuote(Anchor(t, hints).pool)
           sequential == prepareCachedRoute(hints, t.amount, t.slip, allow, NoLimits)
           routes == IF official # {} THEN official
                     ELSE IF t.route.execution = "official" THEN {} ELSE sequential
           allowed == {r \in routes : t.route.execution = "sequential" \/ r.min >= t.route.minimum}
           compiled(r, s) == Compiled(r, [s EXCEPT !.instructions = (IF t.tip > 0 THEN <<Transfer(t.tip)>> ELSE <<>>) \o @],
                                      t.tip, t.nativeInput, t.nativeOutput, t.amount, Endpoints(r), Context(0))
<1>3. \E r \in official \cup sequential : \E s \in SettleRoute(t, hints, r) : w = compiled(r, s)
  <2>1. w \in IF ~AnchorFits(t, hints) THEN {}
              ELSE UNION {{compiled(r, s) : s \in SettleRoute(t, hints, r)} : r \in allowed}
    BY <1>2 DEF PrepareHints, Thrown
  <2>2. allowed \subseteq official \cup sequential
    <3> HIDE DEF official, sequential
    <3> QED OBVIOUS
  <2> HIDE DEF compiled, allowed, official, sequential
  <2> QED BY <2>1, <2>2
<1>3a. PICK r \in official \cup sequential : \E s \in SettleRoute(t, hints, r) : w = compiled(r, s)
  BY <1>3
<1>4. PICK s \in SettleRoute(t, hints, r) : w = compiled(r, s)
  BY <1>3a
<1>5. Settled(s, t.nativeInput \/ t.nativeOutput)
  <2>1. CASE r \in official
    <3>1. r \in prepareOfficialPumpRoute(hints, t.amount, t.route, t.nativeInput \/ t.nativeOutput)
      BY <2>1
    <3> HIDE DEF official
    <3> QED BY <3>1, OfficialRoute, RouteSettled
  <2>2. CASE r \in sequential
    <3>1. r \in prepareCachedRoute(hints, t.amount, t.slip, allow, NoLimits)
      BY <2>2
    <3>2. Follows(r, hints)
      <4> HIDE DEF allow, sequential
      <4> QED BY <3>1, RouteOfHints
    <3> QED BY <3>2, RouteSettled DEF Follows
  <2> QED BY <2>1, <2>2
<1> DEFINE full == Tip(t.tip) \o s.instructions  native == t.nativeInput \/ t.nativeOutput
<1>6. w = Compiled(r, With(s, full), t.tip, t.nativeInput, t.nativeOutput,
                   t.amount, Endpoints(r), Context(0))
  BY <1>4 DEF Tip, With
<1>7. \/ r \in prepareOfficialPumpRoute(hints, t.amount, t.route, native)
      \/ r \in prepareCachedRoute(hints, t.amount, t.slip, allow, NoLimits)
  BY ONLY <1>3a
<1>7a. Settled(s, native)
  BY <1>5
<1> HIDE DEF full, official, sequential, allow, native
<1>8. /\ w.kind = "wire" /\ w.instructions = full /\ w.required = s.required + t.tip /\ w.tip = t.tip
      /\ w.amount = t.amount /\ w.min = r.min /\ w.nativeInput = t.nativeInput /\ w.nativeOutput = t.nativeOutput
      /\ w.in = r.setup[1] /\ w.out = Last(r.setup)
  BY <1>6, <1>7a, CompiledIs
<1>9. PreparedAs(t, w, hints, r, s)
  BY <1>2, <1>4, <1>5, <1>7, <1>8 DEF PreparedAs, full, allow, native
<1> QED BY <1>9

\* Instructions that come first are clean.
LEMMA LeadIsClean ==
    ASSUME NEW native
    PROVE  /\ \A n : Clean(Tip(n), native)
           /\ Clean(<<NonceAdvance>>, native) /\ Clean(<<ComputeBudget>>, native)
<1>1. /\ Spares(NonceAdvance, native) /\ NonceAdvance.op # "createTemp"
      /\ Spares(ComputeBudget, native) /\ ComputeBudget.op # "createTemp"
  BY DEF NonceAdvance, ComputeBudget, Spares, Ops
<1>2. ASSUME NEW n PROVE Clean(Tip(n), native)
  <2>1. Spares(Transfer(n), native) /\ Transfer(n).op # "createTemp"
    BY DEF Transfer, Spares, Ops
  <2>2. Clean(<<Transfer(n)>>, native)
    BY <2>1, CleanOne
  <2> QED BY <2>2, CleanNone DEF Tip
<1> QED BY <1>1, <1>2, CleanOne

\* A prepared trade, with its tip before everything else.
LEMMA PreparedIsClean ==
    ASSUME NEW t, NEW w \in prepareCachedTrade(t)
    PROVE  CleanWire(w) /\ w # None
<1>1. PICK hints, r, s : PreparedAs(t, w, hints, r, s)
  BY PreparedIs
<1> DEFINE native == t.nativeInput \/ t.nativeOutput
<1>2. /\ w.kind = "wire" /\ w.instructions = Tip(t.tip) \o s.instructions /\ Settled(s, native)
      /\ w.nativeInput = t.nativeInput /\ w.nativeOutput = t.nativeOutput
  BY <1>1 DEF PreparedAs
<1>3. (w.nativeInput \/ w.nativeOutput) = native
  BY <1>2
<1> HIDE DEF native
<1>4. Clean(Tip(t.tip), native) /\ Clean(s.instructions, native)
  BY <1>2, LeadIsClean DEF Settled
<1>5. Clean(w.instructions, native)
  BY <1>2, <1>4, CleanJoin
<1> QED BY <1>2, <1>3, <1>5 DEF CleanWire, None

-----------------------------------------------------------------------------
(* The chain.                                                              *)

\* A wallet: lamports, the temporary account and an account for every mint.
Wallet(w) ==
    /\ w = [lamports |-> w.lamports, temp |-> w.temp, ata |-> w.ata]
    /\ w.ata = [m \in Mints |-> w.ata[m]]

\* Two wallets with the same wrapped SOL account, of which the second has a temporary
\* account only if the first had one.
Follow(w, v) == Wallet(v) /\ v.ata[Wsol] = w.ata[Wsol] /\ (w.temp = Absent => v.temp = Absent)
FollowButWsol(w, v) == Wallet(v) /\ (w.temp = Absent => v.temp = Absent)

\* A credit changes one account, and none that is missing.
LEMMA Credited ==
    ASSUME NEW w, Wallet(w), NEW a, NEW n, Credit(w, a, n) # Failed
    PROVE  FollowButWsol(w, Credit(w, a, n)) /\ (a # Wsol => Follow(w, Credit(w, a, n)))
<1> DEFINE v == Credit(w, a, n)
<1>1. CASE a = "lamports"
  <2>1. v = [w EXCEPT !.lamports = @ + n]
    BY <1>1 DEF Credit
  <2>2. v = [lamports |-> w.lamports + n, temp |-> w.temp, ata |-> w.ata]
    BY <2>1 DEF Wallet
  <2> HIDE DEF v
  <2>3. v.lamports = w.lamports + n /\ v.temp = w.temp /\ v.ata = w.ata
    BY <2>2
  <2>4. Follow(w, v) /\ FollowButWsol(w, v)
    BY <2>2, <2>3 DEF Follow, FollowButWsol, Wallet
  <2> QED BY <2>4 DEF v
<1>2. CASE a = "temp"
  <2>1. v = [w EXCEPT !.temp = @ + n] /\ w.temp # Absent
    BY <1>2 DEF Credit, Balance
  <2>2. v = [lamports |-> w.lamports, temp |-> w.temp + n, ata |-> w.ata]
    BY <2>1 DEF Wallet
  <2> HIDE DEF v
  <2>3. v.lamports = w.lamports /\ v.temp = w.temp + n /\ v.ata = w.ata
    BY <2>2
  <2>4. Follow(w, v) /\ FollowButWsol(w, v)
    BY <2>1, <2>2, <2>3 DEF Follow, FollowButWsol, Wallet
  <2> QED BY <2>4 DEF v
<1>3. CASE a # "lamports" /\ a # "temp"
  <2>1. v = [w EXCEPT !.ata[a] = @ + n]
    BY <1>3 DEF Credit
  <2>2. v = [lamports |-> w.lamports, temp |-> w.temp, ata |-> [w.ata EXCEPT ![a] = @ + n]]
    BY <2>1 DEF Wallet
  <2>3. [w.ata EXCEPT ![a] = @ + n] = [m \in Mints |-> IF m = a THEN w.ata[a] + n ELSE w.ata[m]]
    BY DEF Wallet
  <2> HIDE DEF v
  <2>4. /\ v.lamports = w.lamports /\ v.temp = w.temp
        /\ v.ata = [m \in Mints |-> IF m = a THEN w.ata[a] + n ELSE w.ata[m]]
    BY <2>2, <2>3
  <2>5. v.ata = [m \in Mints |-> v.ata[m]] /\ v = [lamports |-> v.lamports, temp |-> v.temp, ata |-> v.ata]
    BY <2>2, <2>4
  <2>6. a # Wsol => v.ata[Wsol] = w.ata[Wsol]
    BY <2>4, RoutesAssumption
  <2>7. FollowButWsol(w, v) /\ (a # Wsol => Follow(w, v))
    BY <2>4, <2>5, <2>6 DEF Follow, FollowButWsol, Wallet
  <2> QED BY <2>7 DEF v
<1> QED BY <1>1, <1>2, <1>3

\* So does a debit.
LEMMA Debited ==
    ASSUME NEW w, Wallet(w), NEW a, NEW n, Debit(w, a, n) # Failed
    PROVE  FollowButWsol(w, Debit(w, a, n)) /\ (a # Wsol => Follow(w, Debit(w, a, n)))
<1>1. Debit(w, a, n) = Credit(w, a, -n)
  BY DEF Debit
<1> DEFINE m == -n
<1>2. Debit(w, a, n) = Credit(w, a, m)
  BY <1>1
<1> HIDE DEF m
<1> QED BY <1>2, Credited

\* Between two accounts, both.
LEMMA Moved ==
    ASSUME NEW w, Wallet(w), NEW a, NEW b, NEW n, NEW m, Move(w, a, b, n, m) # Failed
    PROVE  /\ FollowButWsol(w, Move(w, a, b, n, m))
           /\ a # Wsol /\ b # Wsol => Follow(w, Move(w, a, b, n, m))
<1> DEFINE d == Debit(w, a, n)
<1>1. d # Failed /\ Move(w, a, b, n, m) = Credit(d, b, m)
  BY DEF Move
<1>2. FollowButWsol(w, d) /\ (a # Wsol => Follow(w, d))
  BY <1>1, Debited
<1> HIDE DEF d
<1>3. FollowButWsol(d, Credit(d, b, m)) /\ (b # Wsol => Follow(d, Credit(d, b, m)))
  BY <1>1, <1>2, Credited DEF FollowButWsol
<1> QED BY <1>1, <1>2, <1>3 DEF Follow, FollowButWsol

\* An instruction that goes through.
LEMMA Executed ==
    ASSUME NEW w, Wallet(w), NEW native, NEW ix, Spares(ix, native),
           NEW v \in ExecuteInstruction(w, ix), v # Failed
    PROVE  /\ w # Failed /\ Wallet(v) /\ (native => v.ata[Wsol] = w.ata[Wsol])
           /\ w.temp = Absent /\ ix.op # "createTemp" => v.temp = Absent
           /\ ix.op = "closeTemp" => v.temp = Absent
<1>0. w # Failed
  BY DEF ExecuteInstruction
<1>1. CASE ix.op \in {"nonceAdvance", "computeBudget"}
  <2>1. v = w
    BY <1>0, <1>1 DEF ExecuteInstruction
  <2> QED BY <1>0, <1>1, <2>1
<1>2. CASE ix.op = "ata"
  <2> DEFINE x == IF w.ata[ix.mint] = Absent THEN 0 ELSE w.ata[ix.mint]
  <2>1. v = [w EXCEPT !.ata[ix.mint] = IF @ = Absent THEN 0 ELSE @]
    BY <1>0, <1>2 DEF ExecuteInstruction
  <2>2. v = [lamports |-> w.lamports, temp |-> w.temp, ata |-> [w.ata EXCEPT ![ix.mint] = x]]
    BY <2>1 DEF Wallet
  <2>3. [w.ata EXCEPT ![ix.mint] = x] = [m \in Mints |-> IF m = ix.mint THEN x ELSE w.ata[m]]
    BY DEF Wallet
  <2> HIDE DEF x
  <2>4. v.temp = w.temp /\ v.ata = [m \in Mints |-> IF m = ix.mint THEN x ELSE w.ata[m]]
    BY <2>2, <2>3
  <2>5. Wallet(v)
    BY <2>2, <2>4 DEF Wallet
  <2>6. native => v.ata[Wsol] = w.ata[Wsol]
    BY <1>2, <2>4, RoutesAssumption DEF Spares
  <2> QED BY <1>0, <1>2, <2>4, <2>5, <2>6
<1>3. CASE ix.op = "transfer"
  <2>1. v = Debit(w, "lamports", ix.amount)
    BY <1>0, <1>3 DEF ExecuteInstruction
  <2>2. "lamports" # Wsol
    BY RoutesAssumption, TradeAssumption
  <2>3. Follow(w, v)
    BY <2>1, <2>2, Debited
  <2> QED BY <1>0, <1>3, <2>3 DEF Follow
<1>4. CASE ix.op = "createTemp"
  <2> DEFINE d == Debit(w, "lamports", ix.lamports)
  <2>1. d # Failed /\ v = [d EXCEPT !.temp = ix.lamports - Rent]
    BY <1>0, <1>4 DEF ExecuteInstruction
  <2>2. "lamports" # Wsol
    BY RoutesAssumption, TradeAssumption
  <2>3. Follow(w, d)
    BY <2>1, <2>2, Debited
  <2> HIDE DEF d
  <2>4. v = [lamports |-> d.lamports, temp |-> ix.lamports - Rent, ata |-> d.ata]
    BY <2>1, <2>3 DEF Follow, Wallet
  <2>5. Wallet(v) /\ v.ata = d.ata
    BY <2>3, <2>4 DEF Follow, Wallet
  <2> QED BY <1>0, <1>4, <2>3, <2>5 DEF Follow
<1>5. CASE ix.op = "closeTemp"
  <2>1. v = [w EXCEPT !.temp = Absent, !.lamports = @ + w.temp + Rent]
    BY <1>0, <1>5 DEF ExecuteInstruction
  <2>2. v = [lamports |-> w.lamports + w.temp + Rent, temp |-> Absent, ata |-> w.ata]
    BY <2>1 DEF Wallet
  <2>3. Wallet(v) /\ v.ata = w.ata /\ v.temp = Absent
    BY <2>2 DEF Wallet
  <2> QED BY <1>0, <1>5, <2>3
<1>6. CASE ix.op \in {"fundAta", "moveToTemp"}
  <2>1. \E a, b : v = Move(w, a, b, ix.amount, ix.amount)
    BY <1>0, <1>6 DEF ExecuteInstruction
  <2>2. FollowButWsol(w, v)
    BY <2>1, Moved
  <2> QED BY <1>0, <1>6, <2>2 DEF FollowButWsol, Spares
<1>7. CASE ix.op = "swap"
  <2>1. \E out : v = Move(w, ix.from, ix.to, ix.amount, out)
    BY <1>0, <1>7 DEF ExecuteInstruction
  <2>2. FollowButWsol(w, v) /\ (ix.from # Wsol /\ ix.to # Wsol => Follow(w, v))
    BY <2>1, Moved
  <2> QED BY <1>0, <1>7, <2>2 DEF Follow, FollowButWsol, Spares
<1> QED BY <1>1, <1>2, <1>3, <1>4, <1>5, <1>6, <1>7 DEF Spares, Ops

\* The chain runs one instruction after the other.
LEMMA OutcomesAre ==
    ASSUME NEW before, Len(wire.instructions) \in Nat
    PROVE  LET ixs == wire.instructions
           IN  \E after : /\ after[0] = {before} /\ Outcomes(before) = after[Len(ixs)]
                          /\ \A i \in 1..Len(ixs) :
                                after[i] = UNION {ExecuteInstruction(v, ixs[i]) : v \in after[i - 1]}
<1> DEFINE ixs == wire.instructions
           n == Len(ixs)
           Step(f, i) == IF i = 0 THEN {before}
                         ELSE UNION {ExecuteInstruction(v, ixs[i]) : v \in f[i - 1]}
           Is(f, m) == f = [i \in 0..m |-> Step(f, i)]
           Defined == {m \in 0..n : \E f : Is(f, m)}
           after == CHOOSE f : Is(f, n)
<1>0. n \in Nat
  OBVIOUS
<1>1. 0 \in Defined
  <2>1. Is([i \in 0..0 |-> {before}], 0)
    OBVIOUS
  <2> HIDE DEF Is, n
  <2> QED BY <1>0, <2>1
<1>2. ASSUME NEW m \in 1..n, m - 1 \in Defined PROVE m \in Defined
  <2> HIDE DEF n, ixs
  <2>1. PICK f : Is(f, m - 1)
    BY <1>2
  <2> DEFINE g == [i \in 0..m |-> IF i = m THEN Step(f, m) ELSE f[i]]
  <2>2. (\A i \in 0..(m - 1) : g[i] = f[i]) /\ g[m] = Step(f, m)
    BY <1>0
  <2>3. \A i \in 0..m : g[i] = Step(g, i)
    <3> SUFFICES ASSUME NEW i \in 0..m PROVE g[i] = Step(g, i)
      OBVIOUS
    <3>1. CASE i = m
      <4>1. i # 0 /\ i - 1 = m - 1 /\ g[i - 1] = f[m - 1] /\ g[i] = Step(f, m)
        BY <3>1, <2>2, <1>0
      <4> HIDE DEF g
      <4> QED BY <4>1, <3>1
    <3>2. CASE i # m
      <4>1. i \in 0..(m - 1) /\ g[i] = f[i] /\ (i # 0 => g[i - 1] = f[i - 1])
        BY <3>2, <2>2, <1>0
      <4> HIDE DEF g
      <4> QED BY <4>1, <2>1
    <3> QED BY <3>1, <3>2
  <2>4. g = [i \in 0..m |-> g[i]]
    OBVIOUS
  <2>5. Is(g, m)
    <3> HIDE DEF g, Step
    <3> QED BY <2>3, <2>4
  <2> HIDE DEF Is, g
  <2> QED BY <2>5, <1>0
<1>3. n \in Defined
  <2>1. n \in Nat
    BY <1>0
  <2> HIDE DEF Defined, n
  <2>2. \A i \in 0..n : i \in Defined
    BY <1>1, <1>2, <2>1, UpTo
  <2> QED BY <2>1, <2>2
<1>4. Is(after, n)
  <2>1. \E f : Is(f, n)
    BY <1>3
  <2> HIDE DEF Is
  <2> QED BY <2>1
<1>5. Outcomes(before) = after[n]
  BY DEF Outcomes
<1> HIDE DEF after, n, ixs
<1>6. after[0] = {before}
  BY <1>0, <1>4
<1>7. ASSUME NEW i \in 1..n
      PROVE  after[i] = UNION {ExecuteInstruction(v, ixs[i]) : v \in after[i - 1]}
  <2>1. i # 0 /\ i \in 0..n
    BY <1>0
  <2>2. after[i] = Step(after, i)
    <3> HIDE DEF Step
    <3> QED BY <1>4, <2>1
  <2> QED BY <2>1, <2>2
<1> QED BY <1>5, <1>6, <1>7 DEF ixs, n

\* What becomes of a wallet that clean instructions go through: the temporary accounts
\* are closed again, and with a native endpoint the wrapped SOL account is as it was.
LEMMA Outcome ==
    ASSUME CleanWire(wire), NEW before, Wallet(before), before.temp = Absent,
           NEW w \in Outcomes(before), w # Failed
    PROVE  /\ w.temp = Absent
           /\ wire.nativeInput \/ wire.nativeOutput => w.ata[Wsol] = before.ata[Wsol]
<1> DEFINE ixs == wire.instructions
           native == wire.nativeInput \/ wire.nativeOutput
           n == Len(ixs)
           Opened(i) == \E j \in (i + 1)..n : ixs[j].op = "closeTemp"
           Fine(v, i) == /\ Wallet(v) /\ (v.temp = Absent \/ Opened(i))
                         /\ native => v.ata[Wsol] = before.ata[Wsol]
<1>0. /\ n \in Nat /\ \A i \in 1..n : Spares(ixs[i], native)
      /\ \A i \in 1..n : ixs[i].op = "createTemp" => Opened(i)
  BY DEF CleanWire, Clean, Sparing, Sequence, Closing
<1>1. PICK after : /\ after[0] = {before} /\ Outcomes(before) = after[n]
                   /\ \A i \in 1..n : after[i] = UNION {ExecuteInstruction(v, ixs[i]) : v \in after[i - 1]}
  BY <1>0, OutcomesAre
<1> DEFINE Good == {i \in 0..n : \A v \in after[i] : v # Failed => Fine(v, i)}
<1> HIDE DEF n, ixs, native
<1>2. 0 \in Good
  BY <1>0, <1>1
<1>3. ASSUME NEW i \in 1..n, i - 1 \in Good PROVE i \in Good
  <2>1. after[i] = UNION {ExecuteInstruction(u, ixs[i]) : u \in after[i - 1]}
    BY <1>1
  <2>2. ASSUME NEW v \in after[i], v # Failed PROVE Fine(v, i)
    <3>1. PICK u \in after[i - 1] : v \in ExecuteInstruction(u, ixs[i])
      BY <2>1
    <3>2. u # Failed
      BY <2>2, <3>1 DEF ExecuteInstruction
    <3>3. Fine(u, i - 1)
      <4> HIDE DEF Fine
      <4> QED BY <1>3, <3>2
    <3>4. /\ Wallet(v) /\ (native => v.ata[Wsol] = u.ata[Wsol])
          /\ u.temp = Absent /\ ixs[i].op # "createTemp" => v.temp = Absent
          /\ ixs[i].op = "closeTemp" => v.temp = Absent
      <4> HIDE DEF Opened
      <4> QED BY <1>0, <2>2, <3>1, <3>3, Executed
    <3>5. v.temp = Absent \/ Opened(i)
      <4>1. CASE u.temp = Absent
        <5> HIDE DEF Opened
        <5> QED BY <1>0, <3>4, <4>1
      <4>2. CASE u.temp # Absent
        <5>1. PICK j \in (i - 1 + 1)..n : ixs[j].op = "closeTemp"
          BY <3>3, <4>2
        <5>2. j = i \/ j \in (i + 1)..n
          BY <1>0
        <5> QED BY <3>4, <5>1, <5>2
      <4> QED BY <4>1, <4>2
    <3> HIDE DEF Opened
    <3> QED BY <3>3, <3>4, <3>5
  <2> HIDE DEF Fine
  <2> QED BY <1>0, <2>2
<1>4. n \in Good
  <2> HIDE DEF Good
  <2> QED BY <1>0, <1>2, <1>3, UpTo
<1>5. Fine(w, n)
  <2> HIDE DEF Fine
  <2> QED BY <1>1, <1>4
<1>6. ~Opened(n)
  BY <1>0
<1> HIDE DEF Opened
<1> QED BY <1>5, <1>6 DEF native

-----------------------------------------------------------------------------
(* From the search to the chain.                                           *)

\* What a search finds is a sequential route.
LEMMA SearchedRoute ==
    ASSUME NEW s, NEW r \in searchPumpSwapTrade(s)
    PROVE  Shape(r)
<1>1. \E path : r \in preparePumpSwapTrade(s, path)
  BY DEF searchPumpSwapTrade, Thrown
<1>2. PICK path : r \in preparePumpSwapTrade(s, path)
  BY <1>1
<1> DEFINE limits == [anchor |-> s.pool, slip |-> s.bridgeSlip, impact |-> s.impact]
<1>3. r \in prepareCachedRoute(path, s.amount, s.slip, FALSE, limits)
  BY <1>2 DEF preparePumpSwapTrade
<1>4. Follows(r, path)
  <2> HIDE DEF limits
  <2> QED BY <1>3, RouteOfHints
<1> QED BY <1>4 DEF Follows

\* Every transaction signed from a held route was built so.
LEMMA BuiltIs ==
    ASSUME Shape(held.route), NEW o, NEW age, NEW w \in buildSigned(o, age)
    PROVE  \E s : BuiltAs(o, w, s)
<1> DEFINE r == held.route
           native == o.nativeInput \/ o.nativeOutput
           settled == IF native THEN settleCachedRouteWithNativeSol(r, o.nativeInput, o.nativeOutput)
                      ELSE {Plain(r)}
           inner(s) == (IF o.nonce THEN <<NonceAdvance>> ELSE <<>>)
                         \o (IF o.tip > 0 THEN <<Transfer(o.tip)>> ELSE <<>>)
                         \o (IF o.version = 0 THEN <<ComputeBudget>> ELSE <<>>) \o s.instructions
           compiled(s) == Compiled(r, [s EXCEPT !.instructions = Middleware(o, inner(s))], o.tip, o.nativeInput,
                             o.nativeOutput, held.search.amount, Endpoints(r), Context(age))
<1>1. \E s \in settled : w = compiled(s)
  BY DEF buildSigned
<1>2. PICK s \in settled : w = compiled(s)
  BY <1>1
<1>3. Settled(s, native)
  <2>1. CASE native
    <3>1. s \in settleCachedRouteWithNativeSol(r, o.nativeInput, o.nativeOutput)
      BY <1>2, <2>1
    <3>2. Settled(s, TRUE)
      BY <3>1, NativeSettled
    <3> QED BY <2>1, <3>2
  <2>2. CASE ~native
    <3>1. s = Plain(r)
      BY <1>2, <2>2
    <3> QED BY <2>2, <3>1, PlainSettled
  <2> QED BY <2>1, <2>2
<1> DEFINE full == Middleware(o, Lead(o) \o s.instructions)
<1>4. w = Compiled(r, With(s, full), o.tip, o.nativeInput,
                   o.nativeOutput, held.search.amount, Endpoints(r), Context(age))
  <2>1. inner(s) = Lead(o) \o s.instructions
    BY DEF Lead, Tip
  <2> HIDE DEF inner
  <2> QED BY <1>2, <2>1 DEF With
<1> HIDE DEF full
<1>5. /\ w.kind = "wire" /\ w.instructions = full /\ w.required = s.required + o.tip /\ w.tip = o.tip
      /\ w.amount = held.search.amount /\ w.min = r.min
      /\ w.nativeInput = o.nativeInput /\ w.nativeOutput = o.nativeOutput
      /\ w.in = r.setup[1] /\ w.out = Last(r.setup)
  <2> HIDE DEF native
  <2> QED BY <1>3, <1>4, CompiledIs
<1>6. BuiltAs(o, w, s)
  BY <1>2, <1>3, <1>5 DEF BuiltAs, full
<1> QED BY <1>6

\* A transaction signed from a held route, behind its middleware, nonce, tip and budget.
LEMMA BuiltIsClean ==
    ASSUME Shape(held.route), NEW o, NEW age, NEW w \in buildSigned(o, age)
    PROVE  CleanWire(w) /\ w # None
<1>1. PICK s : BuiltAs(o, w, s)
  BY BuiltIs
<1> DEFINE native == o.nativeInput \/ o.nativeOutput  lead == Lead(o) \o s.instructions
<1>2. /\ w.kind = "wire" /\ w.instructions = Middleware(o, lead) /\ Settled(s, native)
      /\ w.nativeInput = o.nativeInput /\ w.nativeOutput = o.nativeOutput
  BY <1>1 DEF BuiltAs
<1>3. (w.nativeInput \/ w.nativeOutput) = native
  BY <1>2
<1> HIDE DEF native
<1>4. Clean(Lead(o), native)
  <2> DEFINE nonce == IF o.nonce THEN <<NonceAdvance>> ELSE <<>>
             budget == IF o.version = 0 THEN <<ComputeBudget>> ELSE <<>>
  <2>1. Clean(nonce, native) /\ Clean(Tip(o.tip), native) /\ Clean(budget, native)
    BY LeadIsClean, CleanNone
  <2>2. Lead(o) = (nonce \o Tip(o.tip)) \o budget
    BY DEF Lead
  <2> HIDE DEF nonce, budget
  <2>3. Clean(nonce \o Tip(o.tip), native)
    BY <2>1, CleanJoin
  <2> QED BY <2>1, <2>2, <2>3, CleanJoin
<1>5. Clean(lead, native)
  BY <1>2, <1>4, CleanJoin DEF Settled
<1> HIDE DEF lead
<1>6. Clean(w.instructions, native)
  BY <1>2, <1>5, LeadIsClean, CleanJoin DEF Middleware
<1> QED BY <1>2, <1>3, <1>6 DEF CleanWire, None

\* A held trade has a route, a slot of the chain and the age its reader allowed.
HeldInv ==
    /\ slot \in Nat
    /\ held # None => /\ held.context.slot \in 0..slot /\ held.context.age \in Ages
                      /\ Shape(held.route)

\* Nothing is held at first.
LEMMA RouteStarts == RouteInit => HeldInv
BY DEF RouteInit, HeldInv

\* A search remembers the slot of now; nothing else touches what it remembers, and
\* the chain only goes on.
LEMMA HeldSteps == HeldInv /\ [RouteNext]_routeVars => HeldInv'
<1> SUFFICES ASSUME HeldInv, [RouteNext]_routeVars PROVE HeldInv'
  OBVIOUS
<1>1. ASSUME NEW s \in Searches, NEW age \in Ages, SearchTrade(s, age) PROVE HeldInv'
  <2>1. slot' = slot /\ held'.context = [slot |-> slot, epoch |-> epoch, age |-> age]
    BY <1>1 DEF SearchTrade, Context, clock
  <2>2. held'.route \in searchPumpSwapTrade(s)
    BY <1>1 DEF SearchTrade
  <2>3. \A r \in searchPumpSwapTrade(s) : Shape(r)
    BY SearchedRoute
  <2>4. Shape(held'.route)
    BY <2>2, <2>3
  <2> QED BY <2>1, <2>4 DEF HeldInv, Shape
<1>2. CASE Advance
  BY <1>2 DEF Advance, HeldInv, Shape
<1>3. CASE slot' = slot /\ held' = held
  BY <1>3 DEF HeldInv, Shape
<1>4. \/ \E s \in Searches, age \in Ages : SearchTrade(s, age)
      \/ Advance \/ (slot' = slot /\ held' = held)
  BY DEF RouteNext, PrepareTrade, BuildSigned, Land, NewEpoch, Invalidate, clock, routeVars
<1> QED BY <1>1, <1>2, <1>3, <1>4

\* A held trade is as old as it says, at any time.
THEOREM HeldInvariance == RouteSpec => []HeldInv
<1> QED BY RouteStarts, HeldSteps, PTL DEF RouteSpec

\* What is signed from a held trade is of its epoch, and as fresh as the read it was
\* prepared in and the read it is signed in asked, whatever the chain did in between
\* (validateFreshness).
THEOREM WireIsFresh == RouteSpec => NoStaleWire
<1>1. HeldInv /\ [RouteNext]_routeVars =>
        [wire = None /\ wire' # None /\ held # None =>
           /\ usable /\ wire'.context.epoch = held.context.epoch
           /\ held.context.slot <= wire'.context.slot
           /\ \A allowed \in {held.context.age, wire'.context.age} :
                  wire'.context.slot - held.context.slot <= allowed]_routeVars
  <2> SUFFICES ASSUME HeldInv, RouteNext, wire = None, wire' # None, held # None
               PROVE  /\ usable /\ wire'.context.epoch = held.context.epoch
                      /\ held.context.slot <= wire'.context.slot
                      /\ \A allowed \in {held.context.age, wire'.context.age} :
                             wire'.context.slot - held.context.slot <= allowed
    OBVIOUS
  <2>1. PICK o \in Builds, age \in Ages : BuildSigned(o, age)
    BY DEF RouteNext, PrepareTrade, Idle, SearchTrade, Land, Advance, NewEpoch, Invalidate
  <2>2. wire'.context = [slot |-> slot, epoch |-> epoch, age |-> age]
    BY <2>1 DEF BuildSigned, buildSigned, Compiled, Context
  <2> DEFINE lag == slot - held.context.slot
  <2>3. /\ usable /\ epoch = held.context.epoch /\ held.context.slot <= slot
        /\ lag <= FreshAge(age, held.context.age)
    BY <2>1 DEF BuildSigned, validateFreshness
  <2>4. lag \in Int /\ held.context.age \in Nat /\ age \in Nat
    <3>1. slot \in Nat /\ held.context.slot \in 0..slot /\ held.context.age \in Ages
      BY DEF HeldInv
    <3>2. held.context.slot \in Int
      BY <3>1
    <3>3. lag \in Int
      BY <3>1, <3>2
    <3>4. Ages \subseteq Nat
      BY TradeAssumption
    <3> QED BY <3>1, <3>3, <3>4
  <2> HIDE DEF lag
  <2>5. FreshAge(age, held.context.age) <= age /\ FreshAge(age, held.context.age) <= held.context.age
        /\ FreshAge(age, held.context.age) \in Nat
    BY <2>4 DEF FreshAge
  <2>6. lag <= age /\ lag <= held.context.age
    BY <2>3, <2>4, <2>5
  <2>7. \A allowed \in {held.context.age, wire'.context.age} : wire'.context.slot - held.context.slot <= allowed
    BY <2>2, <2>6 DEF lag
  <2> QED BY <2>2, <2>3, <2>7
<1> QED BY <1>1, HeldInvariance, PTL DEF RouteSpec, NoStaleWire

\* What is signed is clean, and what landed was signed.
WireInv ==
    /\ wire # None => CleanWire(wire)
    /\ landed # None => wire # None
    /\ OwnWsolUntouched

\* Nothing is held, signed or landed at first.
LEMMA WireStarts == RouteInit => WireInv
BY DEF RouteInit, WireInv, OwnWsolUntouched

\* Nothing is signed twice, and a transaction that lands is clean.
LEMMA WireSteps == HeldInv /\ WireInv /\ [RouteNext]_routeVars => WireInv'
<1> SUFFICES ASSUME HeldInv, WireInv, [RouteNext]_routeVars PROVE WireInv'
  OBVIOUS
<1>1. UNCHANGED wire => (CleanWire(wire) => CleanWire(wire)')
  BY DEF CleanWire, Clean, Sparing, Closing, Sequence, Spares
<1>2. ASSUME NEW t \in Requests, PrepareTrade(t) PROVE WireInv'
  <2>1. wire' \in prepareCachedTrade(t) /\ landed = None /\ landed' = None
    BY <1>2 DEF PrepareTrade, Idle
  <2>2. \A w \in prepareCachedTrade(t) : CleanWire(w) /\ w # None
    BY PreparedIsClean
  <2>3. CleanWire(wire')
    BY <2>1, <2>2
  <2>4. (wire # None => CleanWire(wire))'
    BY <2>3 DEF CleanWire
  <2> QED BY <2>1, <2>4 DEF WireInv, OwnWsolUntouched
<1>3. ASSUME NEW o \in Builds, NEW age \in Ages, BuildSigned(o, age) PROVE WireInv'
  <2>1. wire' \in buildSigned(o, age) /\ landed = None /\ landed' = None /\ held # None
    BY <1>3 DEF BuildSigned, WireInv
  <2>2. Shape(held.route)
    BY <2>1 DEF HeldInv
  <2>3. \A w \in buildSigned(o, age) : CleanWire(w) /\ w # None
    BY <2>2, BuiltIsClean
  <2>4. CleanWire(wire')
    BY <2>1, <2>3
  <2>5. (wire # None => CleanWire(wire))'
    BY <2>4 DEF CleanWire
  <2> QED BY <2>1, <2>5 DEF WireInv, OwnWsolUntouched
<1>4. ASSUME NEW own, Land(own) PROVE WireInv'
  <2>1. PICK w \in Outcomes(WalletWith(own)) :
           landed' = [kind |-> "landed", before |-> WalletWith(own), after |-> w]
    BY <1>4 DEF Land
  <2>2. wire' = wire /\ wire # None /\ CleanWire(wire)
    BY <1>4 DEF Land, WireInv
  <2>3. Wallet(WalletWith(own)) /\ WalletWith(own).temp = Absent
    BY DEF Wallet, WalletWith
  <2>4. landed'.before = WalletWith(own) /\ landed'.after = w
    BY <2>1
  <2>5. w # Failed => /\ w.temp = Absent
                      /\ wire.nativeInput \/ wire.nativeOutput => w.ata[Wsol] = WalletWith(own).ata[Wsol]
    BY <2>2, <2>3, Outcome
  <2>6. OwnWsolUntouched'
    BY <2>2, <2>4, <2>5 DEF OwnWsolUntouched
  <2> QED BY <1>1, <2>2, <2>6 DEF WireInv
<1>5. CASE UNCHANGED <<wire, landed>>
  <2>1. OwnWsolUntouched'
    BY <1>5 DEF WireInv, OwnWsolUntouched
  <2> QED BY <1>1, <1>5, <2>1 DEF WireInv
<1>6. \/ \E t \in Requests : PrepareTrade(t)
      \/ \E o \in Builds, age \in Ages : BuildSigned(o, age)
      \/ \E own : Land(own)
      \/ UNCHANGED <<wire, landed>>
  BY DEF RouteNext, SearchTrade, Advance, NewEpoch, Invalidate, clock, routeVars
<1> QED BY <1>2, <1>3, <1>4, <1>5, <1>6

\* No trade, whatever its route, its settlement, its tip and what its swaps pay, leaves a
\* temporary account open or touches the wrapped SOL account of a wallet whose endpoint
\* is native (native_sol.ts, pumpfun_settlement.ts, buildSigned).
THEOREM WsolUntouched == RouteSpec => []OwnWsolUntouched
<1>1. WireInv => OwnWsolUntouched
  BY DEF WireInv
<1> QED BY <1>1, HeldInvariance, WireStarts, WireSteps, PTL DEF RouteSpec

-----------------------------------------------------------------------------
(* The search finds every path, and the best of what they yield.           *)

\* The hints of some pools.
HintsOver(pools) == UNION {HintsOf(p) : p \in pools}

\* A path that goes on from where it came, passes its end nowhere, and meets no pool and
\* no asset twice.
GoesOn(path, i, from, to, avoid) ==
    /\ path[i].in = (IF i = 1 THEN from ELSE path[i - 1].out)
    /\ path[i].in # to /\ path[i].out # from /\ path[i].out \notin avoid
    /\ \A j \in 1..(i - 1) : path[j].out # path[i].out /\ path[j].pool # path[i].pool

\* A step of Walks.
Longer(path, pools, from, to, avoid) ==
    {Append(path, h) : h \in {e \in UNION {HintsOf(p) : p \in pools} :
        /\ e.in = EndOf(path, from) /\ e.in # to
        /\ e.out \notin Visited(path, from) \cup avoid
        /\ \A i \in DOMAIN path : path[i].pool # e.pool}}

\* The paths that walks are, and those that are walks.
LEMMA WalksReach ==
    ASSUME NEW pools, NEW from, NEW to, NEW avoid, NEW hops \in Nat
    PROVE  /\ Walks(pools, from, to, avoid, hops) \subseteq Seq(HintsOver(pools))
           /\ \A path \in Seq(HintsOver(pools)) :
                 /\ Len(path) <= hops
                 /\ \A i \in 1..Len(path) : GoesOn(path, i, from, to, avoid)
                 => path \in Walks(pools, from, to, avoid, hops)
<1> DEFINE H == HintsOver(pools)
           V == SUBSET Seq(H)
           L(path) == Longer(path, pools, from, to, avoid)
           Next(S) == UNION {L(path) : path \in S}
           Is(f) == f = [i \in 0..hops |-> IF i = 0 THEN {<<>>} ELSE Next(f[i - 1])]
           F == [x \in (1..hops) \X V |-> Next(x[2])]
           level == CHOOSE f : Is(f)
<1>1. Walks(pools, from, to, avoid, hops) = UNION {level[n] : n \in 0..hops}
  BY DEF Walks, Longer
<1>2. ASSUME NEW path \in Seq(H) PROVE L(path) \in V
  <2>1. \A h \in H : Append(path, h) \in Seq(H)
    <3> HIDE DEF H
    <3> QED OBVIOUS
  <2>2. \A m \in L(path) : \E h \in H : m = Append(path, h)
    BY DEF Longer, HintsOver
  <2> HIDE DEF L, H
  <2> QED BY <2>1, <2>2
<1> HIDE DEF H, L
<1>3. \A i \in 1..hops, S \in V : Next(S) \in V
  BY <1>2
<1>4. {<<>>} \in V
  OBVIOUS
<1>5. \E f : Is(f) /\ f \in [0..hops -> V]
  <2> HIDE DEF Next
  <2>1. Stepping(F, hops, V)
    <3> HIDE DEF V
    <3> QED BY <1>3 DEF Stepping
  <2>2. \A i \in 1..hops, S \in V : F[<<i, S>>] = Next(S)
    OBVIOUS
  <2> DEFINE first == {<<>>}
  <2> HIDE DEF F, V, first
  <2>3. PICK f : Recursion(f, hops, V, first, F)
    BY <1>4, <2>1, Recursive DEF first
  <2>4. f \in [0..hops -> V] /\ f[0] = first /\ \A i \in 1..hops : i - 1 \in 0..hops /\ f[i] = Next(f[i - 1])
    <3>1. \A i \in 1..hops : i - 1 \in 0..hops
      OBVIOUS
    <3> QED BY <2>2, <2>3, <3>1 DEF Recursion
  <2>5. Is(f)
    BY <2>4 DEF first
  <2> HIDE DEF Is
  <2> QED BY <2>4, <2>5
<1>6. Is(level)
  <2> HIDE DEF Is
  <2> QED BY <1>5
<1> HIDE DEF level, F
<1>7. level[0] = {<<>>} /\ \A i \in 1..hops : i \in 0..hops /\ level[i] = Next(level[i - 1])
  <2> HIDE DEF Next
  <2> DEFINE first == {<<>>}
  <2> HIDE DEF first
  <2>1. level = [i \in 0..hops |-> IF i = 0 THEN first ELSE Next(level[i - 1])]
    BY <1>6 DEF first
  <2>2. 0 \in 0..hops /\ \A i \in 1..hops : i \in 0..hops /\ i # 0
    OBVIOUS
  <2>3. level[0] = first /\ \A i \in 1..hops : level[i] = Next(level[i - 1])
    BY <2>1, <2>2
  <2> QED BY <2>2, <2>3 DEF first
<1>8. \A n \in 0..hops : level[n] \in V
  <2> DEFINE Good == {n \in 0..hops : level[n] \in V}
  <2>1. 0 \in Good
    <3> DEFINE first == {<<>>}
    <3> HIDE DEF Next, V, first
    <3>1. level[0] = first
      BY <1>7 DEF first
    <3>2. first \in V
      BY <1>4 DEF first
    <3>3. 0 \in 0..hops
      OBVIOUS
    <3> QED BY <3>1, <3>2, <3>3
  <2>2. ASSUME NEW i \in 1..hops, i - 1 \in Good PROVE i \in Good
    <3> HIDE DEF Next, V
    <3> QED BY <1>3, <1>7, <2>2
  <2>3. \A n \in 0..hops : n \in Good
    <3> HIDE DEF Good
    <3> QED BY <2>1, <2>2, UpTo
  <2> HIDE DEF V
  <2> QED BY <2>3
<1>9. Walks(pools, from, to, avoid, hops) \subseteq Seq(H)
  BY <1>1, <1>8
<1>10. ASSUME NEW path \in Seq(H), Len(path) <= hops,
              \A i \in 1..Len(path) : GoesOn(path, i, from, to, avoid)
       PROVE  path \in Walks(pools, from, to, avoid, hops)
  <2> DEFINE n == Len(path)
             upto(i) == [j \in 1..i |-> path[j]]
             Good == {i \in 0..n : upto(i) \in level[i]}
  <2>1. n \in Nat /\ n \in 0..hops /\ path = upto(n) /\ \A i \in 1..n : path[i] \in H /\ i \in 1..hops
    BY <1>10
  <2>2. \A i \in 0..n : /\ upto(i) \in Seq(H) /\ Len(upto(i)) = i
                        /\ \A j \in 1..i : upto(i)[j] = path[j]
    BY <2>1
  <2> HIDE DEF upto, n
  <2>3. 0 \in Good
    <3>1. upto(0) = <<>>
      BY <2>1 DEF upto
    <3> QED BY <1>7, <2>1, <3>1
  <2>4. ASSUME NEW i \in 1..n, i - 1 \in Good PROVE i \in Good
    <3> DEFINE p == upto(i - 1)  h == path[i]
    <3>1. i - 1 \in 0..n /\ p \in level[i - 1] /\ i \in 0..n /\ i \in 1..hops /\ h \in H
      BY <2>1, <2>4
    <3>2. p \in Seq(H) /\ Len(p) = i - 1 /\ \A j \in 1..(i - 1) : p[j] = path[j]
      BY <2>2, <3>1
    <3>3. upto(i) = Append(p, h)
      <4>1. Append(p, h) \in Seq(H) /\ Len(Append(p, h)) = i
        BY <3>1, <3>2
      <4>2. \A j \in 1..i : Append(p, h)[j] = path[j]
        <5> SUFFICES ASSUME NEW j \in 1..i PROVE Append(p, h)[j] = path[j]
          OBVIOUS
        <5>1. CASE j = i
          <6>1. Append(p, h)[Len(p) + 1] = h
            BY <3>1, <3>2
          <6> QED BY <3>2, <5>1, <6>1
        <5>2. CASE j # i
          <6>1. j \in 1..(i - 1)
            BY <5>2
          <6> HIDE DEF p, h
          <6> QED BY <3>1, <3>2, <6>1
        <5> QED BY <5>1, <5>2
      <4>3. upto(i) \in Seq(H) /\ Len(upto(i)) = i /\ \A j \in 1..i : upto(i)[j] = path[j]
        BY <2>2, <3>1
      <4> HIDE DEF p, h
      <4> QED BY <4>1, <4>2, <4>3
    <3> HIDE DEF p
    <3>4. GoesOn(path, i, from, to, avoid)
      BY <1>10 DEF n
    <3>5. h.in = EndOf(p, from)
      <4>1. CASE i = 1
        <5>1. p = <<>>
          BY <3>2, <4>1
        <5> QED BY <3>4, <4>1, <5>1 DEF EndOf, GoesOn
      <4>2. CASE i # 1
        <5>1. i - 1 \in 1..(i - 1)
          BY <4>2
        <5>2. p # <<>> /\ Last(p) = path[i - 1]
          BY <3>2, <4>2, <5>1 DEF Last
        <5> QED BY <3>4, <4>2, <5>2 DEF EndOf, GoesOn
      <4> QED BY <4>1, <4>2
    <3>6. h.in # to /\ h.out \notin Visited(p, from) \cup avoid
      <4>1. \A j \in DOMAIN p : p[j].out # h.out
        BY <3>2, <3>4 DEF GoesOn
      <4> QED BY <3>4, <4>1 DEF GoesOn, Visited
    <3>7. \A j \in DOMAIN p : p[j].pool # h.pool
      BY <3>2, <3>4 DEF GoesOn
    <3>8. upto(i) \in L(p)
      <4> HIDE DEF h
      <4>1. h \in UNION {HintsOf(x) : x \in pools}
        BY <3>1 DEF H, HintsOver
      <4> QED BY <3>3, <3>5, <3>6, <3>7, <4>1 DEF L, Longer
    <3>9. upto(i) \in Next(level[i - 1])
      BY <3>1, <3>8
    <3> HIDE DEF Next
    <3> QED BY <1>7, <3>1, <3>9
  <2>5. n \in Good
    <3>1. n \in Nat
      BY <2>1
    <3> HIDE DEF Good
    <3>2. \A i \in 0..n : i \in Good
      BY <2>3, <2>4, <3>1, UpTo
    <3> QED BY <3>1, <3>2
  <2>6. path \in level[n]
    BY <2>1, <2>5
  <2> QED BY <1>1, <2>1, <2>6
<1> QED BY <1>9, <1>10 DEF H

\* A conversion, around the anchor of a search.
Around(s, c) == IF s.type = "Buy" THEN Append(c, AnchorHint(s)) ELSE <<AnchorHint(s)>> \o c

\* A request of known pools (TradeAssumption).
IsSearch(s) ==
    s.type \in {"Buy", "Sell"} /\ s.hops \in Nat /\ s.pool \in Pools /\ s.pools \subseteq Pools

\* A purchase that could be made is one the search meets.
LEMMA BuyIsMet ==
    ASSUME NEW s, IsSearch(s), s.type = "Buy", NEW n \in 0..s.hops, NEW c \in [1..n -> HintsOver(s.pools)],
           RouteIsValid(Around(s, c)), Around(s, c)[1].in = s.asset, Last(Around(s, c)).out = s.token
    PROVE  c \in Conversions(s)
<1> DEFINE H == HintsOver(s.pools)  a == AnchorHint(s)  try == Append(c, a)
           from == s.asset  to == a.in  avoid == {s.token}
           m == n + 1
<1>1. n \in Nat /\ n <= s.hops /\ s.hops \in Nat
  BY DEF IsSearch
<1>2. c \in Seq(H) /\ Len(c) = n
  BY <1>1
<1>3. Around(s, c) = try
  BY DEF Around
<1> HIDE DEF a, H
<1>4. c \in Seq(H \cup {a})
  BY <1>2
<1>5. try \in Seq(H \cup {a}) /\ Len(try) = m /\ try[m] = a
  BY <1>2, <1>4
<1>6. \A i \in 1..n : try[i] = c[i]
  BY <1>2, <1>4
<1> HIDE DEF try
<1>7. /\ \A i, j \in 1..m : i # j => try[i].pool # try[j].pool /\ try[i].out # try[j].out
      /\ \A i \in 1..m : try[i].out # try[1].in
      /\ \A i \in 2..m : try[i - 1].out = try[i].in
  BY <1>3, <1>5 DEF RouteIsValid
<1>8. try[1].in = from /\ try[m].out = s.token
  <2>1. Last(try) = try[m]
    BY <1>5 DEF Last
  <2> QED BY <1>3, <2>1
<1>9. EndOf(c, from) = to
  <2>1. CASE n = 0
    <3>1. c = <<>> /\ m = 1
      BY <1>2, <2>1
    <3> QED BY <1>5, <1>8, <3>1 DEF EndOf
  <2>2. CASE n # 0
    <3>1. c # <<>> /\ Last(c) = c[n] /\ n \in 1..n
      BY <1>1, <1>2, <2>2 DEF Last
    <3>2. try[m - 1].out = try[m].in /\ m - 1 = n
      <4>1. m \in 2..m /\ m - 1 = n
        BY <1>1, <2>2
      <4> QED BY <1>7, <4>1
    <3> QED BY <1>5, <1>6, <3>1, <3>2 DEF EndOf
  <2> QED BY <2>1, <2>2
<1>10. ASSUME NEW i \in 1..n PROVE GoesOn(c, i, from, to, avoid)
  <2>1. /\ i \in 1..m /\ m \in 1..m /\ m # i /\ try[i] = c[i] /\ n \in 1..n /\ n \in 1..m /\ n = m - 1
        /\ m \in 2..m
    BY <1>1, <1>6
  <2>2. to = try[n].out
    <3>1. try[m - 1].out = try[m].in
      BY <1>7, <2>1
    <3> QED BY <1>5, <2>1, <3>1
  <2>3. c[i].in = (IF i = 1 THEN from ELSE c[i - 1].out) /\ c[i].in # to
    <3>1. CASE i = 1
      <4>1. try[n].out # try[1].in
        BY <1>7, <2>1
      <4> QED BY <1>8, <2>1, <2>2, <3>1, <4>1
    <3>2. CASE i # 1
      <4>1. i \in 2..m /\ i - 1 \in 1..n /\ i - 1 \in 1..m /\ i - 1 # n
        BY <1>1, <3>2
      <4>2. try[i - 1].out = try[i].in /\ try[i - 1].out # try[n].out /\ try[i - 1] = c[i - 1]
        BY <1>6, <1>7, <2>1, <4>1
      <4> QED BY <2>1, <2>2, <3>2, <4>2
    <3> QED BY <3>1, <3>2
  <2>4. c[i].out # from /\ c[i].out \notin avoid
    BY <1>7, <1>8, <2>1
  <2>5. ASSUME NEW j \in 1..(i - 1) PROVE c[j].out # c[i].out /\ c[j].pool # c[i].pool
    <3>1. j \in 1..n /\ j \in 1..m /\ j # i
      BY <1>1
    <3> QED BY SMTT(30), <1>6, <1>7, <2>1, <3>1
  <2> QED BY <2>3, <2>4, <2>5 DEF GoesOn
<1>11. c \in Walks(s.pools, from, to, avoid, s.hops)
  <2>1. c \in Seq(HintsOver(s.pools)) /\ Len(c) <= s.hops /\ \A i \in 1..Len(c) : GoesOn(c, i, from, to, avoid)
    BY <1>1, <1>2, <1>10 DEF H
  <2> HIDE DEF from, to, avoid
  <2> QED BY <1>1, <2>1, WalksReach
<1> QED BY <1>9, <1>11 DEF Conversions, Visits, a

\* And so is a sale.
LEMMA SaleIsMet ==
    ASSUME NEW s, IsSearch(s), s.type # "Buy", NEW n \in 0..s.hops, NEW c \in [1..n -> HintsOver(s.pools)],
           RouteIsValid(Around(s, c)), Around(s, c)[1].in = s.token, Last(Around(s, c)).out = s.asset
    PROVE  c \in Conversions(s)
<1> DEFINE H == HintsOver(s.pools)  a == AnchorHint(s)  try == <<a>> \o c
           from == a.out  to == s.asset  avoid == {s.token}
           m == n + 1
<1>1. n \in Nat /\ n <= s.hops /\ s.hops \in Nat
  BY DEF IsSearch
<1>2. c \in Seq(H) /\ Len(c) = n
  BY <1>1
<1>3. Around(s, c) = try
  BY DEF Around
<1> HIDE DEF a, H
<1>4. c \in Seq(H \cup {a})
  BY <1>2
<1>5. try \in Seq(H \cup {a}) /\ Len(try) = m /\ try[1] = a
  BY <1>2, <1>4
<1>6. \A i \in 1..n : try[i + 1] = c[i]
  BY <1>2, <1>4
<1> HIDE DEF try
<1>7. /\ \A i, j \in 1..m : i # j => try[i].pool # try[j].pool /\ try[i].out # try[j].out
      /\ \A i \in 1..m : try[i].out # try[1].in
      /\ \A i \in 2..m : try[i - 1].out = try[i].in
  BY <1>3, <1>5 DEF RouteIsValid
<1>8. try[1].in = s.token /\ try[m].out = to
  <2>1. Last(try) = try[m]
    BY <1>5 DEF Last
  <2> QED BY <1>3, <2>1
<1>9. EndOf(c, from) = to
  <2>1. CASE n = 0
    <3>1. c = <<>> /\ m = 1
      BY <1>2, <2>1
    <3> QED BY <1>5, <1>8, <3>1 DEF EndOf
  <2>2. CASE n # 0
    <3>1. c # <<>> /\ Last(c) = c[n] /\ n \in 1..n
      BY <1>1, <1>2, <2>2 DEF Last
    <3> QED BY <1>6, <1>8, <3>1 DEF EndOf
  <2> QED BY <2>1, <2>2
<1>10. ASSUME NEW i \in 1..n PROVE GoesOn(c, i, from, to, avoid)
  <2>1. /\ i \in 1..m /\ i + 1 \in 1..m /\ i + 1 \in 2..m /\ m \in 1..m /\ m # i /\ 1 \in 1..m /\ i + 1 # 1
        /\ i + 1 - 1 = i /\ try[i + 1] = c[i]
    BY <1>1, <1>6
  <2>2. c[i].in = try[i].out
    <3>1. try[i + 1 - 1].out = try[i + 1].in
      BY <1>7, <2>1
    <3> QED BY <2>1, <3>1
  <2>3. c[i].in = (IF i = 1 THEN from ELSE c[i - 1].out)
    <3>1. CASE i = 1
      BY <1>5, <2>2, <3>1
    <3>2. CASE i # 1
      <4>1. i - 1 \in 1..n /\ i - 1 + 1 = i
        BY <1>1, <3>2
      <4>2. try[i - 1 + 1] = c[i - 1]
        BY <1>6, <4>1
      <4> QED BY <2>2, <3>2, <4>1, <4>2
    <3> QED BY <3>1, <3>2
  <2>4. c[i].in # to
    <3>1. try[i].out # try[m].out
      BY <1>7, <2>1
    <3> QED BY <1>8, <2>2, <3>1
  <2>5. c[i].out # from /\ c[i].out \notin avoid
    <3>1. try[i + 1].out # try[1].out /\ try[i + 1].out # try[1].in
      BY <1>7, <2>1
    <3> QED BY <1>5, <1>8, <2>1, <3>1
  <2>6. ASSUME NEW j \in 1..(i - 1) PROVE c[j].out # c[i].out /\ c[j].pool # c[i].pool
    <3>1. j \in 1..n /\ j + 1 \in 1..m /\ j + 1 # i + 1
      BY <1>1
    <3>2. try[j + 1].out # try[i + 1].out /\ try[j + 1].pool # try[i + 1].pool
      BY <1>7, <2>1, <3>1
    <3>3. try[j + 1] = c[j]
      BY <1>6, <3>1
    <3> QED BY <2>1, <3>2, <3>3
  <2> QED BY <2>3, <2>4, <2>5, <2>6 DEF GoesOn
<1>11. c \in Walks(s.pools, from, to, avoid, s.hops)
  <2>1. c \in Seq(HintsOver(s.pools)) /\ Len(c) <= s.hops /\ \A i \in 1..Len(c) : GoesOn(c, i, from, to, avoid)
    BY <1>1, <1>2, <1>10 DEF H
  <2> HIDE DEF from, to, avoid
  <2> QED BY <1>1, <2>1, WalksReach
<1> QED BY <1>9, <1>11 DEF Conversions, Visits, a

\* The hints of a conversion around the anchor are of known pools.
LEMMA AroundKnown ==
    ASSUME NEW s, IsSearch(s), NEW c \in Seq(HintsOver(s.pools))
    PROVE  \A i \in 1..Len(Around(s, c)) : Around(s, c)[i].pool \in Pools
<1> DEFINE a == AnchorHint(s)  H == HintsOver(s.pools)  K == H \cup {a}
<1>1. a.pool = s.pool
  BY DEF AnchorHint, Hint
<1>2. \A h \in H : h.pool \in s.pools
  BY DEF HintsOver, HintsOf, Hint
<1> HIDE DEF a, H
<1>3. \A h \in K : h.pool \in Pools
  BY <1>1, <1>2 DEF IsSearch
<1>4. c \in Seq(K)
  BY DEF H
<1> HIDE DEF K
<1>5. Around(s, c) \in Seq(K)
  <2>1. a \in K
    BY DEF K
  <2>2. Append(c, a) \in Seq(K) /\ <<a>> \o c \in Seq(K)
    BY <1>4, <2>1
  <2> QED BY <2>2 DEF Around, a
<1> QED BY <1>3, <1>5

\* What the search yields, whatever else the caller might have tried.
LEMMA SearchIsBest ==
    ASSUME NEW s, IsSearch(s), NEW best \in searchPumpSwapTrade(s),
           NEW try \in Tries(s), NEW r \in preparePumpSwapTrade(s, try)
    PROVE  best.min >= r.min
<1> DEFINE paths == {Around(s, c) : c \in Conversions(s)}
           routes == UNION {preparePumpSwapTrade(s, path) : path \in paths}
           limits == [anchor |-> s.pool, slip |-> s.bridgeSlip, impact |-> s.impact]
           hints == HintsOver(s.pools)
           conversions == UNION {[1..n -> hints] : n \in 0..s.hops}
           start == IF s.type = "Buy" THEN s.asset ELSE s.token
           end == IF s.type = "Buy" THEN s.token ELSE s.asset
<1>1. best \in routes /\ \A q \in routes : q = best \/ Better(best, q)
  BY DEF searchPumpSwapTrade, Around, Thrown
<1>2. \A path : preparePumpSwapTrade(s, path) = prepareCachedRoute(path, s.amount, s.slip, FALSE, limits)
  BY DEF preparePumpSwapTrade
<1>3. Tries(s) = {c \in {Around(s, c) : c \in conversions} : c[1].in = start /\ Last(c).out = end}
  BY DEF Tries, Around, HintsOver
<1> HIDE DEF limits, start, end
<1>4. PICK c \in conversions : try = Around(s, c) /\ try[1].in = start /\ Last(try).out = end
  BY <1>3
<1>5. PICK n \in 0..s.hops : c \in [1..n -> hints]
  BY <1>4
<1>6. c \in Seq(hints) /\ n \in Nat
  BY <1>5 DEF IsSearch
<1>7. RouteIsValid(try)
  <2>1. r \in prepareCachedRoute(try, s.amount, s.slip, FALSE, limits)
    BY <1>2
  <2>2. Follows(r, try)
    BY <2>1, RouteOfHints
  <2> QED BY <2>2 DEF Follows
<1> HIDE DEF hints, conversions
<1>8. c \in Conversions(s)
  <2>1. CASE s.type = "Buy"
    BY <1>4, <1>5, <1>7, <2>1, BuyIsMet DEF start, end, hints
  <2>2. CASE s.type # "Buy"
    BY <1>4, <1>5, <1>7, <2>2, SaleIsMet DEF start, end, hints
  <2> QED BY <2>1, <2>2
<1>9. r \in routes
  BY <1>4, <1>8
<1>10. ASSUME NEW q \in routes PROVE q.min \in Nat
  <2>1. PICK d \in Conversions(s) : q \in preparePumpSwapTrade(s, Around(s, d))
    OBVIOUS
  <2>2. d \in Seq(HintsOver(s.pools))
    <3>1. d \in Visits(s) /\ s.hops \in Nat
      BY <2>1 DEF Conversions, IsSearch
    <3>2. Visits(s) \subseteq Seq(HintsOver(s.pools))
      BY <3>1, WalksReach DEF Visits
    <3> QED BY <3>1, <3>2
  <2>3. \A i \in 1..Len(Around(s, d)) : Around(s, d)[i].pool \in Pools
    BY <2>2, AroundKnown
  <2> DEFINE path == Around(s, d)
  <2>4. q \in prepareCachedRoute(path, s.amount, s.slip, FALSE, limits)
    BY <1>2, <2>1
  <2> HIDE DEF path, routes
  <2>5. Chained(q, path, s.amount)
    BY <2>3, <2>4, RouteIsPriced DEF path
  <2>6. PICK p \in Partials(s.amount) : q.min = p.spend
    BY <2>5 DEF Chained
  <2> QED BY <2>6 DEF Partials
<1> HIDE DEF routes
<1>11. best.min \in Nat /\ r.min \in Nat /\ (r = best \/ Better(best, r))
  BY <1>1, <1>9, <1>10
<1> QED BY <1>11 DEF Better

\* A held trade is one its search found.
FoundInv == held # None => held.search \in Searches /\ held.route \in searchPumpSwapTrade(held.search)

\* It holds at first.
LEMMA FoundStarts == RouteInit => FoundInv
BY DEF RouteInit, FoundInv

\* Every step preserves it.
LEMMA FoundSteps == FoundInv /\ [RouteNext]_routeVars => FoundInv'
<1> SUFFICES ASSUME FoundInv, [RouteNext]_routeVars PROVE FoundInv'
  OBVIOUS
<1>1. ASSUME NEW s \in Searches, NEW age \in Ages, SearchTrade(s, age) PROVE FoundInv'
  <2>1. PICK r \in searchPumpSwapTrade(s) :
           held' = [kind |-> "held", search |-> s, route |-> r,
                    context |-> [slot |-> slot, epoch |-> epoch, age |-> age]]
    BY <1>1 DEF SearchTrade, Context
  <2>2. held'.search = s /\ held'.route = r
    BY <2>1
  <2> QED BY <2>1, <2>2 DEF FoundInv
<1>2. ASSUME ~ \E s \in Searches, age \in Ages : SearchTrade(s, age) PROVE held' = held
  BY <1>2 DEF RouteNext, routeVars, PrepareTrade, BuildSigned, Land, Advance, NewEpoch, Invalidate
<1> QED BY <1>1, <1>2 DEF FoundInv

\* No try around the anchor beats the trade that the search holds
\* (searchPumpSwapTradeWithTopology).
THEOREM SearchHoldsBest == RouteSpec => []BestRoute
<1>1. FoundInv => BestRoute
  <2> SUFFICES ASSUME FoundInv, held # None, NEW try \in Tries(held.search),
                      NEW r \in preparePumpSwapTrade(held.search, try)
               PROVE  held.route.min >= r.min
    BY DEF BestRoute
  <2>1. held.search \in Searches /\ held.route \in searchPumpSwapTrade(held.search)
    BY DEF FoundInv
  <2> DEFINE s == held.search  best == held.route
  <2>2. IsSearch(s)
    <3> HIDE DEF s
    <3> QED BY <2>1, TradeAssumption DEF IsSearch, s
  <2> HIDE DEF s, best
  <2> QED BY <2>1, <2>2, SearchIsBest DEF s, best
<1> QED BY <1>1, FoundStarts, FoundSteps, PTL DEF RouteSpec

-----------------------------------------------------------------------------
(* What a transaction needs, and what it leaves: least balances.           *)

\* The accounts of a wallet, and least balances of them.
Acc == Mints \cup {"lamports", "temp"}
Floors == [Acc -> {n \in Int : n >= Absent}]
Plus(f, a, n) == [f EXCEPT ![a] = @ + n]

\* A wallet with at least these balances, and with a temporary account only if they have one.
Has(w, f) ==
    /\ Wallet(w) /\ \A a \in Acc : Balance(w, a) \in Int /\ Balance(w, a) >= f[a]
    /\ f["temp"] = Absent => w.temp = Absent

\* The accounts are apart.
LEMMA AccountsApart ==
    /\ "lamports" \in Acc /\ "temp" \in Acc /\ Wsol \in Acc /\ Wsol \in Mints
    /\ "lamports" # "temp" /\ \A m \in Mints : m \in Acc /\ m # "lamports" /\ m # "temp"
BY RoutesAssumption, TradeAssumption DEF Acc

\* A wallet is not a failure.
LEMMA WalletIsFine == ASSUME NEW w, Wallet(w) PROVE w # Failed
<1>1. DOMAIN w = {"lamports", "temp", "ata"}
  BY DEF Wallet
<1>2. DOMAIN Failed = {"failed"}
  BY DEF Failed
<1> QED BY <1>1, <1>2

\* A credit to an account that is there.
LEMMA CreditIs ==
    ASSUME NEW w, Wallet(w), NEW c \in Acc, NEW n \in Int, Balance(w, c) # Absent
    PROVE  /\ Wallet(Credit(w, c, n))
           /\ \A a \in Acc : Balance(Credit(w, c, n), a) = IF a = c THEN Balance(w, a) + n ELSE Balance(w, a)
<1> DEFINE v == Credit(w, c, n)
<1>1. CASE c = "lamports"
  <2>1. v = [w EXCEPT !.lamports = @ + n]
    BY <1>1 DEF Credit
  <2>2. v = [lamports |-> w.lamports + n, temp |-> w.temp, ata |-> w.ata]
    BY <2>1 DEF Wallet
  <2> HIDE DEF v
  <2>3. v.lamports = w.lamports + n /\ v.temp = w.temp /\ v.ata = w.ata
    BY <2>2
  <2>4. Wallet(v)
    BY <2>2, <2>3 DEF Wallet
  <2>5. \A a \in Acc : Balance(v, a) = IF a = c THEN Balance(w, a) + n ELSE Balance(w, a)
    BY <1>1, <2>3 DEF Balance
  <2> QED BY <2>4, <2>5 DEF v
<1>2. CASE c = "temp"
  <2>1. v = [w EXCEPT !.temp = @ + n]
    BY <1>2 DEF Credit, Balance
  <2>2. v = [lamports |-> w.lamports, temp |-> w.temp + n, ata |-> w.ata]
    BY <2>1 DEF Wallet
  <2> HIDE DEF v
  <2>3. v.lamports = w.lamports /\ v.temp = w.temp + n /\ v.ata = w.ata
    BY <2>2
  <2>4. Wallet(v)
    BY <2>2, <2>3 DEF Wallet
  <2>5. \A a \in Acc : Balance(v, a) = IF a = c THEN Balance(w, a) + n ELSE Balance(w, a)
    BY <1>2, <2>3 DEF Balance
  <2> QED BY <2>4, <2>5 DEF v
<1>3. CASE c # "lamports" /\ c # "temp"
  <2>0. c \in Mints
    BY <1>3 DEF Acc
  <2>1. v = [w EXCEPT !.ata[c] = @ + n]
    BY <1>3 DEF Credit
  <2>2. v = [lamports |-> w.lamports, temp |-> w.temp, ata |-> [w.ata EXCEPT ![c] = @ + n]]
    BY <2>1 DEF Wallet
  <2>3. [w.ata EXCEPT ![c] = @ + n] = [m \in Mints |-> IF m = c THEN w.ata[c] + n ELSE w.ata[m]]
    BY DEF Wallet
  <2> HIDE DEF v
  <2>4. /\ v.lamports = w.lamports /\ v.temp = w.temp
        /\ v.ata = [m \in Mints |-> IF m = c THEN w.ata[c] + n ELSE w.ata[m]]
    BY <2>2, <2>3
  <2>5. v.ata = [m \in Mints |-> v.ata[m]] /\ v = [lamports |-> v.lamports, temp |-> v.temp, ata |-> v.ata]
    BY <2>2, <2>4
  <2>6. Wallet(v)
    BY <2>5 DEF Wallet
  <2>7. ASSUME NEW a \in Acc PROVE Balance(v, a) = IF a = c THEN Balance(w, a) + n ELSE Balance(w, a)
    <3>1. CASE a = "lamports" \/ a = "temp"
      BY <1>3, <2>4, <3>1 DEF Balance
    <3>2. CASE a # "lamports" /\ a # "temp"
      <4>1. a \in Mints
        BY <3>2 DEF Acc
      <4>2. v.ata[a] = IF a = c THEN w.ata[c] + n ELSE w.ata[a]
        BY <2>4, <4>1
      <4> QED BY <3>2, <4>2 DEF Balance
    <3> QED BY <3>1, <3>2
  <2> QED BY <2>6, <2>7 DEF v
<1> QED BY <1>1, <1>2, <1>3

\* A balance that changes.
LEMMA PlusIs ==
    ASSUME NEW f \in Floors, NEW c \in Acc, NEW n \in Int, f[c] + n >= Absent
    PROVE  /\ Plus(f, c, n) \in Floors
           /\ \A a \in Acc : Plus(f, c, n)[a] = IF a = c THEN f[c] + n ELSE f[a]
<1> DEFINE g == Plus(f, c, n)
<1>1. g = [a \in Acc |-> IF a = c THEN f[c] + n ELSE f[a]]
  BY DEF Plus, Floors
<1>2. \A a \in Acc : f[a] \in Int /\ f[a] >= Absent
  BY DEF Floors
<1>3. \A a \in Acc : (IF a = c THEN f[c] + n ELSE f[a]) \in {k \in Int : k >= Absent}
  BY <1>2
<1> HIDE DEF g
<1>4. g \in Floors /\ \A a \in Acc : g[a] = IF a = c THEN f[c] + n ELSE f[a]
  BY <1>1, <1>3 DEF Floors
<1> QED BY <1>4 DEF g

\* What an account gains or loses at least, as long as it does not fall below nothing.
LEMMA Adds ==
    ASSUME NEW f \in Floors, NEW w, Has(w, f), NEW c \in Acc, NEW n \in Int, NEW m \in Int, m >= n,
           f[c] >= 0, f[c] + n >= 0
    PROVE  /\ Plus(f, c, n) \in Floors /\ Has(Credit(w, c, m), Plus(f, c, n))
           /\ Credit(w, c, m) # Failed
<1> DEFINE v == Credit(w, c, m)  g == Plus(f, c, n)
<1>1. /\ Wallet(w) /\ \A a \in Acc : f[a] \in Int /\ f[a] >= Absent /\ Balance(w, a) \in Int /\ Balance(w, a) >= f[a]
      /\ f["temp"] = Absent => w.temp = Absent
  BY DEF Has, Floors
<1>2. Balance(w, c) # Absent
  BY <1>1 DEF Absent
<1>3. Wallet(v) /\ \A a \in Acc : Balance(v, a) = IF a = c THEN Balance(w, a) + m ELSE Balance(w, a)
  BY <1>1, <1>2, CreditIs
<1> HIDE DEF v
<1>4. f[c] + n >= Absent
  BY <1>1 DEF Absent
<1>5. g \in Floors /\ \A a \in Acc : g[a] = IF a = c THEN f[c] + n ELSE f[a]
  BY <1>4, PlusIs
<1> HIDE DEF g
<1>7. \A a \in Acc : Balance(v, a) \in Int /\ Balance(v, a) >= g[a]
  BY <1>1, <1>3, <1>5
<1>8. g["temp"] = Absent => v.temp = Absent
  <2>1. Balance(v, "temp") = v.temp /\ Balance(w, "temp") = w.temp
    BY DEF Balance
  <2>2. CASE c = "temp"
    BY <1>1, <1>5, <2>2 DEF Absent
  <2>3. CASE c # "temp"
    BY <1>1, <1>3, <1>5, <2>1, <2>3, AccountsApart
  <2> QED BY <2>2, <2>3
<1>9. Has(v, g) /\ v # Failed
  BY <1>3, <1>7, <1>8, WalletIsFine DEF Has
<1> QED BY <1>5, <1>9 DEF v, g

\* A debit of what is there.
LEMMA Takes ==
    ASSUME NEW f \in Floors, NEW w, Has(w, f), NEW c \in Acc, NEW n \in Nat, f[c] >= n
    PROVE  /\ Plus(f, c, -n) \in Floors /\ Has(Debit(w, c, n), Plus(f, c, -n))
           /\ Debit(w, c, n) # Failed
<1>1. Balance(w, c) \in Int /\ Balance(w, c) >= f[c] /\ f[c] \in Int
  BY DEF Has, Floors
<1>2. Debit(w, c, n) = Credit(w, c, -n)
  BY <1>1 DEF Debit
<1>3. -n \in Int /\ -n >= -n /\ f[c] >= 0 /\ f[c] + (-n) >= 0
  BY <1>1
<1> DEFINE k == -n
<1>4. Debit(w, c, n) = Credit(w, c, k) /\ k \in Int /\ k >= k /\ f[c] >= 0 /\ f[c] + k >= 0
  BY <1>2, <1>3
<1> HIDE DEF k
<1>5. Plus(f, c, k) \in Floors /\ Has(Credit(w, c, k), Plus(f, c, k)) /\ Credit(w, c, k) # Failed
  BY <1>4, Adds
<1>6. Plus(f, c, k) \in Floors /\ Has(Debit(w, c, n), Plus(f, c, k)) /\ Debit(w, c, n) # Failed
  BY <1>4, <1>5
<1> QED BY <1>6 DEF k

\* From one account to another.
LEMMA Moves ==
    ASSUME NEW f \in Floors, NEW w, Has(w, f), NEW a \in Acc, NEW b \in Acc, a # b,
           NEW n \in Nat, f[a] >= n, f[b] >= 0, NEW k \in Nat, NEW m \in Int, m >= k
    PROVE  LET g == Plus(Plus(f, a, -n), b, k)
           IN  g \in Floors /\ Has(Move(w, a, b, n, m), g) /\ Move(w, a, b, n, m) # Failed
<1> DEFINE d == Debit(w, a, n)  e == Plus(f, a, -n)
<1>1. e \in Floors /\ Has(d, e) /\ d # Failed
  BY Takes
<1>2. e[b] = f[b]
  BY DEF Plus, Floors
<1>3. Move(w, a, b, n, m) = Credit(d, b, m)
  BY <1>1 DEF Move
<1>4. e[b] >= 0 /\ e[b] + k >= 0
  <2>1. f[b] \in Int
    BY DEF Floors
  <2> HIDE DEF e
  <2> QED BY <1>2, <2>1
<1> HIDE DEF d, e
<1>5. Plus(e, b, k) \in Floors /\ Has(Credit(d, b, m), Plus(e, b, k)) /\ Credit(d, b, m) # Failed
  BY <1>1, <1>4, Adds
<1> QED BY <1>3, <1>5 DEF e

\* Less is had as well.
LEMMA HasLess ==
    ASSUME NEW f, NEW g, NEW w, Has(w, f), \A a \in Acc : f[a] \in Int /\ g[a] \in Int /\ g[a] <= f[a],
           g["temp"] = Absent => f["temp"] = Absent
    PROVE  Has(w, g)
BY DEF Has

\* An instruction that takes every wallet with the balances f to one with the balances g.
Turns(f, ix, g) ==
    /\ f \in Floors /\ g \in Floors
    /\ \A w : Has(w, f) => \A v \in ExecuteInstruction(w, ix) : Has(v, g)

\* Nothing but the payer's signature counts (nonce, compute budget).
LEMMA IdleTurns ==
    ASSUME NEW f \in Floors, NEW ix, ix.op \in {"nonceAdvance", "computeBudget"}
    PROVE  Turns(f, ix, f)
<1>1. ASSUME NEW w, Has(w, f) PROVE ExecuteInstruction(w, ix) = {w}
  <2>1. w # Failed
    BY <1>1, WalletIsFine DEF Has
  <2> QED BY <2>1 DEF ExecuteInstruction
<1> QED BY <1>1 DEF Turns

\* A tip.
LEMMA TransferTurns ==
    ASSUME NEW f \in Floors, NEW n \in Nat, f["lamports"] >= n
    PROVE  Turns(f, Transfer(n), Plus(f, "lamports", -n))
<1> DEFINE c == "lamports"  ix == Transfer(n)  k == -n
<1>1. c \in Acc /\ ix.op = "transfer" /\ ix.amount = n /\ f[c] >= n
  BY AccountsApart DEF Transfer
<1>2. ASSUME NEW w, Has(w, f) PROVE ExecuteInstruction(w, ix) = {Debit(w, c, n)}
  <2>1. w # Failed
    BY <1>2, WalletIsFine DEF Has
  <2> HIDE DEF ix
  <2> QED BY <1>1, <2>1 DEF ExecuteInstruction
<1>3. f[c] \in Int /\ k \in Int /\ f[c] + k >= Absent
  BY <1>1 DEF Floors, Absent
<1> HIDE DEF c, ix
<1>4. ASSUME NEW w, Has(w, f) PROVE Has(Debit(w, c, n), Plus(f, c, k))
  BY <1>1, <1>4, Takes
<1> HIDE DEF k
<1>5. Plus(f, c, k) \in Floors
  BY <1>1, <1>3, PlusIs
<1>6. Turns(f, ix, Plus(f, c, k))
  BY <1>2, <1>4, <1>5 DEF Turns
<1> QED BY <1>6 DEF c, ix, k

\* What an instruction takes from an account, and what it gives to another at least.
LEMMA MoveTurns ==
    ASSUME NEW f \in Floors, NEW a \in Acc, NEW b \in Acc, a # b,
           NEW n \in Nat, f[a] >= n, f[b] >= 0, NEW k \in Nat, NEW ix,
           \A w : Has(w, f) =>
              \A v \in ExecuteInstruction(w, ix) : \E m \in Int : m >= k /\ v = Move(w, a, b, n, m)
    PROVE  Turns(f, ix, Plus(Plus(f, a, -n), b, k))
<1> DEFINE j == -n  e == Plus(f, a, j)  g == Plus(e, b, k)
<1>1. f[a] \in Int /\ f[b] \in Int /\ j \in Int /\ f[a] + j >= Absent
  BY DEF Floors, Absent
<1>2. ASSUME NEW w, Has(w, f), NEW v \in ExecuteInstruction(w, ix) PROVE Has(v, g)
  <2>1. PICK m \in Int : m >= k /\ v = Move(w, a, b, n, m)
    BY <1>2
  <2>2. Has(Move(w, a, b, n, m), g)
    BY <1>2, <2>1, Moves
  <2> QED BY <2>1, <2>2
<1> HIDE DEF j
<1>3. e \in Floors /\ e[b] = f[b]
  BY <1>1, PlusIs
<1> HIDE DEF e
<1>4. g \in Floors
  <2>1. e[b] + k >= Absent
    BY <1>1, <1>3 DEF Absent
  <2> QED BY <1>3, <2>1, PlusIs
<1> HIDE DEF g
<1>5. Turns(f, ix, g)
  BY <1>2, <1>4 DEF Turns
<1> QED BY <1>5 DEF g, e, j

\* A swap pays its minimum at least.
LEMMA SwapTurns ==
    ASSUME NEW f \in Floors, NEW ix, ix.op = "swap", ix.from \in Acc, ix.to \in Acc, ix.from # ix.to,
           ix.amount \in Nat, f[ix.from] >= ix.amount, f[ix.to] >= 0,
           ix.min \in Nat, ix.est \in Int, ix.est >= ix.min
    PROVE  Turns(f, ix, Plus(Plus(f, ix.from, -ix.amount), ix.to, ix.min))
<1>1. ASSUME NEW w, Has(w, f), NEW v \in ExecuteInstruction(w, ix)
      PROVE  \E m \in Int : m >= ix.min /\ v = Move(w, ix.from, ix.to, ix.amount, m)
  <2>1. w # Failed
    BY <1>1, WalletIsFine DEF Has
  <2>2. ExecuteInstruction(w, ix) = {Move(w, ix.from, ix.to, ix.amount, out) : out \in {ix.min, ix.est}}
    BY <2>1 DEF ExecuteInstruction
  <2> QED BY <1>1, <2>2
<1> QED BY <1>1, MoveTurns

\* SOL that a sale brought becomes wrapped SOL.
LEMMA FundTurns ==
    ASSUME NEW f \in Floors, NEW n \in Nat, f["lamports"] >= n, f[Wsol] >= 0
    PROVE  Turns(f, FundAta(n), Plus(Plus(f, "lamports", -n), Wsol, n))
<1>1. ASSUME NEW w, Has(w, f), NEW v \in ExecuteInstruction(w, FundAta(n))
      PROVE  \E m \in Int : m >= n /\ v = Move(w, "lamports", Wsol, n, m)
  <2>1. w # Failed
    BY <1>1, WalletIsFine DEF Has
  <2>2. ExecuteInstruction(w, FundAta(n)) = {Move(w, "lamports", Wsol, n, n)}
    BY <2>1 DEF ExecuteInstruction, FundAta
  <2> QED BY <1>1, <2>2
<1> QED BY <1>1, AccountsApart, MoveTurns

\* Wrapped SOL of the wallet moves to the temporary account.
LEMMA UnwrapTurns ==
    ASSUME NEW f \in Floors, NEW n \in Nat, f[Wsol] >= n, f["temp"] >= 0
    PROVE  Turns(f, MoveToTemp(n), Plus(Plus(f, Wsol, -n), "temp", n))
<1>1. ASSUME NEW w, Has(w, f), NEW v \in ExecuteInstruction(w, MoveToTemp(n))
      PROVE  \E m \in Int : m >= n /\ v = Move(w, Wsol, "temp", n, m)
  <2>1. w # Failed
    BY <1>1, WalletIsFine DEF Has
  <2>2. ExecuteInstruction(w, MoveToTemp(n)) = {Move(w, Wsol, "temp", n, n)}
    BY <2>1 DEF ExecuteInstruction, MoveToTemp
  <2> QED BY <1>1, <2>2
<1> QED BY <1>1, AccountsApart, MoveTurns

\* An account that was created is there, and keeps what it had.
Created(f, m) == [f EXCEPT ![m] = IF @ < 0 THEN 0 ELSE @]

\* It is there for the next instruction.
LEMMA AtaTurns ==
    ASSUME NEW f \in Floors, NEW m \in Mints
    PROVE  Turns(f, Ata(m), Created(f, m))
<1> DEFINE g == Created(f, m)
<1>0. m \in Acc /\ m # "lamports" /\ m # "temp" /\ \A a \in Acc : f[a] \in Int /\ f[a] >= Absent
  BY AccountsApart DEF Floors
<1>1. g = [a \in Acc |-> IF a = m THEN (IF f[a] < 0 THEN 0 ELSE f[a]) ELSE f[a]]
  BY <1>0 DEF Created, Floors
<1>2. g \in Floors /\ \A a \in Acc : g[a] = IF a = m THEN (IF f[a] < 0 THEN 0 ELSE f[a]) ELSE f[a]
  <2>1. \A a \in Acc : (IF a = m THEN (IF f[a] < 0 THEN 0 ELSE f[a]) ELSE f[a]) \in {n \in Int : n >= Absent}
    BY <1>0 DEF Absent
  <2> HIDE DEF g
  <2> QED BY <1>1, <2>1 DEF Floors
<1> HIDE DEF g
<1>3. ASSUME NEW w, Has(w, f), NEW v \in ExecuteInstruction(w, Ata(m)) PROVE Has(v, g)
  <2> DEFINE x == IF w.ata[m] = Absent THEN 0 ELSE w.ata[m]
  <2>1. w # Failed /\ Wallet(w)
    BY <1>3, WalletIsFine DEF Has
  <2>2. v = [w EXCEPT !.ata[m] = IF @ = Absent THEN 0 ELSE @]
    BY <1>3, <2>1 DEF ExecuteInstruction, Ata
  <2>3. v = [lamports |-> w.lamports, temp |-> w.temp, ata |-> [w.ata EXCEPT ![m] = x]]
    BY <2>1, <2>2 DEF Wallet
  <2>4. [w.ata EXCEPT ![m] = x] = [a \in Mints |-> IF a = m THEN x ELSE w.ata[a]]
    BY <2>1 DEF Wallet
  <2>5. Balance(w, m) = w.ata[m] /\ Balance(w, m) \in Int /\ Balance(w, m) >= f[m]
    BY <1>0, <1>3 DEF Balance, Has
  <2>6. x \in Int /\ x >= g[m]
    BY <1>0, <1>2, <2>5 DEF Absent
  <2> HIDE DEF x
  <2>7. v.lamports = w.lamports /\ v.temp = w.temp /\ v.ata = [a \in Mints |-> IF a = m THEN x ELSE w.ata[a]]
    BY <2>3, <2>4
  <2>8. Wallet(v)
    BY <2>3, <2>7 DEF Wallet
  <2>9. ASSUME NEW a \in Acc PROVE Balance(v, a) \in Int /\ Balance(v, a) >= g[a]
    <3>1. Balance(w, a) \in Int /\ Balance(w, a) >= f[a]
      BY <1>3 DEF Has
    <3>2. CASE a = m
      BY <1>0, <2>6, <2>7, <3>2 DEF Balance
    <3>3. CASE a # m
      <4>1. Balance(v, a) = Balance(w, a)
        <5>1. CASE a \in {"lamports", "temp"}
          BY <2>7, <5>1 DEF Balance
        <5>2. CASE a \notin {"lamports", "temp"}
          <6>1. a \in Mints
            BY <5>2 DEF Acc
          <6>2. v.ata[a] = w.ata[a]
            BY <2>7, <3>3, <6>1
          <6> QED BY <5>2, <6>2 DEF Balance
        <5> QED BY <5>1, <5>2
      <4> QED BY <1>2, <3>1, <3>3, <4>1
    <3> QED BY <3>2, <3>3
  <2>10. g["temp"] = Absent => v.temp = Absent
    <3>1. g["temp"] = f["temp"]
      BY <1>0, <1>2, AccountsApart
    <3> QED BY <1>3, <2>7, <3>1 DEF Has
  <2> QED BY <2>8, <2>9, <2>10 DEF Has
<1>4. Turns(f, Ata(m), g)
  BY <1>2, <1>3 DEF Turns
<1> QED BY <1>4 DEF g

\* A temporary account that holds what it was created with, less its rent.
Opens(f, n) == [f EXCEPT !["lamports"] = @ - n, !["temp"] = n - Rent]

\* It is created.
LEMMA OpenTurns ==
    ASSUME NEW f \in Floors, NEW n \in Nat, n >= Rent, f["temp"] = Absent, f["lamports"] >= n
    PROVE  Turns(f, CreateTemp(n), Opens(f, n))
<1> DEFINE c == "lamports"  t == "temp"  x == n - Rent  e == Plus(f, c, -n)  g == Opens(f, n)
<1>0. /\ c \in Acc /\ t \in Acc /\ c # t /\ x \in Nat /\ f[c] \in Int /\ f[c] - n >= Absent /\ f[c] >= n
      /\ \A a \in Acc : f[a] \in Int /\ f[a] >= Absent
  BY AccountsApart, TradeAssumption DEF Floors, Absent
<1>1. g = [a \in Acc |-> IF a = t THEN x ELSE IF a = c THEN f[c] - n ELSE f[a]]
  BY <1>0 DEF Opens, Floors
<1>2. g \in Floors /\ \A a \in Acc : g[a] = IF a = t THEN x ELSE IF a = c THEN f[c] - n ELSE f[a]
  <2> HIDE DEF g, c, t, x
  <2>1. \A a \in Acc : (IF a = t THEN x ELSE IF a = c THEN f[c] - n ELSE f[a]) \in {k \in Int : k >= Absent}
    BY <1>0 DEF Absent
  <2> QED BY <1>1, <2>1 DEF Floors
<1> HIDE DEF g
<1>3. ASSUME NEW w, Has(w, f), NEW v \in ExecuteInstruction(w, CreateTemp(n)) PROVE Has(v, g)
  <2> DEFINE d == Debit(w, c, n)
  <2>1. w # Failed /\ w.temp = Absent
    BY <1>3, WalletIsFine DEF Has
  <2>2. Has(d, e) /\ d # Failed
    <3> HIDE DEF c
    <3> QED BY <1>0, <1>3, Takes
  <2>3. v = [d EXCEPT !.temp = x]
    BY <1>3, <2>1, <2>2 DEF ExecuteInstruction, CreateTemp
  <2>4. \A a \in Acc : e[a] = IF a = c THEN f[c] - n ELSE f[a]
    BY <1>0 DEF Plus, Floors
  <2> HIDE DEF d, e, x
  <2>5. v = [lamports |-> d.lamports, temp |-> x, ata |-> d.ata] /\ Wallet(d)
    BY <2>2, <2>3 DEF Has, Wallet
  <2>6. v.lamports = d.lamports /\ v.temp = x /\ v.ata = d.ata
    BY <2>5
  <2>7. Wallet(v)
    BY <2>5, <2>6 DEF Wallet
  <2>8. ASSUME NEW a \in Acc PROVE Balance(v, a) \in Int /\ Balance(v, a) >= g[a]
    <3>1. CASE a = t
      BY <1>0, <1>2, <2>6, <3>1 DEF Balance
    <3>2. CASE a # t
      <4>1. Balance(v, a) = Balance(d, a)
        BY <2>6, <3>2 DEF Balance
      <4>2. g[a] = e[a]
        BY <1>2, <2>4, <3>2
      <4>3. Balance(d, a) \in Int /\ Balance(d, a) >= e[a]
        BY <2>2 DEF Has
      <4> QED BY <4>1, <4>2, <4>3
    <3> QED BY <3>1, <3>2
  <2>9. g["temp"] # Absent
    BY <1>0, <1>2 DEF Absent
  <2> QED BY <2>7, <2>8, <2>9 DEF Has
<1>4. Turns(f, CreateTemp(n), g)
  BY <1>2, <1>3 DEF Turns
<1> QED BY <1>4 DEF g

\* All that was in it, and its rent, is lamports again.
Closes(f) == [f EXCEPT !["temp"] = Absent, !["lamports"] = @ + f["temp"] + Rent]

\* It is closed.
LEMMA CloseTurns ==
    ASSUME NEW f \in Floors, f["temp"] >= 0, f["lamports"] >= 0
    PROVE  Turns(f, CloseTemp, Closes(f))
<1> DEFINE c == "lamports"  t == "temp"  g == Closes(f)  sum == f[c] + f[t] + Rent
<1>0. /\ c \in Acc /\ t \in Acc /\ c # t /\ sum \in Nat
      /\ \A a \in Acc : f[a] \in Int /\ f[a] >= Absent
  BY AccountsApart, TradeAssumption DEF Floors
<1>1. g = [a \in Acc |-> IF a = t THEN Absent ELSE IF a = c THEN sum ELSE f[a]]
  BY <1>0 DEF Closes, Floors
<1>2. g \in Floors /\ \A a \in Acc : g[a] = IF a = t THEN Absent ELSE IF a = c THEN sum ELSE f[a]
  <2> HIDE DEF g, c, t, sum
  <2>1. \A a \in Acc : (IF a = t THEN Absent ELSE IF a = c THEN sum ELSE f[a]) \in {k \in Int : k >= Absent}
    BY <1>0 DEF Absent
  <2> QED BY <1>1, <2>1 DEF Floors
<1> HIDE DEF g
<1>3. ASSUME NEW w, Has(w, f), NEW v \in ExecuteInstruction(w, CloseTemp) PROVE Has(v, g)
  <2> DEFINE all == w.lamports + w.temp + Rent
  <2>1. /\ w # Failed /\ Wallet(w) /\ \A a \in Acc : Balance(w, a) \in Int /\ Balance(w, a) >= f[a]
    BY <1>3, WalletIsFine DEF Has
  <2>2. w.temp \in Int /\ w.temp >= f[t] /\ w.lamports \in Int /\ w.lamports >= f[c] /\ w.temp # Absent
    BY <1>0, <2>1 DEF Balance, Absent
  <2>3. v = [w EXCEPT !.temp = Absent, !.lamports = @ + w.temp + Rent]
    BY <1>3, <2>1, <2>2 DEF ExecuteInstruction, CloseTemp
  <2>4. v = [lamports |-> all, temp |-> Absent, ata |-> w.ata]
    BY <2>1, <2>3 DEF Wallet
  <2>5. all \in Int /\ all >= sum
    BY <1>0, <2>2, TradeAssumption
  <2> HIDE DEF all, sum
  <2>6. v.lamports = all /\ v.temp = Absent /\ v.ata = w.ata
    BY <2>4
  <2>7. Wallet(v)
    BY <2>1, <2>4, <2>6 DEF Wallet
  <2>8. ASSUME NEW a \in Acc PROVE Balance(v, a) \in Int /\ Balance(v, a) >= g[a]
    <3>1. CASE a = t
      BY <1>0, <1>2, <2>6, <3>1 DEF Balance, Absent
    <3>2. CASE a = c
      BY <1>0, <1>2, <2>5, <2>6, <3>2 DEF Balance
    <3>3. CASE a # t /\ a # c
      <4>1. Balance(v, a) = Balance(w, a) /\ g[a] = f[a]
        BY <1>2, <2>6, <3>3 DEF Balance
      <4> QED BY <2>1, <4>1
    <3> QED BY <3>1, <3>2, <3>3
  <2> QED BY <2>6, <2>7, <2>8 DEF Has
<1>4. Turns(f, CloseTemp, g)
  BY <1>2, <1>3 DEF Turns
<1> QED BY <1>4 DEF g

-----------------------------------------------------------------------------
(* One instruction after the other.                                        *)

\* Balances that are no more than others.
Below(g, f) ==
    /\ f \in Floors /\ g \in Floors /\ \A a \in Acc : g[a] <= f[a]
    /\ g["temp"] = Absent => f["temp"] = Absent

\* Instructions that take every wallet with the balances f to one with the balances g.
Leads(f, s, g) ==
    /\ Sequence(s)
    /\ \E F \in [0..Len(s) -> Floors] :
          /\ Below(F[0], f) /\ Below(g, F[Len(s)])
          /\ \A i \in 1..Len(s) : Turns(F[i - 1], s[i], F[i])

\* What is no more than what is no more.
LEMMA BelowOn ==
    ASSUME NEW f, NEW g, NEW h, Below(g, f), Below(h, g)
    PROVE  Below(h, f)
<1>1. \A a \in Acc : f[a] \in Int /\ g[a] \in Int /\ h[a] \in Int
  BY DEF Below, Floors
<1> QED BY <1>1 DEF Below

\* Balances themselves.
LEMMA BelowSame == ASSUME NEW f \in Floors PROVE Below(f, f)
<1>1. \A a \in Acc : f[a] \in Int
  BY DEF Floors
<1> QED BY <1>1 DEF Below

\* A wallet has less as well.
LEMMA HasBelow == ASSUME NEW f, NEW g, NEW w, Has(w, f), Below(g, f) PROVE Has(w, g)
<1>1. \A a \in Acc : f[a] \in Int /\ g[a] \in Int
  BY DEF Below, Floors
<1> QED BY <1>1, HasLess DEF Below

\* An instruction turns more into less.
LEMMA TurnsBelow ==
    ASSUME NEW f, NEW g, NEW h, NEW e, NEW ix, Turns(g, ix, h), Below(g, f), Below(e, h)
    PROVE  Turns(f, ix, e)
<1>1. f \in Floors /\ e \in Floors
  BY DEF Below
<1>2. ASSUME NEW w, Has(w, f), NEW v \in ExecuteInstruction(w, ix) PROVE Has(v, e)
  <2>1. Has(w, g)
    BY <1>2, HasBelow
  <2>2. Has(v, h)
    BY <1>2, <2>1 DEF Turns
  <2> QED BY <2>2, HasBelow
<1> QED BY <1>1, <1>2 DEF Turns

\* A single instruction.
LEMMA LeadsOne ==
    ASSUME NEW f, NEW g, NEW h, NEW ix, Turns(f, ix, h), Below(g, h)
    PROVE  Leads(f, <<ix>>, g)
<1> DEFINE F == [i \in 0..1 |-> IF i = 0 THEN f ELSE h]  s == <<ix>>
<1>1. Sequence(s) /\ Len(s) = 1 /\ s[1] = ix
  BY DEF Sequence
<1>2. F \in [0..1 -> Floors] /\ F[0] = f /\ F[1] = h /\ f \in Floors
  BY DEF Turns
<1> HIDE DEF F, s
<1>3. \A i \in 1..1 : Turns(F[i - 1], s[i], F[i])
  <2>1. \A i \in 1..1 : i = 1 /\ i - 1 = 0
    OBVIOUS
  <2> QED BY <1>1, <1>2, <2>1
<1>4. Below(F[0], f)
  BY <1>2, BelowSame
<1>5. Leads(f, s, g)
  BY <1>1, <1>2, <1>3, <1>4 DEF Leads
<1> QED BY <1>5 DEF s

\* No instruction.
LEMMA LeadsNone == ASSUME NEW f, NEW g, Below(g, f) PROVE Leads(f, <<>>, g)
<1> DEFINE F == [i \in 0..0 |-> f]  s == <<>>
<1>1. Sequence(s) /\ Len(s) = 0 /\ f \in Floors
  BY DEF Sequence, Below
<1>2. F \in [0..0 -> Floors] /\ F[0] = f
  BY <1>1
<1> HIDE DEF F, s
<1>3. \A i \in 1..0 : Turns(F[i - 1], s[i], F[i])
  OBVIOUS
<1>4. Below(F[0], f)
  BY <1>1, <1>2, BelowSame
<1>5. Leads(f, s, g)
  BY <1>1, <1>2, <1>3, <1>4 DEF Leads
<1> QED BY <1>5 DEF s

\* From more, to less.
LEMMA LeadsBelow ==
    ASSUME NEW f, NEW g, NEW h, NEW e, NEW s, Below(f, h), Leads(f, s, g), Below(e, g)
    PROVE  Leads(h, s, e)
<1>1. PICK F \in [0..Len(s) -> Floors] :
         /\ Below(F[0], f) /\ Below(g, F[Len(s)])
         /\ \A i \in 1..Len(s) : Turns(F[i - 1], s[i], F[i])
  BY DEF Leads
<1>2. Below(F[0], h) /\ Below(e, F[Len(s)])
  BY <1>1, BelowOn
<1> QED BY <1>1, <1>2 DEF Leads

\* Where the first instructions lead the next ones start.
LEMMA LeadsOn ==
    ASSUME NEW f, NEW g, NEW h, NEW s, NEW t, Leads(f, s, g), Leads(g, t, h)
    PROVE  Leads(f, s \o t, h)
<1> DEFINE m == Len(s)  n == Len(t)  u == s \o t
<1>1. Sequence(s) /\ Sequence(t) /\ m \in Nat /\ n \in Nat
  BY DEF Leads, Sequence
<1>2. /\ Sequence(u) /\ Len(u) = m + n /\ \A i \in 1..m : u[i] = s[i]
      /\ \A i \in 1..n : u[m + i] = t[i]
  BY <1>1, Join
<1>3. PICK F \in [0..m -> Floors] :
         Below(F[0], f) /\ Below(g, F[m]) /\ \A i \in 1..m : Turns(F[i - 1], s[i], F[i])
  BY DEF Leads
<1>4. PICK G \in [0..n -> Floors] :
         Below(G[0], g) /\ Below(h, G[n]) /\ \A i \in 1..n : Turns(G[i - 1], t[i], G[i])
  BY DEF Leads
<1> HIDE DEF m, n, u
<1> DEFINE H == [i \in 0..(m + n) |-> IF i <= m THEN F[i] ELSE G[i - m]]
<1>5. /\ \A i \in 0..m : i \in 0..(m + n) /\ H[i] = F[i]
      /\ \A i \in 1..n : m + i \in 0..(m + n) /\ H[m + i] = G[i]
  <2>1. \A i \in 0..m : i \in 0..(m + n) /\ H[i] = F[i]
    BY <1>1
  <2>2. ASSUME NEW i \in 1..n PROVE m + i \in 0..(m + n) /\ H[m + i] = G[i]
    <3>1. m + i \in 0..(m + n) /\ (m + i) - m = i /\ ~(m + i <= m)
      BY <1>1
    <3> QED BY <3>1
  <2> QED BY <2>1, <2>2
<1>6. H \in [0..(m + n) -> Floors]
  <2>1. ASSUME NEW i \in 0..(m + n) PROVE (IF i <= m THEN F[i] ELSE G[i - m]) \in Floors
    <3>1. i \in 0..m \/ (~(i <= m) /\ i - m \in 0..n)
      BY <1>1
    <3> QED BY <1>3, <1>4, <3>1
  <2> QED BY <2>1
<1> HIDE DEF H
<1>7. Below(G[0], F[m])
  BY <1>3, <1>4, BelowOn
<1>8. Below(H[0], f) /\ Below(h, H[m + n])
  <2>1. 0 \in 0..m /\ m \in 0..m
    BY <1>1
  <2>2. CASE n = 0
    <3>1. m + n = m
      BY <1>1, <2>2
    <3>2. Below(h, F[m])
      BY <1>4, <1>7, <2>2, BelowOn
    <3> QED BY <1>3, <1>5, <2>1, <3>1, <3>2
  <2>3. CASE n # 0
    <3>1. n \in 1..n
      BY <1>1, <2>3
    <3> QED BY <1>3, <1>4, <1>5, <2>1, <3>1
  <2> QED BY <2>2, <2>3
<1>9. ASSUME NEW i \in 1..(m + n) PROVE Turns(H[i - 1], u[i], H[i])
  <2>1. CASE i \in 1..m
    <3>1. i - 1 \in 0..m /\ i \in 0..m
      BY <1>1, <2>1
    <3>2. H[i - 1] = F[i - 1] /\ H[i] = F[i] /\ u[i] = s[i]
      BY <1>2, <1>5, <2>1, <3>1
    <3> QED BY <1>3, <2>1, <3>2
  <2>2. CASE i \notin 1..m
    <3> DEFINE j == i - m
    <3>1. j \in 1..n /\ m + j = i /\ j - 1 \in 0..n
      BY <1>1, <2>2
    <3>2. Turns(G[j - 1], t[j], G[j])
      BY <1>4, <3>1
    <3>3. CASE j = 1
      <4>1. i - 1 = m /\ m \in 0..m /\ j - 1 = 0
        BY <1>1, <3>3
      <4> HIDE DEF j
      <4>2. H[i - 1] = F[m] /\ H[i] = G[j] /\ u[i] = t[j]
        BY <1>2, <1>5, <3>1, <4>1
      <4>3. Below(G[j], G[j])
        <5>1. G[j] \in Floors
          BY <3>2 DEF Turns
        <5> QED BY <5>1, BelowSame
      <4>4. Turns(F[m], t[j], G[j])
        BY <1>7, <3>2, <4>1, <4>3, TurnsBelow
      <4> QED BY <4>2, <4>4
    <3>4. CASE j # 1
      <4>1. j - 1 \in 1..n /\ m + (j - 1) = i - 1
        BY <1>1, <3>1, <3>4
      <4> HIDE DEF j
      <4>2. H[i - 1] = G[j - 1] /\ H[i] = G[j] /\ u[i] = t[j]
        BY <1>2, <1>5, <3>1, <4>1
      <4> QED BY <3>2, <4>2
    <3> QED BY <3>3, <3>4
  <2> QED BY <2>1, <2>2
<1>10. Leads(f, u, h)
  BY <1>2, <1>6, <1>8, <1>9 DEF Leads
<1> QED BY <1>10 DEF u

\* Where the chain ends.
LEMMA LeadsEnd ==
    ASSUME NEW f, NEW g, Leads(f, wire.instructions, g), NEW before, Has(before, f),
           NEW w \in Outcomes(before)
    PROVE  Has(w, g)
<1> DEFINE ixs == wire.instructions  n == Len(ixs)
<1>1. PICK F \in [0..n -> Floors] :
         Below(F[0], f) /\ Below(g, F[n]) /\ \A i \in 1..n : Turns(F[i - 1], ixs[i], F[i])
  BY DEF Leads
<1>2. n \in Nat
  BY DEF Leads, Sequence
<1>3. PICK after : /\ after[0] = {before} /\ Outcomes(before) = after[n]
                   /\ \A i \in 1..n : after[i] = UNION {ExecuteInstruction(v, ixs[i]) : v \in after[i - 1]}
  BY <1>2, OutcomesAre
<1> DEFINE Good == {i \in 0..n : \A v \in after[i] : Has(v, F[i])}
<1> HIDE DEF n, ixs
<1>4. 0 \in Good
  <2>1. Has(before, F[0])
    BY <1>1, HasBelow
  <2> QED BY <1>2, <1>3, <2>1
<1>5. ASSUME NEW i \in 1..n, i - 1 \in Good PROVE i \in Good
  <2>1. i \in 0..n
    BY <1>2
  <2>2. ASSUME NEW v \in after[i] PROVE Has(v, F[i])
    <3>1. PICK u \in after[i - 1] : v \in ExecuteInstruction(u, ixs[i])
      BY <1>3, <2>2
    <3>2. Has(u, F[i - 1])
      BY <1>5
    <3> QED BY <1>1, <3>1, <3>2 DEF Turns
  <2> QED BY <2>1, <2>2
<1>6. n \in Good
  <2>1. n \in Nat
    BY <1>2
  <2> HIDE DEF Good
  <2>2. \A i \in 0..n : i \in Good
    BY <1>4, <1>5, <2>1, UpTo
  <2> QED BY <2>1, <2>2
<1>7. Has(w, F[n])
  BY <1>3, <1>6
<1> QED BY <1>1, <1>7, HasBelow

-----------------------------------------------------------------------------
(* What the instructions of a settlement lead to, account by account.      *)

\* What is taken from one account and given to another.
LEMMA TwoPlus ==
    ASSUME NEW f \in Floors, NEW a \in Acc, NEW b \in Acc, a # b, NEW n \in Nat, f[a] >= n, f[b] >= 0, NEW k \in Nat
    PROVE  LET h == Plus(Plus(f, a, -n), b, k)
           IN  h \in Floors /\ \A c \in Acc : h[c] = IF c = a THEN f[a] - n ELSE IF c = b THEN f[b] + k ELSE f[c]
<1> DEFINE j == -n  e == Plus(f, a, j)
<1>1. f[a] \in Int /\ f[b] \in Int /\ j \in Int /\ f[a] + j >= Absent /\ f[a] + j = f[a] - n
  BY DEF Floors, Absent
<1> HIDE DEF j
<1>2. e \in Floors /\ \A c \in Acc : e[c] = IF c = a THEN f[a] + j ELSE f[c]
  BY <1>1, PlusIs
<1> HIDE DEF e
<1>3. e[b] = f[b] /\ e[b] + k >= Absent
  BY <1>1, <1>2 DEF Absent
<1> DEFINE h == Plus(e, b, k)
<1>4. h \in Floors /\ \A c \in Acc : h[c] = IF c = b THEN e[b] + k ELSE e[c]
  BY <1>2, <1>3, PlusIs
<1> HIDE DEF h
<1>5. \A c \in Acc : h[c] = IF c = a THEN f[a] - n ELSE IF c = b THEN f[b] + k ELSE f[c]
  BY <1>1, <1>2, <1>3, <1>4
<1> QED BY <1>4, <1>5 DEF h, e, j

\* Balances that are no more than those after a move.
Moving(f, g, a, b, n, k) ==
    /\ f \in Floors /\ g \in Floors
    /\ a \in Acc /\ b \in Acc /\ a # b /\ n \in Nat /\ k \in Nat /\ f[a] >= n /\ f[b] >= 0
    /\ \A c \in Acc : g[c] <= IF c = a THEN f[a] - n ELSE IF c = b THEN f[b] + k ELSE f[c]
    /\ g["temp"] = Absent => f["temp"] = Absent

\* They are below the balances after it.
LEMMA MovingIs ==
    ASSUME NEW f, NEW g, NEW a, NEW b, NEW n, NEW k, Moving(f, g, a, b, n, k)
    PROVE  Below(g, Plus(Plus(f, a, -n), b, k))
<1> DEFINE h == Plus(Plus(f, a, -n), b, k)
<1>1. h \in Floors /\ \A c \in Acc : h[c] = IF c = a THEN f[a] - n ELSE IF c = b THEN f[b] + k ELSE f[c]
  BY TwoPlus DEF Moving
<1> HIDE DEF h
<1>2. "temp" \in Acc
  BY AccountsApart
<1>3. g["temp"] = Absent => h["temp"] = Absent
  <2>1. ASSUME f["temp"] = Absent PROVE "temp" # a /\ "temp" # b
    BY <2>1 DEF Moving, Absent
  <2> QED BY <1>1, <1>2, <2>1 DEF Moving
<1>4. Below(g, h)
  BY <1>1, <1>3 DEF Moving, Below
<1> QED BY <1>4 DEF h

\* A swap.
LEMMA SwapLeads ==
    ASSUME NEW f, NEW g, NEW ix, ix.op = "swap", ix.est \in Int, ix.est >= ix.min,
           Moving(f, g, ix.from, ix.to, ix.amount, ix.min)
    PROVE  Leads(f, <<ix>>, g)
<1>1. Turns(f, ix, Plus(Plus(f, ix.from, -ix.amount), ix.to, ix.min))
  BY SwapTurns DEF Moving
<1> DEFINE h == Plus(Plus(f, ix.from, -ix.amount), ix.to, ix.min)
<1>2. Below(g, h)
  BY MovingIs
<1> HIDE DEF h
<1>3. Turns(f, ix, h)
  BY <1>1 DEF h
<1> QED BY <1>2, <1>3, LeadsOne

\* SOL of a sale becomes wrapped SOL.
LEMMA FundLeads ==
    ASSUME NEW f, NEW g, NEW n, Moving(f, g, "lamports", Wsol, n, n)
    PROVE  Leads(f, <<FundAta(n)>>, g)
<1> DEFINE h == Plus(Plus(f, "lamports", -n), Wsol, n)
<1>1. Turns(f, FundAta(n), h)
  BY FundTurns DEF Moving
<1>2. Below(g, h)
  BY MovingIs
<1> HIDE DEF h
<1> QED BY <1>1, <1>2, LeadsOne

\* Wrapped SOL for a purchase goes to the temporary account.
LEMMA UnwrapLeads ==
    ASSUME NEW f, NEW g, NEW n, Moving(f, g, Wsol, "temp", n, n)
    PROVE  Leads(f, <<MoveToTemp(n)>>, g)
<1> DEFINE h == Plus(Plus(f, Wsol, -n), "temp", n)
<1>1. Turns(f, MoveToTemp(n), h)
  BY UnwrapTurns DEF Moving
<1>2. Below(g, h)
  BY MovingIs
<1> HIDE DEF h
<1> QED BY <1>1, <1>2, LeadsOne

\* A tip.
LEMMA TipLeads ==
    ASSUME NEW f \in Floors, NEW g \in Floors, NEW n \in Nat, f["lamports"] >= n,
           \A c \in Acc : g[c] <= IF c = "lamports" THEN f["lamports"] - n ELSE f[c],
           g["temp"] = Absent => f["temp"] = Absent
    PROVE  Leads(f, <<Transfer(n)>>, g)
<1> DEFINE c == "lamports"  k == -n  h == Plus(f, c, k)
<1>0. c \in Acc /\ "temp" \in Acc /\ c # "temp"
  BY AccountsApart
<1>1. f[c] \in Int /\ k \in Int /\ f[c] + k >= Absent /\ f[c] + k = f[c] - n
  BY <1>0 DEF Floors, Absent
<1>2. Turns(f, Transfer(n), h)
  BY TransferTurns
<1> HIDE DEF k
<1>3. h \in Floors /\ \A a \in Acc : h[a] = IF a = c THEN f[c] + k ELSE f[a]
  <2> HIDE DEF c
  <2> QED BY <1>0, <1>1, PlusIs
<1> HIDE DEF h
<1>4. Below(g, h)
  BY <1>0, <1>1, <1>3 DEF Below
<1> QED BY <1>2, <1>4, LeadsOne

\* A temporary account with n lamports, its rent among them.
LEMMA OpenLeads ==
    ASSUME NEW f \in Floors, NEW g \in Floors, NEW n \in Nat, n >= Rent, f["temp"] = Absent, f["lamports"] >= n,
           \A c \in Acc : g[c] <= IF c = "lamports" THEN f["lamports"] - n ELSE IF c = "temp" THEN n - Rent ELSE f[c],
           g["temp"] >= 0
    PROVE  Leads(f, <<CreateTemp(n)>>, g)
<1> DEFINE h == Opens(f, n)
<1>1. Turns(f, CreateTemp(n), h)
  BY OpenTurns
<1>2. \A c \in Acc : h[c] = IF c = "lamports" THEN f["lamports"] - n ELSE IF c = "temp" THEN n - Rent ELSE f[c]
  BY AccountsApart DEF Opens, Floors
<1> HIDE DEF h
<1>3. h \in Floors
  BY <1>1 DEF Turns
<1>4. Below(g, h)
  BY <1>2, <1>3 DEF Below, Absent
<1> QED BY <1>1, <1>4, LeadsOne

\* It is closed.
LEMMA CloseLeads ==
    ASSUME NEW f \in Floors, NEW g \in Floors, f["temp"] >= 0, f["lamports"] >= 0,
           \A c \in Acc : g[c] <= IF c = "lamports" THEN f["lamports"] + f["temp"] + Rent
                                  ELSE IF c = "temp" THEN Absent ELSE f[c]
    PROVE  Leads(f, <<CloseTemp>>, g)
<1> DEFINE h == Closes(f)
<1>1. Turns(f, CloseTemp, h)
  BY CloseTurns
<1>2. \A c \in Acc : h[c] = IF c = "lamports" THEN f["lamports"] + f["temp"] + Rent
                            ELSE IF c = "temp" THEN Absent ELSE f[c]
  BY AccountsApart DEF Closes, Floors
<1> HIDE DEF h
<1>3. h \in Floors
  BY <1>1 DEF Turns
<1>4. Below(g, h)
  BY <1>2, <1>3, AccountsApart DEF Below
<1> QED BY <1>1, <1>4, LeadsOne

\* Accounts are created where they are missing.
LEMMA SetupLeads ==
    ASSUME NEW s, Creating(s), \A i \in 1..Len(s) : s[i].mint \in Mints, NEW f \in Floors, NEW g \in Floors,
           \A a \in Acc : g[a] <= f[a] \/ (g[a] <= 0 /\ \E i \in 1..Len(s) : a = s[i].mint),
           g["temp"] = Absent => f["temp"] = Absent
    PROVE  Leads(f, s, g)
<1> DEFINE n == Len(s)
           Met(a, k) == f[a] < 0 /\ \E i \in 1..k : a = s[i].mint
           Level(k) == [a \in Acc |-> IF Met(a, k) THEN 0 ELSE f[a]]
           F == [k \in 0..n |-> Level(k)]
<1>0. Sequence(s) /\ n \in Nat /\ \A i \in 1..n : s[i] = Ata(s[i].mint)
  BY DEF Creating, Sequence
<1>1. \A a \in Acc : f[a] \in Int /\ f[a] >= Absent
  BY DEF Floors
<1> HIDE DEF n
<1>2. ASSUME NEW k \in 0..n
      PROVE  Level(k) \in Floors /\ F[k] = Level(k) /\ \A a \in Acc : F[k][a] = IF Met(a, k) THEN 0 ELSE f[a]
  <2> DEFINE L == Level(k)
  <2>1. \A a \in Acc : (IF Met(a, k) THEN 0 ELSE f[a]) \in {j \in Int : j >= Absent}
    BY <1>1 DEF Absent
  <2>2. L \in Floors /\ \A a \in Acc : L[a] = IF Met(a, k) THEN 0 ELSE f[a]
    <3> HIDE DEF Met
    <3> QED BY <2>1 DEF Floors
  <2>3. F[k] = L
    BY <1>2
  <2> HIDE DEF L, F, Met
  <2> QED BY <2>2, <2>3 DEF L
<1>3. F \in [0..n -> Floors]
  <2> HIDE DEF Level
  <2> QED BY <1>2
<1> HIDE DEF F
<1>4. Below(F[0], f)
  <2>1. 0 \in 0..n /\ \A a \in Acc : ~Met(a, 0)
    BY <1>0
  <2>2. F[0] \in Floors /\ \A a \in Acc : F[0][a] = f[a]
    BY <1>2, <1>3, <2>1
  <2> QED BY <1>1, <2>2, AccountsApart DEF Below
<1>5. Below(g, F[n])
  <2>1. n \in 0..n
    BY <1>0
  <2>2. F[n] \in Floors /\ \A a \in Acc : F[n][a] = IF Met(a, n) THEN 0 ELSE f[a]
    <3> HIDE DEF Level, Met
    <3> QED BY <1>2, <1>3, <2>1
  <2>3. ASSUME NEW a \in Acc PROVE g[a] <= F[n][a]
    <3>1. g[a] \in Int
      BY DEF Floors
    <3>2. CASE Met(a, n)
      <4>1. F[n][a] = 0 /\ f[a] < 0
        BY <2>2, <3>2
      <4> QED BY <1>1, <3>1, <4>1
    <3>3. CASE ~Met(a, n)
      <4>1. F[n][a] = f[a]
        BY <2>2, <3>3
      <4>2. f[a] >= 0 \/ ~ \E i \in 1..n : a = s[i].mint
        BY <1>1, <3>3
      <4> HIDE DEF Met
      <4> QED BY <1>1, <3>1, <4>1, <4>2 DEF n
    <3> QED BY <3>2, <3>3
  <2>4. g["temp"] = Absent => F[n]["temp"] = Absent
    <3>1. "temp" \in Acc /\ \A i \in 1..n : s[i].mint # "temp"
      BY AccountsApart DEF n
    <3>2. ~Met("temp", n)
      BY <3>1
    <3>3. F[n]["temp"] = f["temp"]
      BY <2>2, <3>1, <3>2
    <3> QED BY <3>3
  <2> QED BY <2>2, <2>3, <2>4 DEF Below
<1>6. ASSUME NEW i \in 1..n PROVE Turns(F[i - 1], s[i], F[i])
  <2> DEFINE m == s[i].mint  e == F[i - 1]  h == Created(e, m)
  <2>1. i - 1 \in 0..n /\ i \in 0..n /\ m \in Mints /\ m \in Acc
    BY <1>0, AccountsApart DEF n
  <2>2. /\ e \in Floors /\ F[i] \in Floors
        /\ \A a \in Acc : e[a] = IF Met(a, i - 1) THEN 0 ELSE f[a]
        /\ \A a \in Acc : F[i][a] = IF Met(a, i) THEN 0 ELSE f[a]
    <3> HIDE DEF Level, Met
    <3> QED BY <1>2, <1>3, <2>1
  <2>3. Turns(e, Ata(m), h)
    <3> HIDE DEF e, m
    <3> QED BY <2>1, <2>2, AtaTurns
  <2>4. \A a \in Acc : h[a] = IF a = m /\ e[a] < 0 THEN 0 ELSE e[a]
    <3> HIDE DEF e, m
    <3> QED BY <2>1, <2>2 DEF Created, Floors
  <2>5. \A a \in Acc : Met(a, i) <=> Met(a, i - 1) \/ (f[a] < 0 /\ a = m)
    <3>1. \A j \in 1..i : j = i \/ j \in 1..(i - 1)
      OBVIOUS
    <3>2. \A j \in 1..(i - 1) : j \in 1..i
      OBVIOUS
    <3>3. i \in 1..i
      OBVIOUS
    <3> QED BY <3>1, <3>2, <3>3
  <2> HIDE DEF h, e, Met, m
  <2>6. \A a \in Acc : F[i][a] = h[a]
    <3> SUFFICES ASSUME NEW a \in Acc PROVE F[i][a] = h[a]
      OBVIOUS
    <3>1. f[a] \in Int /\ (Met(a, i - 1) => f[a] < 0)
      BY <1>1 DEF Met
    <3> QED BY <2>2, <2>4, <2>5, <3>1
  <2>7. h \in Floors
    BY <2>3 DEF Turns
  <2>8. Below(F[i], h)
    <3>1. \A a \in Acc : F[i][a] \in Int
      BY <2>2 DEF Floors
    <3> QED BY <2>2, <2>6, <2>7, <3>1, AccountsApart DEF Below
  <2>9. s[i] = Ata(m)
    BY <1>0 DEF m
  <2>10. Turns(e, Ata(m), F[i])
    <3>1. Below(e, e)
      BY <2>2, BelowSame
    <3> QED BY <2>3, <2>8, <3>1, TurnsBelow
  <2> QED BY <2>9, <2>10 DEF e
<1>7. \E G \in [0..Len(s) -> Floors] :
         /\ Below(G[0], f) /\ Below(g, G[Len(s)])
         /\ \A i \in 1..Len(s) : Turns(G[i - 1], s[i], G[i])
  BY <1>3, <1>4, <1>5, <1>6 DEF n
<1> QED BY <1>0, <1>7 DEF Leads

\* A swap from one account to another, of no more than n and for k at least.
Passes(ix, a, b, n, k) ==
    /\ ix.op = "swap" /\ ix.from = a /\ ix.to = b /\ a # b
    /\ ix.amount \in 0..n /\ ix.min = k /\ ix.est \in Int /\ ix.est >= k

\* It leaves what the next one needs.
LEMMA PassTurns ==
    ASSUME NEW B \in Floors, NEW a \in Acc, NEW b \in Acc, NEW n \in Nat, NEW k \in Nat,
           B[a] >= 0, B[b] >= 0, NEW ix, Passes(ix, a, b, n, k)
    PROVE  Turns(Plus(B, a, n), ix, Plus(B, b, k))
<1> DEFINE f == Plus(B, a, n)  g == Plus(B, b, k)  x == ix.amount  h == Plus(Plus(f, a, -x), b, k)
<1>1. B[a] \in Int /\ B[b] \in Int /\ B[a] + n >= Absent /\ B[b] + k >= Absent
  BY DEF Floors, Absent
<1>2. /\ f \in Floors /\ \A c \in Acc : f[c] = IF c = a THEN B[a] + n ELSE B[c]
      /\ g \in Floors /\ \A c \in Acc : g[c] = IF c = b THEN B[b] + k ELSE B[c]
  BY <1>1, PlusIs
<1> HIDE DEF f, g
<1>3. x \in Nat /\ x <= n /\ a # b /\ ix.from = a /\ ix.to = b /\ ix.min = k /\ ix.op = "swap"
  BY DEF Passes
<1> HIDE DEF x
<1>4. f[a] >= x /\ f[b] >= 0
  BY <1>1, <1>2, <1>3
<1>5. Turns(f, ix, h)
  <2>1. ix.amount = x /\ ix.est \in Int /\ ix.est >= ix.min
    BY DEF x, Passes
  <2>2. Turns(f, ix, Plus(Plus(f, ix.from, -ix.amount), ix.to, ix.min))
    BY <1>2, <1>3, <1>4, <2>1, SwapTurns
  <2> QED BY <1>3, <2>1, <2>2
<1>6. Below(g, h)
  <2>1. \A c \in Acc : B[c] \in Int
    BY DEF Floors
  <2>2. \A c \in Acc : g[c] <= IF c = a THEN f[a] - x ELSE IF c = b THEN f[b] + k ELSE f[c]
    <3> SUFFICES ASSUME NEW c \in Acc
                 PROVE  g[c] <= IF c = a THEN f[a] - x ELSE IF c = b THEN f[b] + k ELSE f[c]
      OBVIOUS
    <3>1. B[c] \in Int
      BY <2>1
    <3>2. CASE c = a
      BY <1>1, <1>2, <1>3, <3>2
    <3>3. CASE c = b
      BY <1>1, <1>2, <1>3, <3>3
    <3>4. CASE c # a /\ c # b
      <4>1. g[c] = B[c] /\ f[c] = B[c]
        BY <1>2, <3>4
      <4> QED BY <3>1, <3>4, <4>1
    <3> QED BY <3>2, <3>3, <3>4
  <2>3. g["temp"] = Absent => f["temp"] = Absent
    <3>1. CASE "temp" = a \/ "temp" = b
      <4>1. g["temp"] >= 0
        BY <1>1, <1>2, <3>1
      <4> QED BY <4>1 DEF Absent
    <3>2. CASE "temp" # a /\ "temp" # b
      BY <1>2, <3>2, AccountsApart
    <3> QED BY <3>1, <3>2
  <2>4. Moving(f, g, a, b, x, k)
    BY <1>2, <1>3, <1>4, <2>2, <2>3 DEF Moving
  <2> HIDE DEF h
  <2> QED BY <2>4, MovingIs DEF h
<1> HIDE DEF h
<1>7. Below(f, f)
  BY <1>2, BelowSame
<1>8. Turns(f, ix, g)
  BY <1>5, <1>6, <1>7, TurnsBelow
<1> QED BY <1>8 DEF f, g

\* Swaps one after the other, each of no more than the one before it pays at least.
LEMMA LegsRun ==
    ASSUME NEW n \in Nat, NEW s, Sequence(s), Len(s) = n, NEW acc \in [0..n -> Acc], NEW spend \in [0..n -> Nat],
           NEW B \in Floors, \A i \in 0..n : B[acc[i]] >= 0,
           \A i \in 1..n : Passes(s[i], acc[i - 1], acc[i], spend[i - 1], spend[i])
    PROVE  Leads(Plus(B, acc[0], spend[0]), s, Plus(B, acc[n], spend[n]))
<1> DEFINE F == [i \in 0..n |-> Plus(B, acc[i], spend[i])]
<1>1. ASSUME NEW i \in 0..n PROVE Plus(B, acc[i], spend[i]) \in Floors
  <2>1. acc[i] \in Acc /\ spend[i] \in Nat /\ B[acc[i]] >= 0
    OBVIOUS
  <2> DEFINE a == acc[i]  k == spend[i]
  <2>2. a \in Acc /\ k \in Nat /\ B[a] >= 0
    BY <2>1
  <2> HIDE DEF a, k
  <2>3. B[a] \in Int /\ B[a] + k >= Absent
    BY <2>2 DEF Floors, Absent
  <2>4. Plus(B, a, k) \in Floors
    BY <2>2, <2>3, PlusIs
  <2> QED BY <2>4 DEF a, k
<1>2. F \in [0..n -> Floors] /\ \A i \in 0..n : F[i] = Plus(B, acc[i], spend[i])
  BY <1>1
<1> HIDE DEF F
<1>3. ASSUME NEW i \in 1..n PROVE Turns(F[i - 1], s[i], F[i])
  <2> DEFINE a == acc[i - 1]  b == acc[i]  m == spend[i - 1]  k == spend[i]
  <2>1. i - 1 \in 0..n /\ i \in 0..n
    OBVIOUS
  <2>2. a \in Acc /\ b \in Acc /\ m \in Nat /\ k \in Nat /\ B[a] >= 0 /\ B[b] >= 0 /\ Passes(s[i], a, b, m, k)
    BY <2>1
  <2>3. F[i - 1] = Plus(B, a, m) /\ F[i] = Plus(B, b, k)
    BY <1>2, <2>1
  <2> HIDE DEF a, b, m, k
  <2> QED BY <2>2, <2>3, PassTurns
<1>4. 0 \in 0..n /\ n \in 0..n
  OBVIOUS
<1>5. F[0] = Plus(B, acc[0], spend[0]) /\ F[n] = Plus(B, acc[n], spend[n]) /\ Below(F[0], F[0]) /\ Below(F[n], F[n])
  BY <1>2, <1>4, BelowSame
<1> QED BY <1>2, <1>3, <1>5 DEF Leads

\* Two and three instructions in a row.
LEMMA InARow ==
    ASSUME NEW x, NEW y, NEW z
    PROVE  <<x>> \o <<y>> = <<x, y>> /\ <<x, y>> \o <<z>> = <<x, y, z>>
<1> DEFINE a == <<x>>  b == <<y>>  c == <<z>>  d == <<x, y>>  e == <<x, y, z>>
<1>1. /\ Len(a) = 1 /\ Len(b) = 1 /\ Len(c) = 1 /\ Len(d) = 2 /\ Len(e) = 3
      /\ a[1] = x /\ b[1] = y /\ c[1] = z /\ d[1] = x /\ d[2] = y /\ e[1] = x /\ e[2] = y /\ e[3] = z
  OBVIOUS
<1>2. Sequence(a) /\ Sequence(b) /\ Sequence(c) /\ Sequence(d) /\ Sequence(e)
  BY DEF Sequence
<1> HIDE DEF a, b, c, d, e
<1>3. /\ Sequence(a \o b) /\ Len(a \o b) = 2 /\ \A i \in 1..2 : (a \o b)[i] = d[i]
      /\ Sequence(d \o c) /\ Len(d \o c) = 3 /\ \A i \in 1..3 : (d \o c)[i] = e[i]
  <2>1. /\ Sequence(a \o b) /\ Len(a \o b) = 1 + 1 /\ (\A i \in 1..1 : (a \o b)[i] = a[i])
        /\ \A i \in 1..1 : (a \o b)[1 + i] = b[i]
    BY <1>1, <1>2, Join
  <2>2. /\ Sequence(d \o c) /\ Len(d \o c) = 2 + 1 /\ (\A i \in 1..2 : (d \o c)[i] = d[i])
        /\ \A i \in 1..1 : (d \o c)[2 + i] = c[i]
    <3>1. /\ Sequence(d \o c) /\ Len(d \o c) = Len(d) + Len(c)
          /\ \A i \in 1..Len(d) : (d \o c)[i] = d[i]
          /\ \A i \in 1..Len(c) : (d \o c)[Len(d) + i] = c[i]
      BY <1>2, Join
    <3> QED BY <1>1, <3>1
  <2>3. 1 \in 1..1 /\ 1 \in 1..2 /\ 2 \in 1..2
    OBVIOUS
  <2>4. (a \o b)[1] = x /\ (a \o b)[1 + 1] = y /\ (d \o c)[1] = x /\ (d \o c)[2] = y /\ (d \o c)[2 + 1] = z
    BY <1>1, <2>1, <2>2, <2>3
  <2>5. (\A i \in 1..2 : i = 1 \/ i = 2) /\ \A i \in 1..3 : i = 1 \/ i = 2 \/ i = 3
    OBVIOUS
  <2> QED BY <1>1, <2>1, <2>2, <2>4, <2>5
<1>4. a \o b = d
  BY <1>1, <1>2, <1>3 DEF Sequence
<1>5. d \o c = e
  BY <1>1, <1>2, <1>3 DEF Sequence
<1> QED BY <1>4, <1>5 DEF a, b, c, d, e

\* Wrapped SOL that is unwrapped: the temporary account is opened with its rent, filled and closed.
LEMMA UnwrapRuns ==
    ASSUME NEW f \in Floors, NEW g \in Floors, NEW n \in Nat, f["temp"] = Absent, f["lamports"] >= Rent, f[Wsol] >= n,
           \A a \in Acc : g[a] <= IF a = "lamports" THEN f["lamports"] + n ELSE IF a = Wsol THEN f[Wsol] - n ELSE f[a]
    PROVE  Leads(f, <<CreateTemp(Rent), MoveToTemp(n), CloseTemp>>, g)
<1> DEFINE L == f["lamports"]  S == f[Wsol]
           f1 == [a \in Acc |-> IF a = "lamports" THEN L - Rent ELSE IF a = "temp" THEN 0 ELSE f[a]]
           f2 == [a \in Acc |-> IF a = "lamports" THEN L - Rent ELSE IF a = "temp" THEN n
                                ELSE IF a = Wsol THEN S - n ELSE f[a]]
<1>1. /\ L \in Int /\ S \in Int /\ Rent \in Nat \ {0} /\ L >= Rent /\ S >= n /\ \A a \in Acc : f[a] \in Int /\ f[a] >= Absent
      /\ "lamports" \in Acc /\ "temp" \in Acc /\ Wsol \in Acc /\ "lamports" # "temp" /\ Wsol # "lamports" /\ Wsol # "temp"
  BY AccountsApart, TradeAssumption DEF Floors
<1> HIDE DEF L, S
<1>2. f1 \in Floors /\ f2 \in Floors
  <2>1. \A a \in Acc : (IF a = "lamports" THEN L - Rent ELSE IF a = "temp" THEN 0 ELSE f[a]) \in {j \in Int : j >= Absent}
    BY <1>1 DEF Absent
  <2>2. \A a \in Acc : (IF a = "lamports" THEN L - Rent ELSE IF a = "temp" THEN n
                        ELSE IF a = Wsol THEN S - n ELSE f[a]) \in {j \in Int : j >= Absent}
    BY <1>1 DEF Absent
  <2> QED BY <2>1, <2>2 DEF Floors
<1>3. /\ \A a \in Acc : f1[a] = IF a = "lamports" THEN L - Rent ELSE IF a = "temp" THEN 0 ELSE f[a]
      /\ \A a \in Acc : f2[a] = IF a = "lamports" THEN L - Rent ELSE IF a = "temp" THEN n
                                ELSE IF a = Wsol THEN S - n ELSE f[a]
  OBVIOUS
<1> HIDE DEF f1, f2
<1>4. \A a \in Acc : f1[a] \in Int /\ f2[a] \in Int /\ g[a] \in Int
  BY <1>2 DEF Floors
<1>5. Leads(f, <<CreateTemp(Rent)>>, f1)
  <2>1. \A c \in Acc : f1[c] <= IF c = "lamports" THEN f["lamports"] - Rent ELSE IF c = "temp" THEN Rent - Rent ELSE f[c]
    BY <1>1, <1>3, <1>4 DEF L
  <2>2. f1["temp"] >= 0 /\ Rent \in Nat /\ Rent >= Rent
    BY <1>1, <1>3
  <2> QED BY <1>2, <2>1, <2>2, OpenLeads
<1>6. Leads(f1, <<MoveToTemp(n)>>, f2)
  <2>1. f1[Wsol] = S /\ f1["temp"] = 0 /\ f2["temp"] = n
    BY <1>1, <1>3 DEF S
  <2>2. \A c \in Acc : f2[c] <= IF c = Wsol THEN f1[Wsol] - n ELSE IF c = "temp" THEN f1["temp"] + n ELSE f1[c]
    BY <1>1, <1>3, <1>4, <2>1
  <2>3. Moving(f1, f2, Wsol, "temp", n, n)
    BY <1>1, <1>2, <2>1, <2>2 DEF Moving, Absent
  <2> QED BY <2>3, UnwrapLeads
<1>7. Leads(f2, <<CloseTemp>>, g)
  <2>1. f2["temp"] = n /\ f2["lamports"] = L - Rent
    BY <1>1, <1>3
  <2>2. \A c \in Acc : g[c] <= IF c = "lamports" THEN f2["lamports"] + f2["temp"] + Rent
                               ELSE IF c = "temp" THEN Absent ELSE f2[c]
    BY <1>1, <1>3, <1>4, <2>1 DEF L, S
  <2>3. f2["temp"] >= 0 /\ f2["lamports"] >= 0
    BY <1>1, <2>1
  <2> QED BY <1>2, <2>2, <2>3, CloseLeads
<1>8. Leads(f, <<CreateTemp(Rent)>> \o <<MoveToTemp(n)>>, f2)
  BY <1>5, <1>6, LeadsOn
<1>9. Leads(f, (<<CreateTemp(Rent)>> \o <<MoveToTemp(n)>>) \o <<CloseTemp>>, g)
  BY <1>7, <1>8, LeadsOn
<1>10. (<<CreateTemp(Rent)>> \o <<MoveToTemp(n)>>) \o <<CloseTemp>> = <<CreateTemp(Rent), MoveToTemp(n), CloseTemp>>
  BY InARow
<1> QED BY <1>9, <1>10

-----------------------------------------------------------------------------
(* What a priced route gives its settlement.                               *)

\* The assets along a route, and what is sure to be there of them when it is run.
At(r, i) == IF i = 0 THEN r.legs[1].hint.in ELSE r.legs[i].hint.out
Sure(r, amount, i) == IF i = 0 THEN amount ELSE r.legs[i].min

\* Each leg goes from one asset to the next, spends no more than is sure, and pays what is
\* sure at least; no asset is met twice, and each has an account that is set up.
LegRuns(r, amount, i) ==
    LET leg == r.legs[i]
    IN /\ leg.hint \in HintsOver(Pools) /\ leg.hint.in = At(r, i - 1) /\ leg.hint.out = At(r, i)
       /\ leg.used \in 0..Sure(r, amount, i - 1) /\ leg.min = Sure(r, amount, i)
       /\ leg.est \in Int /\ leg.est >= leg.min
Runs(r, amount) ==
    /\ Shape(r) /\ r.official = FALSE /\ Len(r.legs) \in 1..5
    /\ \A i \in 0..Len(r.legs) : At(r, i) \in Mints /\ Sure(r, amount, i) \in Nat
    /\ \A i, j \in 0..Len(r.legs) : i # j => At(r, i) # At(r, j)
    /\ \A i \in 1..Len(r.legs) : LegRuns(r, amount, i)
    /\ Len(r.setup) = Len(r.legs) + 1 /\ \A i \in 0..Len(r.legs) : r.setup[i + 1] = At(r, i)
    /\ r.min = Sure(r, amount, Len(r.legs))
Curveless(r) == \A i \in 1..Len(r.legs) : ~NativeQuote(r.legs[i].hint.pool)

\* A hint of a known pool is between two assets.
LEMMA HintIs ==
    ASSUME NEW h \in HintsOver(Pools)
    PROVE  /\ h.pool \in Pools /\ h.in \in Mints /\ h.out \in Mints /\ h.in # h.out
           /\ h.in = PoolOf[h.pool].base \/ h.in = PoolOf[h.pool].quote
           /\ h.in = PoolOf[h.pool].quote <=> h.out = PoolOf[h.pool].base
           /\ h.in = PoolOf[h.pool].base <=> h.out = PoolOf[h.pool].quote
<1>1. PICK p \in Pools : h \in HintsOf(p)
  BY DEF HintsOver
<1>2. PoolOf[p].base \in Mints /\ PoolOf[p].quote \in Mints /\ PoolOf[p].base # PoolOf[p].quote
  BY RoutesAssumption
<1>3. \/ h.pool = p /\ h.in = PoolOf[p].base /\ h.out = PoolOf[p].quote
      \/ h.pool = p /\ h.in = PoolOf[p].quote /\ h.out = PoolOf[p].base
  BY <1>1 DEF HintsOf, Hint
<1> QED BY <1>2, <1>3

\* A sequential route over known pools runs; and where none of them may be quoted in SOL
\* none is.
LEMMA RouteRuns ==
    ASSUME NEW hints \in Seq(HintsOver(Pools)), NEW amount, NEW slip, NEW native, NEW limits,
           NEW r \in prepareCachedRoute(hints, amount, slip, native, limits)
    PROVE  Runs(r, amount) /\ (native \/ Curveless(r))
<1> DEFINE n == Len(hints)
<1>1. \A i \in 1..n : hints[i] \in HintsOver(Pools)
  OBVIOUS
<1>2. Chained(r, hints, amount) /\ amount \in Nat \ {0} /\ (native \/ NoCurves(hints, n))
  <2>1. \A i \in 1..n : hints[i].pool \in Pools
    BY <1>1, HintIs
  <2> QED BY <2>1, RouteIsPriced
<1>3. Follows(r, hints)
  BY RouteOfHints
<1>4. PICK q \in Partials(amount) :
         /\ Len(q.quotes) = n
         /\ r.legs = [i \in 1..n |-> Leg(hints[i], q.quotes[i])] /\ r.min = q.spend
  BY <1>2 DEF Chained
<1>5. /\ q.quotes \in Seq(Quotes) /\ q.spend = Funds(q.quotes, n + 1, amount)
      /\ \A i \in 1..n : q.quotes[i].used \in 1..Funds(q.quotes, i, amount)
  BY <1>4 DEF Partials, IsPartial
<1>6. \A i \in 1..n : /\ q.quotes[i].used \in Nat /\ q.quotes[i].est \in Nat /\ q.quotes[i].min \in 1..q.quotes[i].est
                      /\ q.quotes[i].min \in Nat
  BY <1>4, <1>5 DEF Quotes
<1>7. /\ n \in 1..5 /\ Shape(r) /\ r.official = FALSE /\ Len(r.legs) = n
      /\ r.setup = <<hints[1].in>> \o [i \in 1..n |-> hints[i].out]
      /\ \A i, j \in 1..n : i # j => hints[i].out # hints[j].out
      /\ \A i \in 1..n : hints[i].out # hints[1].in
      /\ \A i \in 2..n : hints[i - 1].out = hints[i].in
  BY <1>3 DEF Follows, RouteIsValid
<1> HIDE DEF n
<1>8. \A i \in 1..n : /\ r.legs[i].hint = hints[i] /\ r.legs[i].used = q.quotes[i].used
                      /\ r.legs[i].est = q.quotes[i].est /\ r.legs[i].min = q.quotes[i].min
  BY <1>4 DEF Leg
<1>9. ASSUME NEW i \in 0..n
      PROVE  /\ At(r, i) = (IF i = 0 THEN hints[1].in ELSE hints[i].out)
             /\ Sure(r, amount, i) = Funds(q.quotes, i + 1, amount)
  <2>1. CASE i = 0
    <3>1. 1 \in 1..n /\ i + 1 = 1
      BY <1>7, <2>1
    <3> QED BY <1>8, <2>1, <3>1 DEF At, Sure, Funds
  <2>2. CASE i # 0
    <3>1. i \in 1..n /\ i + 1 # 1 /\ (i + 1) - 1 = i
      BY <1>7, <2>2, SMTT(30)
    <3> QED BY <1>8, <2>2, <3>1 DEF At, Sure, Funds
  <2> QED BY <2>1, <2>2
<1>10. ASSUME NEW i \in 0..n PROVE At(r, i) \in Mints /\ Sure(r, amount, i) \in Nat
  <2>1. CASE i = 0
    <3>1. 1 \in 1..n
      BY <1>7
    <3>2. hints[1].in \in Mints
      BY <1>1, <3>1, HintIs DEF n
    <3> QED BY <1>2, <1>9, <2>1, <3>2 DEF Sure
  <2>2. CASE i # 0
    <3>1. i \in 1..n
      BY <1>7, <2>2
    <3>2. hints[i].out \in Mints
      BY <1>1, <3>1, HintIs DEF n
    <3> QED BY <1>6, <1>8, <1>9, <2>2, <3>1, <3>2 DEF Sure
  <2> QED BY <2>1, <2>2
<1>11. ASSUME NEW i \in 0..n, NEW j \in 0..n, i # j PROVE At(r, i) # At(r, j)
  <2>1. (i = 0 \/ i \in 1..n) /\ (j = 0 \/ j \in 1..n)
    BY <1>7
  <2>2. /\ At(r, i) = (IF i = 0 THEN hints[1].in ELSE hints[i].out)
        /\ At(r, j) = (IF j = 0 THEN hints[1].in ELSE hints[j].out)
    BY <1>9
  <2>3. CASE i \in 1..n /\ j \in 1..n
    <3>1. hints[i].out # hints[j].out
      BY <1>7, <1>11, <2>3
    <3> QED BY <2>2, <2>3, <3>1
  <2>4. CASE i = 0 \/ j = 0
    BY <1>7, <1>11, <2>1, <2>2, <2>4
  <2> QED BY <2>1, <2>3, <2>4
<1>12. ASSUME NEW i \in 1..n PROVE LegRuns(r, amount, i)
  <2>1. i \in 0..n /\ i - 1 \in 0..n /\ i # 0 /\ (i - 1) + 1 = i
    BY <1>7
  <2>2. At(r, i - 1) = hints[i].in
    <3>1. CASE i = 1
      BY <1>9, <2>1, <3>1
    <3>2. CASE i # 1
      <4>1. i \in 2..n /\ i - 1 # 0
        BY <1>7, <3>2
      <4> QED BY <1>7, <1>9, <2>1, <4>1
    <3> QED BY <3>1, <3>2
  <2>3. At(r, i) = hints[i].out
    BY <1>9, <2>1
  <2>4. Sure(r, amount, i - 1) = Funds(q.quotes, i, amount)
    BY <1>9, <2>1
  <2>5. hints[i] \in HintsOver(Pools)
    BY <1>1 DEF n
  <2>6. Sure(r, amount, i - 1) \in Nat
    BY <1>10, <2>1
  <2>7. r.legs[i].used \in 0..Sure(r, amount, i - 1)
    <3>1. q.quotes[i].used \in 1..Sure(r, amount, i - 1)
      BY <1>5, <2>4 DEF n
    <3> QED BY <1>8, <2>6, <3>1
  <2>8. r.legs[i].min = Sure(r, amount, i)
    BY <2>1 DEF Sure
  <2>9. r.legs[i].est \in Int /\ r.legs[i].est >= r.legs[i].min
    <3>1. q.quotes[i].est \in Nat /\ q.quotes[i].min \in 1..q.quotes[i].est
      BY <1>6 DEF n
    <3> QED BY <1>8, <3>1
  <2>10. r.legs[i].hint = hints[i]
    BY <1>8
  <2> QED BY <2>2, <2>3, <2>5, <2>7, <2>8, <2>9, <2>10 DEF LegRuns
<1>13. Len(r.setup) = n + 1 /\ \A i \in 0..n : r.setup[i + 1] = At(r, i)
  <2> DEFINE a == <<hints[1].in>>  b == [i \in 1..n |-> hints[i].out]
  <2>1. Sequence(a) /\ Len(a) = 1 /\ a[1] = hints[1].in /\ Sequence(b) /\ Len(b) = n /\ \A i \in 1..n : b[i] = hints[i].out
    BY <1>7 DEF Sequence
  <2>2. r.setup = a \o b
    BY <1>7
  <2> HIDE DEF a, b
  <2>3. /\ Len(a \o b) = Len(a) + Len(b) /\ \A i \in 1..Len(a) : (a \o b)[i] = a[i]
        /\ \A i \in 1..Len(b) : (a \o b)[Len(a) + i] = b[i]
    <3>1. Sequence(a) /\ Sequence(b)
      BY <2>1
    <3> QED BY <3>1, Join
  <2>4. Len(r.setup) = n + 1 /\ r.setup[1] = hints[1].in /\ \A i \in 1..n : r.setup[1 + i] = hints[i].out
    BY <1>7, <2>1, <2>2, <2>3
  <2>5. \A i \in 0..n : (i = 0 /\ i + 1 = 1) \/ (i # 0 /\ i \in 1..n /\ i + 1 = 1 + i)
    BY <1>7
  <2> QED BY <1>9, <2>4, <2>5
<1>14. r.min = Sure(r, amount, n)
  BY <1>4, <1>5, <1>7, <1>9
<1>15. native \/ Curveless(r)
  BY <1>2, <1>7, <1>8 DEF NoCurves, Curveless
<1>16. Runs(r, amount)
  BY <1>7, <1>10, <1>11, <1>12, <1>13, <1>14 DEF Runs
<1> QED BY <1>15, <1>16

\* The swap of a leg passes what is sure of one asset on to the next; a curve that is quoted
\* in SOL takes or pays lamports.
LEMMA SwapPasses ==
    ASSUME NEW r, NEW amount, Runs(r, amount), NEW i \in 1..Len(r.legs)
    PROVE  LET leg == r.legs[i]  a == At(r, i - 1)  b == At(r, i)
               n == Sure(r, amount, i - 1)  k == Sure(r, amount, i)
           IN  /\ leg.hint \in HintsOver(Pools) /\ leg.hint.in = a /\ leg.hint.out = b
               /\ a \in Mints /\ b \in Mints /\ a # b /\ n \in Nat /\ k \in Nat
               /\ leg.used \in 0..n /\ leg.min = k /\ leg.est \in Int /\ leg.est >= k
               /\ ~NativeQuote(leg.hint.pool) => Passes(Swap(leg), a, b, n, k)
               /\ NativeQuote(leg.hint.pool) /\ a = Wsol => Passes(Swap(leg), "lamports", b, leg.used, k)
               /\ NativeQuote(leg.hint.pool) /\ a # Wsol => b = Wsol /\ Passes(Swap(leg), a, "lamports", n, k)
<1> DEFINE leg == r.legs[i]  a == At(r, i - 1)  b == At(r, i)
           n == Sure(r, amount, i - 1)  k == Sure(r, amount, i)  ix == Swap(leg)
           curve == NativeQuote(leg.hint.pool)
<1>1. i - 1 \in 0..Len(r.legs) /\ i \in 0..Len(r.legs) /\ i - 1 # i
  BY DEF Runs
<1>2. /\ leg.hint \in HintsOver(Pools) /\ leg.hint.in = a /\ leg.hint.out = b
      /\ leg.used \in 0..n /\ leg.min = k /\ leg.est \in Int /\ leg.est >= leg.min
  BY DEF Runs, LegRuns
<1>3. a \in Mints /\ b \in Mints /\ n \in Nat /\ k \in Nat /\ a # b
  <2>1. At(r, i - 1) \in Mints /\ At(r, i) \in Mints /\ Sure(r, amount, i - 1) \in Nat /\ Sure(r, amount, i) \in Nat
    BY <1>1 DEF Runs
  <2>2. At(r, i - 1) # At(r, i)
    BY <1>1 DEF Runs
  <2> QED BY <2>1, <2>2
<1>4. /\ ix.op = "swap" /\ ix.amount = leg.used /\ ix.min = leg.min /\ ix.est = leg.est
      /\ ix.from = IF curve /\ Buys(leg.hint) THEN "lamports" ELSE leg.hint.in
      /\ ix.to = IF curve /\ ~Buys(leg.hint) THEN "lamports" ELSE leg.hint.out
  BY DEF Swap
<1>5. curve => /\ Buys(leg.hint) <=> a = Wsol
               /\ ~Buys(leg.hint) => b = Wsol
  BY <1>2, HintIs DEF NativeQuote, Buys
<1> HIDE DEF leg, a, b, n, k, ix, curve
<1>6. a # "lamports" /\ b # "lamports" /\ k <= leg.est /\ leg.used \in 0..leg.used
  BY <1>2, <1>3, AccountsApart
<1>7. ~curve => Passes(ix, a, b, n, k)
  BY <1>2, <1>3, <1>4, <1>6 DEF Passes
<1>8. curve /\ a = Wsol => Passes(ix, "lamports", b, leg.used, k)
  BY <1>2, <1>3, <1>4, <1>5, <1>6 DEF Passes
<1>9. curve /\ a # Wsol => b = Wsol /\ Passes(ix, a, "lamports", n, k)
  BY <1>2, <1>3, <1>4, <1>5, <1>6 DEF Passes
<1>10. leg.est >= k
  BY <1>2
<1> QED BY <1>2, <1>3, <1>7, <1>8, <1>9, <1>10 DEF leg, a, b, n, k, ix, curve

\* A stretch of a route's swaps, from leg j + 1 to leg k, among them no curve.
LEMMA StretchRuns ==
    ASSUME NEW r, NEW amount, Runs(r, amount), NEW j \in Nat, NEW k \in Nat, j <= k, k <= Len(r.legs),
           \A i \in (j + 1)..k : ~NativeQuote(r.legs[i].hint.pool),
           NEW s, Sequence(s), Len(s) = k - j, \A i \in 1..(k - j) : s[i] = Swap(r.legs[j + i]),
           NEW B \in Floors, \A i \in j..k : B[At(r, i)] >= 0
    PROVE  Leads(Plus(B, At(r, j), Sure(r, amount, j)), s, Plus(B, At(r, k), Sure(r, amount, k)))
<1> DEFINE m == k - j
           acc == [i \in 0..m |-> At(r, j + i)]
           spend == [i \in 0..m |-> Sure(r, amount, j + i)]
<1>1. m \in Nat /\ j + 0 = j /\ j + m = k /\ Len(r.legs) \in Nat
  BY DEF Runs
<1> HIDE DEF m
<1>2. ASSUME NEW i \in 0..m
      PROVE  At(r, j + i) \in Acc /\ Sure(r, amount, j + i) \in Nat /\ B[At(r, j + i)] >= 0
  <2>1. j + i \in 0..Len(r.legs) /\ j + i \in j..k
    BY <1>1
  <2> QED BY <2>1, AccountsApart DEF Runs
<1>3. /\ acc \in [0..m -> Acc] /\ spend \in [0..m -> Nat]
      /\ \A i \in 0..m : acc[i] = At(r, j + i) /\ spend[i] = Sure(r, amount, j + i) /\ B[acc[i]] >= 0
  BY <1>2
<1> HIDE DEF acc, spend
<1>4. ASSUME NEW i \in 1..m PROVE Passes(s[i], acc[i - 1], acc[i], spend[i - 1], spend[i])
  <2> DEFINE l == j + i
  <2>1. /\ l \in 1..Len(r.legs) /\ l \in (j + 1)..k /\ i - 1 \in 0..m /\ i \in 0..m /\ j + (i - 1) = l - 1
        /\ i \in 1..(k - j)
    BY <1>1
  <2>2. s[i] = Swap(r.legs[l]) /\ ~NativeQuote(r.legs[l].hint.pool)
    BY <2>1
  <2>3. acc[i - 1] = At(r, l - 1) /\ acc[i] = At(r, l)
    BY <1>3, <2>1
  <2>4. spend[i - 1] = Sure(r, amount, l - 1) /\ spend[i] = Sure(r, amount, l)
    BY <1>3, <2>1
  <2> HIDE DEF l
  <2>5. Passes(Swap(r.legs[l]), At(r, l - 1), At(r, l), Sure(r, amount, l - 1), Sure(r, amount, l))
    BY <2>1, <2>2, SwapPasses
  <2> QED BY <2>2, <2>3, <2>4, <2>5
<1>5. acc[0] = At(r, j) /\ acc[m] = At(r, k) /\ spend[0] = Sure(r, amount, j) /\ spend[m] = Sure(r, amount, k)
  <2>1. 0 \in 0..m /\ m \in 0..m
    BY <1>1
  <2> QED BY <1>1, <1>3, <2>1
<1>6. Len(s) = m
  BY DEF m
<1>7. \A i \in 0..m : B[acc[i]] >= 0
  BY <1>3
<1>8. Leads(Plus(B, acc[0], spend[0]), s, Plus(B, acc[m], spend[m]))
  BY <1>1, <1>3, <1>4, <1>6, <1>7, LegsRun
<1> QED BY <1>5, <1>8

\* The account of an asset where SOL is in the temporary account.
Temporary(a) == IF a = Wsol THEN "temp" ELSE a

\* A route through the temporary account, of which the first leg needs no more than it spends.
LEMMA TempRuns ==
    ASSUME NEW r, NEW amount, Runs(r, amount), Curveless(r), NEW k \in Nat, r.legs[1].used <= k,
           NEW B \in Floors, \A i \in 0..Len(r.legs) : B[Temporary(At(r, i))] >= 0
    PROVE  Leads(Plus(B, Temporary(At(r, 0)), k), [i \in DOMAIN r.legs |-> ToTemporary(Swap(r.legs[i]))],
                 Plus(B, Temporary(At(r, Len(r.legs))), r.min))
<1> DEFINE n == Len(r.legs)
           s == [i \in DOMAIN r.legs |-> ToTemporary(Swap(r.legs[i]))]
           acc == [i \in 0..n |-> Temporary(At(r, i))]
           spend == [i \in 0..n |-> IF i = 0 THEN k ELSE Sure(r, amount, i)]
<1>1. n \in 1..5 /\ DOMAIN r.legs = 1..n /\ r.min = Sure(r, amount, n)
  BY DEF Runs, Shape, Sequence
<1> HIDE DEF n
<1>2. Sequence(s) /\ Len(s) = n /\ \A i \in 1..n : s[i] = ToTemporary(Swap(r.legs[i]))
  BY <1>1 DEF Sequence
<1> HIDE DEF s
<1>3. ASSUME NEW i \in 0..n
      PROVE  Temporary(At(r, i)) \in Acc /\ Sure(r, amount, i) \in Nat /\ B[Temporary(At(r, i))] >= 0
  BY AccountsApart DEF Runs, Temporary, n
<1>4. /\ acc \in [0..n -> Acc] /\ spend \in [0..n -> Nat]
      /\ \A i \in 0..n : acc[i] = Temporary(At(r, i)) /\ B[acc[i]] >= 0
      /\ \A i \in 0..n : spend[i] = IF i = 0 THEN k ELSE Sure(r, amount, i)
  BY <1>3
<1> HIDE DEF acc, spend
<1>5. ASSUME NEW i \in 1..n PROVE Passes(s[i], acc[i - 1], acc[i], spend[i - 1], spend[i])
  <2> DEFINE a == At(r, i - 1)  b == At(r, i)  ix == Swap(r.legs[i])  x == r.legs[i].used
  <2>1. i - 1 \in 0..n /\ i \in 0..n /\ i # 0 /\ (i - 1 = 0 => i = 1)
    BY <1>1
  <2>2. ~NativeQuote(r.legs[i].hint.pool)
    BY DEF Curveless, n
  <2>3. /\ Passes(ix, a, b, Sure(r, amount, i - 1), Sure(r, amount, i)) /\ a \in Mints /\ b \in Mints
        /\ x \in 0..Sure(r, amount, i - 1) /\ Sure(r, amount, i - 1) \in Nat /\ Sure(r, amount, i) \in Nat
    BY <2>2, SwapPasses DEF n
  <2>4. /\ ix = [op |-> "swap", amount |-> x, min |-> ix.min, est |-> ix.est, from |-> ix.from, to |-> ix.to]
    BY DEF Swap
  <2> HIDE DEF ix, a, b, x
  <2>5. /\ ToTemporary(ix).op = "swap" /\ ToTemporary(ix).amount = x
        /\ ToTemporary(ix).min = ix.min /\ ToTemporary(ix).est = ix.est
        /\ ToTemporary(ix).from = Temporary(ix.from) /\ ToTemporary(ix).to = Temporary(ix.to)
    BY <2>4 DEF ToTemporary, Temporary
  <2>6. Temporary(a) # Temporary(b)
    BY <2>3, AccountsApart DEF Passes, Temporary
  <2>7. x \in 0..spend[i - 1] /\ spend[i] = Sure(r, amount, i)
    <3>1. CASE i = 1
      <4>1. spend[i - 1] = k /\ x <= k
        BY <1>4, <2>1, <3>1 DEF x
      <4> QED BY <1>4, <2>1, <2>3, <4>1
    <3>2. CASE i # 1
      <4>1. spend[i - 1] = Sure(r, amount, i - 1)
        BY <1>4, <2>1, <3>2
      <4> QED BY <1>4, <2>1, <2>3, <4>1
    <3> QED BY <3>1, <3>2
  <2>8. acc[i - 1] = Temporary(a) /\ acc[i] = Temporary(b) /\ s[i] = ToTemporary(ix)
    BY <1>2, <1>4, <2>1 DEF a, b, ix
  <2> QED BY <2>3, <2>5, <2>6, <2>7, <2>8 DEF Passes
<1>6. n \in Nat /\ 0 \in 0..n /\ n \in 0..n /\ n # 0
  BY <1>1
<1>7. /\ acc[0] = Temporary(At(r, 0)) /\ acc[n] = Temporary(At(r, n)) /\ spend[0] = k /\ spend[n] = r.min
      /\ \A i \in 0..n : B[acc[i]] >= 0
  BY <1>1, <1>4, <1>6
<1>8. Leads(Plus(B, acc[0], spend[0]), s, Plus(B, acc[n], spend[n]))
  BY <1>2, <1>4, <1>5, <1>6, <1>7, LegsRun
<1> QED BY <1>7, <1>8 DEF n, s

-----------------------------------------------------------------------------
(* What a transaction promises, from the wallet its caller was told to have. *)

\* The balances of that wallet.
Start(need, in, amount, nativeInput, own) ==
    [a \in Acc |-> IF a = "lamports" THEN need ELSE IF a = "temp" THEN Absent
                   ELSE IF a = in /\ ~nativeInput THEN amount ELSE IF a = Wsol THEN own ELSE Absent]
Worth(f, a) == IF f[a] = Absent THEN 0 ELSE f[a]
Owns == Nat \cup {Absent}

\* The instructions go through, spend no lamport that was not asked for, and bring the
\* minimum, whatever the wallet's own wrapped SOL account has.
Fulfils(ixs, need, in, out, amount, a, b, min) ==
    \A own \in Owns : \E g :
       LET f == Start(need, in, amount, a, own)
       IN /\ Leads(f, ixs, g) /\ g["lamports"] >= 0
          /\ IF b THEN g["lamports"] >= need + min ELSE g[out] >= Worth(f, out) + min

\* These are balances.
LEMMA StartIs ==
    ASSUME NEW need \in Nat, NEW in, NEW amount \in Nat, NEW a, NEW own \in Owns
    PROVE  LET f == Start(need, in, amount, a, own)
           IN  /\ f \in Floors
               /\ \A c \in Acc : f[c] = IF c = "lamports" THEN need ELSE IF c = "temp" THEN Absent
                                        ELSE IF c = in /\ ~a THEN amount ELSE IF c = Wsol THEN own ELSE Absent
<1> DEFINE f == Start(need, in, amount, a, own)
           v(c) == IF c = "lamports" THEN need ELSE IF c = "temp" THEN Absent
                   ELSE IF c = in /\ ~a THEN amount ELSE IF c = Wsol THEN own ELSE Absent
<1>1. f = [c \in Acc |-> v(c)]
  BY DEF Start
<1>2. \A c \in Acc : v(c) \in {n \in Int : n >= Absent}
  BY DEF Owns, Absent
<1> HIDE DEF f, v
<1>3. f \in Floors /\ \A c \in Acc : f[c] = v(c)
  BY <1>1, <1>2 DEF Floors
<1> QED BY <1>3 DEF f, v

\* The assets whose accounts a route sets up.
Assets(r) == {r.setup[i] : i \in 1..Len(r.setup)}

\* Those along the route.
LEMMA AssetsAre ==
    ASSUME NEW r, NEW amount, Runs(r, amount)
    PROVE  /\ Assets(r) = {At(r, i) : i \in 0..Len(r.legs)} /\ Assets(r) \subseteq Mints
           /\ r.setup[1] = At(r, 0) /\ Last(r.setup) = At(r, Len(r.legs))
<1> DEFINE n == Len(r.legs)
<1>1. /\ n \in 1..5 /\ Len(r.setup) = n + 1 /\ \A i \in 0..n : r.setup[i + 1] = At(r, i) /\ At(r, i) \in Mints
  BY DEF Runs
<1> HIDE DEF n
<1>2. ASSUME NEW j \in 1..(n + 1) PROVE j - 1 \in 0..n /\ (j - 1) + 1 = j
  BY <1>1
<1>3. \A i \in 0..n : i + 1 \in 1..(n + 1)
  BY <1>1
<1>4. Assets(r) = {At(r, i) : i \in 0..n}
  <2>1. ASSUME NEW x \in Assets(r) PROVE x \in {At(r, i) : i \in 0..n}
    <3>1. PICK j \in 1..(n + 1) : x = r.setup[j]
      BY <1>1 DEF Assets
    <3>2. x = At(r, j - 1) /\ j - 1 \in 0..n
      BY <1>1, <1>2, <3>1
    <3> QED BY <3>2
  <2>2. ASSUME NEW i \in 0..n PROVE At(r, i) \in Assets(r)
    BY <1>1, <1>3 DEF Assets
  <2> QED BY <2>1, <2>2
<1>5. r.setup[1] = At(r, 0)
  <2>1. 0 \in 0..n /\ 0 + 1 = 1
    BY <1>1
  <2> QED BY <1>1, <2>1
<1>6. Last(r.setup) = At(r, n)
  <2>1. n \in 0..n
    BY <1>1
  <2> QED BY <1>1, <2>1 DEF Last
<1>7. Assets(r) \subseteq Mints
  BY <1>1, <1>4
<1> QED BY <1>4, <1>5, <1>6, <1>7 DEF n

\* The setup of a route, and what is kept of it.
LEMMA SetupRuns ==
    ASSUME NEW r, Shape(r), Assets(r) \subseteq Mints, NEW f \in Floors, NEW g \in Floors,
           \A a \in Acc : g[a] <= f[a] \/ (g[a] <= 0 /\ a \in Assets(r)),
           g["temp"] = Absent => f["temp"] = Absent
    PROVE  /\ Leads(f, Setup(r), g)
           /\ (\A a \in Acc : g[a] <= f[a] \/ a # Wsol) => Leads(f, Keep(Setup(r)), g)
<1> DEFINE s == Setup(r)  k == Keep(s)
<1>1. Creating(s) /\ Creating(k)
  BY SetupCreates, KeepIs
<1>2. /\ DOMAIN r.setup = 1..Len(r.setup) /\ Len(r.setup) \in Nat
  BY DEF Shape, Sequence
<1>3. Len(s) = Len(r.setup) /\ \A i \in 1..Len(s) : s[i] = Ata(r.setup[i])
  BY <1>2 DEF Setup
<1>4. /\ \A i \in 1..Len(k) : \E j \in 1..Len(s) : k[i] = s[j] /\ s[j] # Ata(Wsol)
      /\ \A j \in 1..Len(s) : s[j] # Ata(Wsol) => \E i \in 1..Len(k) : k[i] = s[j]
  BY <1>1, KeepIs
<1> HIDE DEF s, k
<1>5. \A x, y : Ata(x).mint = x /\ (Ata(x) = Ata(y) => x = y)
  <2>1. \A x : Ata(x).mint = x
    BY DEF Ata
  <2> QED BY <2>1
<1>6. \A i \in 1..Len(s) : s[i].mint = r.setup[i] /\ s[i].mint \in Assets(r)
  BY <1>3, <1>5 DEF Assets
<1>7. Leads(f, s, g)
  <2>1. \A a \in Assets(r) : \E i \in 1..Len(s) : a = s[i].mint
    BY <1>3, <1>6 DEF Assets
  <2>2. \A a \in Acc : g[a] <= f[a] \/ (g[a] <= 0 /\ \E i \in 1..Len(s) : a = s[i].mint)
    BY <2>1
  <2>3. \A i \in 1..Len(s) : s[i].mint \in Mints
    BY <1>6
  <2> QED BY <1>1, <2>2, <2>3, SetupLeads
<1>8. ASSUME \A a \in Acc : g[a] <= f[a] \/ a # Wsol PROVE Leads(f, k, g)
  <2>1. \A i \in 1..Len(k) : k[i].mint \in Mints
    BY <1>4, <1>6
  <2>2. ASSUME NEW a \in Acc PROVE g[a] <= f[a] \/ (g[a] <= 0 /\ \E i \in 1..Len(k) : a = k[i].mint)
    <3>1. CASE g[a] <= f[a]
      BY <3>1
    <3>2. CASE ~(g[a] <= f[a])
      <4>1. g[a] <= 0 /\ a \in Assets(r) /\ a # Wsol
        BY <1>8, <3>2
      <4>2. PICK j \in 1..Len(s) : s[j] = Ata(a)
        BY <1>3, <4>1 DEF Assets
      <4>3. s[j] # Ata(Wsol)
        BY <1>5, <4>1, <4>2
      <4>4. PICK i \in 1..Len(k) : k[i] = Ata(a)
        BY <1>4, <4>2, <4>3
      <4>5. a = k[i].mint
        BY <1>5, <4>4
      <4> QED BY <4>1, <4>5
    <3> QED BY <3>1, <3>2
  <2> QED BY <1>1, <2>1, <2>2, SetupLeads
<1> QED BY <1>7, <1>8 DEF s, k

\* The wallet of a trade without a native endpoint, its accounts set up, apart from the input.
Ready(r, in, own, l) ==
    [a \in Acc |-> IF a = "lamports" THEN l ELSE IF a = "temp" THEN Absent
                   ELSE IF a = Wsol /\ a # in /\ own # Absent THEN own ELSE IF a \in Assets(r) THEN 0 ELSE Absent]

\* The setup makes it so.
LEMMA ReadyRuns ==
    ASSUME NEW r, Shape(r), Assets(r) \subseteq Mints, NEW in \in Assets(r), NEW amount \in Nat, NEW l \in Nat,
           NEW own \in Owns, NEW p, ~p
    PROVE  LET f == Start(l, in, amount, p, own)  B == Ready(r, in, own, l)
           IN  /\ B \in Floors /\ (\A a \in Assets(r) : a \in Acc /\ a # "lamports" /\ a # "temp" /\ B[a] >= 0)
               /\ B["lamports"] = l /\ B["temp"] = Absent
               /\ \A a \in Assets(r) : a # in => B[a] = Worth(f, a)
               /\ Leads(f, Setup(r), Plus(B, in, amount))
<1> DEFINE f == Start(l, in, amount, p, own)  B == Ready(r, in, own, l)  A == Assets(r)
           v(a) == IF a = "lamports" THEN l ELSE IF a = "temp" THEN Absent
                   ELSE IF a = Wsol /\ a # in /\ own # Absent THEN own ELSE IF a \in A THEN 0 ELSE Absent
<1>1. \A a \in A : a \in Acc /\ a # "lamports" /\ a # "temp"
  BY AccountsApart
<1>2. "lamports" \in Acc /\ "temp" \in Acc /\ "lamports" # "temp" /\ in \in Acc /\ own \in Int /\ own >= Absent
  BY <1>1, AccountsApart DEF Owns, Absent
<1>3. B \in Floors /\ \A a \in Acc : B[a] = v(a)
  <2>1. B = [a \in Acc |-> v(a)]
    BY DEF Ready
  <2>2. \A a \in Acc : v(a) \in {n \in Int : n >= Absent}
    BY <1>2 DEF Absent
  <2> HIDE DEF B, v
  <2> QED BY <2>1, <2>2 DEF Floors
<1>4. /\ f \in Floors
      /\ \A c \in Acc : f[c] = IF c = "lamports" THEN l ELSE IF c = "temp" THEN Absent
                               ELSE IF c = in THEN amount ELSE IF c = Wsol THEN own ELSE Absent
  BY <1>2, StartIs
<1> HIDE DEF f, B, A
<1>5. \A a \in A : B[a] >= 0
  <2>1. own # Absent => own >= 0
    BY DEF Owns, Absent
  <2> QED BY <1>1, <1>3, <2>1
<1>6. \A a \in A : a # in => B[a] = Worth(f, a)
  BY <1>1, <1>3, <1>4 DEF Worth
<1>7. B["lamports"] = l /\ B["temp"] = Absent
  BY <1>2, <1>3
<1> DEFINE g == Plus(B, in, amount)
<1>8. in \in A
  BY DEF A
<1>9. g \in Floors /\ \A a \in Acc : g[a] = IF a = in THEN B[in] + amount ELSE B[a]
  <2>1. B[in] + amount >= Absent
    BY <1>3, <1>5, <1>8, <1>2 DEF Absent, Floors
  <2> QED BY <1>2, <1>3, <2>1, PlusIs
<1> HIDE DEF g
<1>10. \A a \in Acc : g[a] <= f[a] \/ (g[a] <= 0 /\ a \in A)
  <2> SUFFICES ASSUME NEW a \in Acc PROVE g[a] <= f[a] \/ (g[a] <= 0 /\ a \in A)
    OBVIOUS
  <2>1. f[a] \in Int /\ g[a] \in Int /\ f[a] >= Absent
    BY <1>4, <1>9 DEF Floors
  <2>2. CASE a = in
    <3>1. B[in] = 0
      BY <1>1, <1>2, <1>3, <1>8
    <3>2. f[in] = amount
      BY <1>1, <1>2, <1>4, <1>8
    <3> QED BY <1>9, <2>2, <3>1, <3>2
  <2>3. CASE a # in
    <3>1. g[a] = v(a)
      BY <1>3, <1>9, <2>3
    <3> QED BY <1>4, <2>1, <2>3, <3>1
  <2> QED BY <2>2, <2>3
<1>11. g["temp"] = Absent => f["temp"] = Absent
  BY <1>2, <1>4
<1>12. Leads(f, Setup(r), g)
  BY <1>4, <1>9, <1>10, <1>11, SetupRuns DEF A
<1> QED BY <1>1, <1>3, <1>5, <1>6, <1>7, <1>12 DEF f, B, A, g

\* Instructions that end there, with the minimum in place of the input, do what is asked.
LEMMA ReadyEnds ==
    ASSUME NEW r, Shape(r), Assets(r) \subseteq Mints, NEW in \in Assets(r), NEW out \in Assets(r), in # out,
           NEW amount \in Nat, NEW min \in Nat, NEW l \in Nat, NEW p, ~p, NEW q, ~q, NEW ixs,
           \A own \in Owns : Leads(Start(l, in, amount, p, own), ixs, Plus(Ready(r, in, own, l), out, min))
    PROVE  Fulfils(ixs, l, in, out, amount, p, q, min)
<1>1. ASSUME NEW own \in Owns
      PROVE  \E g : LET f == Start(l, in, amount, p, own)
                    IN  /\ Leads(f, ixs, g) /\ g["lamports"] >= 0
                        /\ g[out] >= Worth(f, out) + min
  <2> DEFINE f == Start(l, in, amount, p, own)  B == Ready(r, in, own, l)  g == Plus(B, out, min)
  <2>1. /\ B \in Floors /\ (\A a \in Assets(r) : a \in Acc /\ a # "lamports" /\ a # "temp" /\ B[a] >= 0)
        /\ B["lamports"] = l
        /\ \A a \in Assets(r) : a # in => B[a] = Worth(f, a)
    BY ReadyRuns
  <2>2. Leads(f, ixs, g)
    OBVIOUS
  <2> HIDE DEF f, B
  <2>3. out \in Acc /\ out # "lamports" /\ B[out] \in Int /\ B[out] >= 0 /\ B[out] + min >= Absent
    BY <2>1 DEF Floors, Absent
  <2>4. \A a \in Acc : g[a] = IF a = out THEN B[out] + min ELSE B[a]
    BY <2>1, <2>3, PlusIs
  <2> HIDE DEF g
  <2>5. g["lamports"] >= 0 /\ g[out] >= Worth(f, out) + min
    <3>1. g["lamports"] = l
      BY <2>1, <2>3, <2>4, AccountsApart
    <3>2. g[out] = B[out] + min /\ B[out] = Worth(f, out)
      BY <2>1, <2>3, <2>4
    <3>3. B[out] + min >= B[out] + min /\ l >= 0
      BY <2>3
    <3> QED BY <3>1, <3>2, <3>3
  <2> QED BY <2>2, <2>5 DEF f
<1> QED BY <1>1 DEF Fulfils

\* A route from account to account.
LEMMA PlainLands ==
    ASSUME NEW r, NEW amount, Runs(r, amount), Curveless(r), NEW p, ~p, NEW q, ~q
    PROVE  Fulfils(Plain(r).instructions, 0, At(r, 0), At(r, Len(r.legs)), amount, p, q, r.min)
<1> DEFINE n == Len(r.legs)  in == At(r, 0)  out == At(r, n)  s == Swaps(r)
<1>1. /\ n \in 1..5 /\ Shape(r) /\ DOMAIN r.legs = 1..n /\ r.official = FALSE
      /\ r.min = Sure(r, amount, n) /\ r.min \in Nat /\ amount \in Nat /\ in # out
  <2>1. /\ n \in 1..5 /\ Shape(r) /\ DOMAIN r.legs = 1..n /\ r.official = FALSE /\ r.min = Sure(r, amount, n)
    BY DEF Runs, Shape, Sequence
  <2>2. 0 \in 0..n /\ n \in 0..n /\ 0 # n
    <3> HIDE DEF n
    <3> QED BY <2>1
  <2>3. Sure(r, amount, n) \in Nat /\ Sure(r, amount, 0) \in Nat /\ in # out
    BY <2>2 DEF Runs
  <2> QED BY <2>1, <2>3 DEF Sure
<1>2. Assets(r) = {At(r, i) : i \in 0..n} /\ Assets(r) \subseteq Mints
  BY AssetsAre
<1> HIDE DEF n
<1>3. in \in Assets(r) /\ out \in Assets(r)
  <2>1. 0 \in 0..n /\ n \in 0..n
    BY <1>1
  <2> QED BY <1>2, <2>1
<1>4. Sequence(s) /\ Len(s) = n /\ \A i \in 1..n : s[i] = Swap(r.legs[i])
  <2>1. s = [i \in 1..n |-> Swap(r.legs[i])]
    BY <1>1 DEF Swaps
  <2> HIDE DEF s
  <2>2. Len(s) = n /\ DOMAIN s = 1..n
    BY <1>1, <2>1
  <2> QED BY <2>1, <2>2, <1>1 DEF Sequence
<1> HIDE DEF s, in, out
<1>5. Plain(r).instructions = Setup(r) \o s
  BY DEF Plain, s
<1> DEFINE z == 0
<1>6. ASSUME NEW own \in Owns
      PROVE  Leads(Start(z, in, amount, p, own), Setup(r) \o s, Plus(Ready(r, in, own, z), out, r.min))
  <2> DEFINE f == Start(z, in, amount, p, own)  B == Ready(r, in, own, z)  g == Plus(B, out, r.min)
  <2>1. z \in Nat
    OBVIOUS
  <2> HIDE DEF z
  <2>2. /\ B \in Floors /\ (\A a \in Assets(r) : B[a] >= 0) /\ Leads(f, Setup(r), Plus(B, in, amount))
    BY <1>1, <1>2, <1>3, <2>1, ReadyRuns
  <2> HIDE DEF f, B
  <2>3. Leads(Plus(B, in, amount), s, g)
    <3> DEFINE j == 0
    <3>1. /\ j \in Nat /\ n \in Nat /\ j <= n /\ n <= Len(r.legs) /\ n - j = n
          /\ \A i \in (j + 1)..n : ~NativeQuote(r.legs[i].hint.pool)
          /\ \A i \in 1..(n - j) : s[i] = Swap(r.legs[j + i])
          /\ \A i \in j..n : B[At(r, i)] >= 0
      <4>1. \A i \in 0..n : At(r, i) \in Assets(r)
        BY <1>2
      <4>2. n = Len(r.legs)
        BY DEF n
      <4>3. \A i \in 1..n : ~NativeQuote(r.legs[i].hint.pool)
        BY <4>2 DEF Curveless
      <4>4. \A i \in j..n : B[At(r, i)] >= 0
        BY <2>2, <4>1
      <4>5. \A i \in 1..(n - j) : i \in 1..n /\ j + i = i
        BY <1>1
      <4> QED BY <1>1, <1>4, <4>2, <4>3, <4>4, <4>5
    <3> HIDE DEF j
    <3>2. Leads(Plus(B, At(r, j), Sure(r, amount, j)), s, Plus(B, At(r, n), Sure(r, amount, n)))
      BY <1>4, <2>2, <3>1, StretchRuns
    <3> QED BY <1>1, <3>2 DEF j, in, out, Sure
  <2> QED BY <2>2, <2>3, LeadsOn DEF f, B, g
<1>7. z \in Nat
  OBVIOUS
<1> HIDE DEF z
<1>8. Fulfils(Setup(r) \o s, z, in, out, amount, p, q, r.min)
  BY <1>1, <1>2, <1>3, <1>6, <1>7, ReadyEnds
<1> QED BY <1>5, <1>8 DEF in, out, n, z

\* Pump's own route: one swap, of all of the input, for the caller's own minimum.
LEMMA OfficialLands ==
    ASSUME NEW in \in Mints, NEW out \in Mints, in # out, NEW amount \in Nat, NEW r, Shape(r), r.official,
           r.setup = <<in, out>>, r.min \in Nat, r.spends = amount, NEW p, ~p, NEW q, ~q
    PROVE  Fulfils(Plain(r).instructions, 0, in, out, amount, p, q, r.min)
<1> DEFINE ix == Official(r)  z == 0  k == r.min
<1>1. /\ k \in Nat /\ z \in Nat /\ Plain(r).instructions = Setup(r) \o <<ix>>
      /\ ix.op = "swap" /\ ix.from = in /\ ix.to = out /\ ix.amount = amount /\ ix.min = k /\ ix.est = k
  BY DEF Plain, Swaps, Official
<1>2. Assets(r) = {in, out}
  <2>1. Len(r.setup) = 2 /\ r.setup[1] = in /\ r.setup[2] = out
    OBVIOUS
  <2>2. \A i \in 1..2 : i = 1 \/ i = 2
    OBVIOUS
  <2> QED BY <2>1, <2>2 DEF Assets
<1> HIDE DEF ix, z, k
<1>3. Passes(ix, in, out, amount, k)
  BY <1>1 DEF Passes
<1>4. ASSUME NEW own \in Owns
      PROVE  Leads(Start(z, in, amount, p, own), Setup(r) \o <<ix>>, Plus(Ready(r, in, own, z), out, k))
  <2> DEFINE f == Start(z, in, amount, p, own)  B == Ready(r, in, own, z)  g == Plus(B, out, k)
  <2>1. /\ B \in Floors /\ (\A a \in Assets(r) : a \in Acc /\ B[a] >= 0) /\ Leads(f, Setup(r), Plus(B, in, amount))
    <3>1. /\ Shape(r) /\ Assets(r) \subseteq Mints /\ in \in Assets(r) /\ amount \in Nat /\ z \in Nat
          /\ own \in Owns /\ ~p
      BY <1>1, <1>2
    <3> QED BY ONLY <3>1, ReadyRuns
  <2> HIDE DEF f, B
  <2>2. in \in Acc /\ out \in Acc /\ B[in] >= 0 /\ B[out] >= 0
    BY <1>2, <2>1
  <2>3. Turns(Plus(B, in, amount), ix, g)
    BY <1>1, <1>3, <2>1, <2>2, PassTurns
  <2>4. g \in Floors
    <3>1. B[out] \in Int /\ B[out] + k >= Absent
      BY <1>1, <2>1, <2>2 DEF Floors, Absent
    <3> QED BY <1>1, <2>1, <2>2, <3>1, PlusIs
  <2> HIDE DEF g
  <2>5. Leads(Plus(B, in, amount), <<ix>>, g)
    BY <2>3, <2>4, BelowSame, LeadsOne
  <2> QED BY <2>1, <2>5, LeadsOn DEF f, g, B
<1>5. Fulfils(Setup(r) \o <<ix>>, z, in, out, amount, p, q, k)
  <2>1. /\ Shape(r) /\ Assets(r) \subseteq Mints /\ in \in Assets(r) /\ out \in Assets(r) /\ in # out
        /\ amount \in Nat /\ k \in Nat /\ z \in Nat /\ ~p /\ ~q
    BY <1>1, <1>2
  <2> QED BY ONLY <1>4, <2>1, ReadyEnds
<1> QED BY <1>1, <1>5 DEF z, k

\* The wallet of a trade whose SOL is native, its other accounts set up.
Bare(r, own, t) ==
    [a \in Acc |-> IF a = "lamports" THEN 0 ELSE IF a = "temp" THEN t
                   ELSE IF a = Wsol THEN own ELSE IF a \in Assets(r) THEN 0 ELSE Absent]

\* The kept part of the setup makes it so, apart from what is to be spent.
LEMMA BareRuns ==
    ASSUME NEW r, Shape(r), Assets(r) \subseteq Mints, NEW own \in Owns, NEW t \in Owns, NEW k \in Nat,
           NEW x \in Acc, x = "lamports" \/ (x = "temp" /\ t = 0) \/ (x \in Assets(r) /\ x # Wsol),
           NEW f \in Floors,
           \A a \in Acc : a = x => f[a] >= k,
           \A a \in Acc : a # x /\ a = "lamports" => f[a] >= 0,
           \A a \in Acc : a # x /\ a = "temp" => f[a] >= t,
           \A a \in Acc : a # x /\ a = Wsol => f[a] >= own,
           t = Absent => f["temp"] = Absent
    PROVE  LET B == Bare(r, own, t)
           IN  /\ B \in Floors
               /\ \A a \in Acc : B[a] = IF a = "lamports" THEN 0 ELSE IF a = "temp" THEN t
                                        ELSE IF a = Wsol THEN own ELSE IF a \in Assets(r) THEN 0 ELSE Absent
               /\ Leads(f, Keep(Setup(r)), Plus(B, x, k))
<1> DEFINE B == Bare(r, own, t)  A == Assets(r)
           v(a) == IF a = "lamports" THEN 0 ELSE IF a = "temp" THEN t
                   ELSE IF a = Wsol THEN own ELSE IF a \in A THEN 0 ELSE Absent
<1>1. /\ \A a \in A : a \in Acc /\ a # "lamports" /\ a # "temp"
      /\ "lamports" \in Acc /\ "temp" \in Acc /\ "lamports" # "temp" /\ Wsol # "lamports" /\ Wsol # "temp"
  BY AccountsApart
<1>2. own \in Int /\ own >= Absent /\ t \in Int /\ t >= Absent
  BY DEF Owns, Absent
<1>3. B \in Floors /\ \A a \in Acc : B[a] = v(a)
  <2>1. B = [a \in Acc |-> v(a)]
    BY DEF Bare
  <2>2. \A a \in Acc : v(a) \in {n \in Int : n >= Absent}
    BY <1>2 DEF Absent
  <2> HIDE DEF B, v
  <2> QED BY <2>1, <2>2 DEF Floors
<1> HIDE DEF B, A
<1>4. B[x] = 0
  BY <1>1, <1>3 DEF A
<1> DEFINE g == Plus(B, x, k)
<1>5. g \in Floors /\ \A a \in Acc : g[a] = IF a = x THEN k ELSE v(a)
  <2>1. B[x] + k >= Absent
    BY <1>4 DEF Absent
  <2>2. g \in Floors /\ \A a \in Acc : g[a] = IF a = x THEN B[x] + k ELSE B[a]
    BY <1>3, <2>1, PlusIs
  <2> HIDE DEF g, v
  <2> QED BY <1>3, <1>4, <2>2
<1> HIDE DEF g
<1>6. \A a \in Acc : g[a] <= f[a] \/ (g[a] <= 0 /\ a \in A /\ a # Wsol)
  <2> SUFFICES ASSUME NEW a \in Acc PROVE g[a] <= f[a] \/ (g[a] <= 0 /\ a \in A /\ a # Wsol)
    OBVIOUS
  <2>1. f[a] \in Int /\ g[a] \in Int /\ f[a] >= Absent
    BY <1>5 DEF Floors
  <2>2. CASE a = x
    BY <1>5, <2>1, <2>2
  <2>3. CASE a # x
    <3>1. g[a] = v(a)
      BY <1>5, <2>3
    <3>2. a = "lamports" => g[a] <= f[a]
      BY <2>1, <2>3, <3>1
    <3>3. a = "temp" => g[a] <= f[a]
      BY <1>1, <2>1, <2>3, <3>1
    <3>4. a = Wsol => g[a] <= f[a]
      BY <1>1, <2>1, <2>3, <3>1
    <3>5. a # "lamports" /\ a # "temp" /\ a # Wsol /\ a \in A => g[a] <= 0
      BY <3>1
    <3>6. a # "lamports" /\ a # "temp" /\ a # Wsol /\ a \notin A => g[a] <= f[a]
      BY <2>1, <3>1
    <3> QED BY <3>2, <3>3, <3>4, <3>5, <3>6
  <2> QED BY <2>2, <2>3
<1>7. g["temp"] = Absent => f["temp"] = Absent
  <2>1. CASE x = "temp"
    <3>1. g["temp"] = k /\ k # Absent
      BY <1>1, <1>5, <2>1 DEF Absent
    <3> QED BY <3>1
  <2>2. CASE x # "temp"
    <3>1. g["temp"] = t
      BY <1>1, <1>5, <2>2
    <3> QED BY <3>1
  <2> QED BY <2>1, <2>2
<1>8. (\A a \in Acc : g[a] <= f[a] \/ (g[a] <= 0 /\ a \in A)) /\ \A a \in Acc : g[a] <= f[a] \/ a # Wsol
  BY <1>6
<1>9. Leads(f, Keep(Setup(r)), g)
  BY <1>5, <1>7, <1>8, SetupRuns DEF A
<1> QED BY <1>3, <1>9 DEF B, A, g

\* A route with one native endpoint: its SOL is in a temporary account, that is opened with
\* it and closed to the wallet.
LEMMA NativeLands ==
    ASSUME NEW r, NEW amount, Runs(r, amount), Curveless(r), NEW p \in BOOLEAN, NEW q \in BOOLEAN,
           NEW c \in settleCachedRouteWithNativeSol(r, p, q)
    PROVE  /\ c.required \in Nat
           /\ Fulfils(c.instructions, c.required, At(r, 0), At(r, Len(r.legs)), amount, p, q, r.min)
<1> DEFINE n == Len(r.legs)  in == At(r, 0)  out == At(r, n)  u == r.legs[1].used  min == r.min
           need == Rent + (IF p THEN u ELSE 0)  made == Keep(Setup(r))
           swaps == [i \in DOMAIN r.legs |-> ToTemporary(Swap(r.legs[i]))]
           x == IF p THEN "temp" ELSE in  k == IF p THEN u ELSE amount  y == IF p THEN out ELSE "temp"
<1>1. /\ (p \/ q) /\ ~(p /\ q) /\ (IF p THEN r.legs[1].hint.in ELSE Last(r.legs).hint.out) = Wsol
      /\ c.instructions = <<CreateTemp(need)>> \o made \o swaps \o <<CloseTemp>> /\ c.required = need
  <2> DEFINE bad == p = q \/ r.official \/ NativeEndpoint(r, p) # Wsol
             good == [instructions |-> <<CreateTemp(need)>> \o made \o swaps \o <<CloseTemp>>, required |-> need]
  <2>1. c \in IF bad THEN {} ELSE {good}
    BY Zenon DEF settleCachedRouteWithNativeSol, Thrown
  <2> HIDE DEF bad, good
  <2>2. ~bad /\ c = good
    BY <2>1
  <2>3. p # q /\ NativeEndpoint(r, p) = Wsol
    BY <2>2 DEF bad
  <2>4. (p \/ q) /\ ~(p /\ q)
    <3>1. (p = TRUE \/ p = FALSE) /\ (q = TRUE \/ q = FALSE)
      OBVIOUS
    <3>2. CASE p = TRUE
      <4>1. q = FALSE
        BY <2>3, <3>1, <3>2
      <4> QED BY <3>2, <4>1
    <3>3. CASE p = FALSE
      <4>1. q = TRUE
        BY <2>3, <3>1, <3>3
      <4> QED BY <3>3, <4>1
    <3> QED BY <3>1, <3>2, <3>3
  <2>5. c.instructions = <<CreateTemp(need)>> \o made \o swaps \o <<CloseTemp>> /\ c.required = need
    <3> HIDE DEF need, made, swaps
    <3> QED BY <2>2 DEF good
  <2> QED BY <2>3, <2>4, <2>5 DEF NativeEndpoint
<1>2. /\ n \in 1..5 /\ Shape(r) /\ in # out /\ in \in Mints /\ out \in Mints /\ amount \in Nat /\ min \in Nat
      /\ u \in 0..amount
  <2>1. /\ n \in 1..5 /\ Shape(r) /\ min = Sure(r, amount, n)
        /\ \A i \in 0..n : At(r, i) \in Mints /\ Sure(r, amount, i) \in Nat
        /\ \A i, j \in 0..n : i # j => At(r, i) # At(r, j)
        /\ \A i \in 1..n : LegRuns(r, amount, i)
    BY DEF Runs
  <2> HIDE DEF n, min, u
  <2>2. 0 \in 0..n /\ n \in 0..n /\ 0 # n /\ 1 \in 1..n
    BY <2>1
  <2>3. Sure(r, amount, 0) = amount
    BY DEF Sure
  <2>4. u \in 0..amount
    <3>1. r.legs[1].used \in 0..Sure(r, amount, 1 - 1)
      BY <2>1, <2>2 DEF LegRuns
    <3> QED BY <2>3, <3>1 DEF u
  <2> QED BY <2>1, <2>2, <2>3, <2>4
<1>3. IF p THEN in = Wsol ELSE out = Wsol
  <2>1. out = Last(r.legs).hint.out
    BY <1>2 DEF At, Last
  <2> QED BY <1>1, <2>1 DEF At
<1>4. Assets(r) = {At(r, i) : i \in 0..n} /\ Assets(r) \subseteq Mints
  BY AssetsAre
<1>5. Rent \in Nat /\ need \in Nat /\ need - Rent = (IF p THEN u ELSE 0) /\ k \in Nat /\ u <= k
  <2>1. Rent \in Nat
    BY TradeAssumption
  <2> HIDE DEF u
  <2> QED BY <1>2, <2>1
<1>6. x = Temporary(in) /\ y = Temporary(out)
  BY <1>2, <1>3 DEF Temporary
<1>7. in \in Assets(r) /\ out \in Assets(r)
  <2> HIDE DEF n
  <2>1. 0 \in 0..n /\ n \in 0..n
    BY <1>2
  <2> QED BY <1>4, <2>1
<1>8. /\ "lamports" \in Acc /\ "temp" \in Acc /\ Wsol \in Acc /\ "lamports" # "temp" /\ Wsol # "lamports" /\ Wsol # "temp"
      /\ \A a \in Mints : a \in Acc /\ a # "lamports" /\ a # "temp"
  BY AccountsApart
<1>9. /\ \A i \in 0..n : At(r, i) \in Assets(r) /\ r.legs[1].used <= k
      /\ x = Temporary(At(r, 0)) /\ y = Temporary(At(r, n))
  BY <1>4, <1>5, <1>6
<1> HIDE DEF in, out, u, min, need, made, x, y, k
<1>10. ASSUME NEW own \in Owns
       PROVE  \E g : LET f == Start(need, in, amount, p, own)
                     IN  /\ Leads(f, <<CreateTemp(need)>> \o made \o swaps \o <<CloseTemp>>, g) /\ g["lamports"] >= 0
                         /\ IF q THEN g["lamports"] >= need + min ELSE g[out] >= Worth(f, out) + min
  <2> DEFINE f == Start(need, in, amount, p, own)  t == 0  B == Bare(r, own, t)
             f1 == [a \in Acc |-> IF a = "lamports" THEN 0 ELSE IF a = "temp" THEN need - Rent ELSE f[a]]
             g2 == Plus(B, y, min)
             e == [a \in Acc |-> IF a = "lamports" THEN g2["temp"] + Rent
                                 ELSE IF a = "temp" THEN Absent ELSE g2[a]]
  <2>1. /\ f \in Floors
        /\ \A a \in Acc : f[a] = IF a = "lamports" THEN need ELSE IF a = "temp" THEN Absent
                                 ELSE IF a = in /\ ~p THEN amount ELSE IF a = Wsol THEN own ELSE Absent
    BY <1>2, <1>5, StartIs
  <2> HIDE DEF f
  <2>2. f1 \in Floors /\ \A a \in Acc : f1[a] = IF a = "lamports" THEN 0 ELSE IF a = "temp" THEN need - Rent ELSE f[a]
    <3>1. \A a \in Acc : (IF a = "lamports" THEN 0 ELSE IF a = "temp" THEN need - Rent ELSE f[a]) \in {j \in Int : j >= Absent}
      BY <1>2, <1>5, <2>1 DEF Floors, Absent
    <3> QED BY <3>1 DEF Floors
  <2> HIDE DEF f1
  <2>3. Leads(f, <<CreateTemp(need)>>, f1)
    <3>1. f["temp"] = Absent /\ f["lamports"] >= need /\ need >= Rent /\ f1["temp"] >= 0
      BY <1>2, <1>5, <1>8, <2>1, <2>2
    <3>2. \A a \in Acc : f1[a] <= IF a = "lamports" THEN f["lamports"] - need ELSE IF a = "temp" THEN need - Rent ELSE f[a]
      BY <1>5, <1>8, <2>1, <2>2 DEF Floors
    <3> QED BY <1>5, <2>1, <2>2, <3>1, <3>2, OpenLeads
  <2>4. t \in Owns /\ t = 0 /\ t # Absent
    BY DEF Owns, Absent
  <2> HIDE DEF t
  <2>5. /\ B \in Floors
        /\ \A a \in Acc : B[a] = IF a = "lamports" THEN 0 ELSE IF a = "temp" THEN t
                                 ELSE IF a = Wsol THEN own ELSE IF a \in Assets(r) THEN 0 ELSE Absent
        /\ Leads(f1, Keep(Setup(r)), Plus(B, x, k))
    <3>1. x \in Acc /\ (x = "lamports" \/ (x = "temp" /\ t = 0) \/ (x \in Assets(r) /\ x # Wsol))
      BY <1>2, <1>3, <1>7, <1>8, <2>4 DEF x
    <3>2. \A a \in Acc : a = x => f1[a] >= k
      BY <1>2, <1>3, <1>5, <1>8, <2>1, <2>2 DEF x, k
    <3>3. \A a \in Acc : a # x /\ a = "lamports" => f1[a] >= 0
      BY <2>2
    <3>4. \A a \in Acc : a # x /\ a = "temp" => f1[a] >= t
      BY <1>2, <1>5, <1>8, <2>2, <2>4
    <3>5. \A a \in Acc : a # x /\ a = Wsol => f1[a] >= own
      BY <1>2, <1>3, <1>8, <2>1, <2>2 DEF Owns, Absent
    <3>6. t = Absent => f1["temp"] = Absent
      BY <2>4
    <3> QED BY <1>2, <1>4, <1>5, <2>2, <2>4, <3>1, <3>2, <3>3, <3>4, <3>5, <3>6, BareRuns
  <2> HIDE DEF B
  <2>6. Leads(Plus(B, x, k), swaps, g2)
    <3>1. \A i \in 0..n : B[Temporary(At(r, i))] >= 0
      <4> SUFFICES ASSUME NEW i \in 0..n PROVE B[Temporary(At(r, i))] >= 0
        OBVIOUS
      <4>1. At(r, i) \in Assets(r) /\ At(r, i) \in Mints
        BY <1>4, <1>9
      <4>2. CASE At(r, i) = Wsol
        BY <1>8, <2>4, <2>5, <4>2 DEF Temporary
      <4>3. CASE At(r, i) # Wsol
        BY <1>8, <2>5, <4>1, <4>3 DEF Temporary
      <4> QED BY <4>2, <4>3
    <3> HIDE DEF n
    <3>2. Leads(Plus(B, Temporary(At(r, 0)), k), [i \in DOMAIN r.legs |-> ToTemporary(Swap(r.legs[i]))],
                 Plus(B, Temporary(At(r, Len(r.legs))), r.min))
      BY <1>5, <1>9, <2>5, <3>1, TempRuns DEF n
    <3> QED BY <1>9, <3>2 DEF n, min
  <2>7. y \in Acc /\ B[y] = 0
    BY <1>2, <1>3, <1>7, <1>8, <2>4, <2>5 DEF y
  <2>8. g2 \in Floors /\ \A a \in Acc : g2[a] = IF a = y THEN min ELSE B[a]
    <3>1. B[y] + min >= Absent /\ B[y] + min = min
      BY <1>2, <2>7 DEF Absent
    <3> QED BY <1>2, <2>5, <2>7, <3>1, PlusIs
  <2> HIDE DEF g2
  <2>9. g2["temp"] >= 0 /\ g2["temp"] \in Nat /\ g2["lamports"] = 0 /\ (q => g2["temp"] = min)
    <3>1. y # "lamports"
      BY <1>2, <1>8 DEF y
    <3> QED BY <1>1, <1>2, <1>8, <2>4, <2>5, <2>8, <3>1 DEF y
  <2>10. e \in Floors /\ \A a \in Acc : e[a] = IF a = "lamports" THEN g2["temp"] + Rent
                                               ELSE IF a = "temp" THEN Absent ELSE g2[a]
    <3>1. \A a \in Acc : (IF a = "lamports" THEN g2["temp"] + Rent ELSE IF a = "temp" THEN Absent ELSE g2[a])
                            \in {j \in Int : j >= Absent}
      BY <1>5, <2>8, <2>9 DEF Floors, Absent
    <3> QED BY <3>1 DEF Floors
  <2> HIDE DEF e
  <2>11. Leads(g2, <<CloseTemp>>, e)
    <3>1. \A a \in Acc : e[a] <= IF a = "lamports" THEN g2["lamports"] + g2["temp"] + Rent
                                 ELSE IF a = "temp" THEN Absent ELSE g2[a]
      BY <1>5, <2>8, <2>9, <2>10 DEF Floors, Absent
    <3> QED BY <2>8, <2>9, <2>10, <3>1, CloseLeads
  <2>12. Leads(f, <<CreateTemp(need)>> \o made \o swaps \o <<CloseTemp>>, e)
    <3> HIDE DEF swaps
    <3>1. Leads(f1, made, Plus(B, x, k))
      BY <2>5 DEF made
    <3>2. Leads(f, <<CreateTemp(need)>> \o made, Plus(B, x, k))
      BY <2>3, <3>1, LeadsOn
    <3>3. Leads(f, <<CreateTemp(need)>> \o made \o swaps, g2)
      BY <2>6, <3>2, LeadsOn
    <3> QED BY <2>11, <3>3, LeadsOn
  <2>13. e["lamports"] >= 0 /\ (q => e["lamports"] >= need + min)
    <3>1. e["lamports"] = g2["temp"] + Rent
      BY <1>8, <2>10
    <3>2. q => need = Rent
      <4>1. CASE p
        BY <1>1, <4>1
      <4>2. CASE ~p
        BY <1>5, <4>2 DEF need
      <4> QED BY <4>1, <4>2
    <3> QED BY <1>2, <1>5, <2>9, <3>1, <3>2
  <2>14. ~q => e[out] >= Worth(f, out) + min
    <3>1. CASE ~q
      <4>1. p /\ out # Wsol /\ y = out
        BY <1>1, <1>2, <1>3, <3>1 DEF y
      <4>2. e[out] = min
        BY <1>2, <1>8, <2>8, <2>10, <4>1
      <4>3. f[out] = Absent
        BY <1>2, <1>8, <2>1, <4>1
      <4>4. Worth(f, out) = 0
        BY <4>3 DEF Worth
      <4> QED BY <1>2, <4>2, <4>4
    <3> QED BY <3>1
  <2> QED BY <2>12, <2>13, <2>14 DEF f
<1>11. Fulfils(<<CreateTemp(need)>> \o made \o swaps \o <<CloseTemp>>, need, in, out, amount, p, q, min)
  <2> HIDE DEF swaps
  <2> QED BY <1>10 DEF Fulfils
<1> QED BY <1>1, <1>5, <1>11 DEF in, out, min

-----------------------------------------------------------------------------
(* A curve quoted in SOL.                                                  *)

\* What its settlement adds to the swap.
Settles(c, leg, made, p, q) ==
    /\ c = [instructions |-> c.instructions, required |-> c.required]
    /\ leg.hint.in = Wsol => ~q
    /\ leg.hint.in # Wsol => ~p
    /\ p \/ q => c.instructions = Keep(made) \o <<Swap(leg)>> /\ c.required = IF p THEN leg.used ELSE 0
    /\ leg.hint.in # Wsol /\ ~q =>
          c.instructions = made \o <<Swap(leg), FundAta(leg.min)>> /\ c.required = 0
    /\ leg.hint.in = Wsol /\ ~p =>
          /\ c.instructions = <<CreateTemp(Rent), MoveToTemp(leg.used), CloseTemp>> \o Keep(made) \o <<Swap(leg)>>
          /\ c.required = Rent

LEMMA LegIs ==
    ASSUME NEW leg, NEW made, NEW p \in BOOLEAN, NEW q \in BOOLEAN, NEW c \in SettleLeg(leg, made, p, q)
    PROVE  Settles(c, leg, made, p, q)
<1> DEFINE buy == leg.hint.in = Wsol  u == leg.used
           plain == Keep(made) \o <<Swap(leg)>>
           sold == made \o <<Swap(leg), FundAta(leg.min)>>
           bought == <<CreateTemp(Rent), MoveToTemp(leg.used), CloseTemp>> \o Keep(made) \o <<Swap(leg)>>
           bad == (buy /\ q) \/ (~buy /\ p)
           good == [instructions |-> CASE p \/ q -> plain
                                       [] ~buy /\ ~q -> sold
                                       [] buy /\ ~p -> bought,
                    required |-> CASE p -> u
                                   [] buy /\ ~p -> Rent
                                   [] OTHER -> 0]
<1>1. c \in IF bad THEN {} ELSE {good}
  BY Zenon DEF SettleLeg, Thrown
<1> HIDE DEF bad, good
<1>2. ~bad /\ c = good
  BY <1>1
<1>3. (buy => ~q) /\ (~buy => ~p)
  BY <1>2 DEF bad
<1> HIDE DEF buy, u, plain, sold, bought
<1>4. /\ c.instructions = CASE p \/ q -> plain [] ~buy /\ ~q -> sold [] buy /\ ~p -> bought
      /\ c.required = CASE p -> u [] buy /\ ~p -> Rent [] OTHER -> 0
      /\ c = [instructions |-> c.instructions, required |-> c.required]
  BY <1>2 DEF good
<1>5. CASE buy /\ p
  <2>1. c.instructions = plain /\ c.required = u
    BY <1>3, <1>4, <1>5
  <2> QED BY <1>3, <1>4, <1>5, <2>1 DEF buy, u, plain, Settles
<1>6. CASE buy /\ ~p
  <2>1. c.instructions = bought /\ c.required = Rent /\ ~q
    BY <1>3, <1>4, <1>6
  <2> QED BY <1>3, <1>4, <1>6, <2>1 DEF buy, bought, Settles
<1>7. CASE ~buy /\ q
  <2>1. c.instructions = plain /\ c.required = 0 /\ ~p
    BY <1>3, <1>4, <1>7
  <2> QED BY <1>3, <1>4, <1>7, <2>1 DEF buy, plain, Settles
<1>8. CASE ~buy /\ ~q
  <2>1. c.instructions = sold /\ c.required = 0 /\ ~p
    BY <1>3, <1>4, <1>8
  <2> QED BY <1>3, <1>4, <1>8, <2>1 DEF buy, sold, Settles
<1> QED BY <1>5, <1>6, <1>7, <1>8

\* A swap that passes on what is there.
LEMMA PassLeads ==
    ASSUME NEW B \in Floors, NEW a \in Acc, NEW b \in Acc, NEW n \in Nat, NEW k \in Nat,
           B[a] >= 0, B[b] >= 0, NEW ix, Passes(ix, a, b, n, k)
    PROVE  Leads(Plus(B, a, n), <<ix>>, Plus(B, b, k))
<1>1. Turns(Plus(B, a, n), ix, Plus(B, b, k))
  BY PassTurns
<1>2. Plus(B, b, k) \in Floors
  <2>1. B[b] \in Int /\ B[b] + k >= Absent
    BY DEF Floors, Absent
  <2> QED BY <2>1, PlusIs
<1> QED BY <1>1, <1>2, BelowSame, LeadsOne

\* A sale that pays lamports, and the wrapped SOL that is made of them.
LEMMA SoldRuns ==
    ASSUME NEW B \in Floors, NEW a \in Acc, NEW n \in Nat, NEW k \in Nat,
           B[a] >= 0, B["lamports"] >= 0, B[Wsol] >= 0, NEW ix, Passes(ix, a, "lamports", n, k)
    PROVE  Leads(Plus(B, a, n), <<ix, FundAta(k)>>, Plus(B, Wsol, k))
<1> DEFINE f == Plus(B, "lamports", k)  g == Plus(B, Wsol, k)
<1>1. "lamports" \in Acc /\ "temp" \in Acc /\ Wsol \in Acc /\ Wsol # "lamports" /\ Wsol # "temp" /\ "lamports" # "temp"
  BY AccountsApart
<1>2. B["lamports"] \in Int /\ B[Wsol] \in Int /\ B["lamports"] + k >= Absent /\ B[Wsol] + k >= Absent
  BY <1>1 DEF Floors, Absent
<1>3. f \in Floors /\ \A c \in Acc : f[c] = IF c = "lamports" THEN B["lamports"] + k ELSE B[c]
  BY <1>1, <1>2, PlusIs
<1>4. g \in Floors /\ \A c \in Acc : g[c] = IF c = Wsol THEN B[Wsol] + k ELSE B[c]
  BY <1>1, <1>2, PlusIs
<1>5. Leads(Plus(B, a, n), <<ix>>, f)
  BY <1>1, PassLeads
<1> HIDE DEF f, g
<1>6. Moving(f, g, "lamports", Wsol, k, k)
  <2>1. \A c \in Acc : g[c] <= IF c = "lamports" THEN f["lamports"] - k ELSE IF c = Wsol THEN f[Wsol] + k ELSE f[c]
    BY <1>1, <1>2, <1>3, <1>4 DEF Floors
  <2>2. f["lamports"] >= k /\ f[Wsol] >= 0
    BY <1>1, <1>2, <1>3
  <2>3. g["temp"] = Absent => f["temp"] = Absent
    BY <1>1, <1>3, <1>4
  <2> QED BY <1>1, <1>3, <1>4, <2>1, <2>2, <2>3 DEF Moving
<1>7. Leads(f, <<FundAta(k)>>, g)
  BY <1>6, FundLeads
<1>8. Leads(Plus(B, a, n), <<ix>> \o <<FundAta(k)>>, g)
  BY <1>5, <1>7, LeadsOn
<1> QED BY <1>8, InARow DEF g

\* Wrapped SOL that is made lamports.
LEMMA UnwrappedRuns ==
    ASSUME NEW B \in Floors, NEW n \in Nat, NEW u \in 0..n, B["lamports"] >= Rent, B[Wsol] >= 0, B["temp"] = Absent
    PROVE  Leads(Plus(B, Wsol, n), <<CreateTemp(Rent), MoveToTemp(u), CloseTemp>>, Plus(B, "lamports", u))
<1> DEFINE f == Plus(B, Wsol, n)  g == Plus(B, "lamports", u)
<1>1. "lamports" \in Acc /\ "temp" \in Acc /\ Wsol \in Acc /\ Wsol # "lamports" /\ Wsol # "temp" /\ "lamports" # "temp"
  BY AccountsApart
<1>2. /\ B["lamports"] \in Int /\ B[Wsol] \in Int /\ Rent \in Nat
      /\ B["lamports"] + u >= Absent /\ B[Wsol] + n >= Absent
  BY <1>1, TradeAssumption DEF Floors, Absent
<1>3. f \in Floors /\ \A c \in Acc : f[c] = IF c = Wsol THEN B[Wsol] + n ELSE B[c]
  BY <1>1, <1>2, PlusIs
<1>4. g \in Floors /\ \A c \in Acc : g[c] = IF c = "lamports" THEN B["lamports"] + u ELSE B[c]
  BY <1>1, <1>2, PlusIs
<1> HIDE DEF f, g
<1>5. \A a \in Acc : g[a] <= IF a = "lamports" THEN f["lamports"] + u ELSE IF a = Wsol THEN f[Wsol] - u ELSE f[a]
  BY <1>1, <1>2, <1>3, <1>4 DEF Floors
<1>6. f["temp"] = Absent /\ f["lamports"] >= Rent /\ f[Wsol] >= u
  BY <1>1, <1>2, <1>3
<1>7. Leads(f, <<CreateTemp(Rent), MoveToTemp(u), CloseTemp>>, g)
  BY <1>3, <1>4, <1>5, <1>6, UnwrapRuns
<1> QED BY <1>7 DEF f, g

\* Of no creations none is kept.
LEMMA KeptNone == ASSUME NEW f \in Floors PROVE Leads(f, Keep(<<>>), f)
<1> DEFINE k == Keep(<<>>)
<1>1. Creating(<<>>)
  BY DEF Creating, Sequence
<1>2. Creating(k) /\ \A i \in 1..Len(k) : \E j \in 1..Len(<<>>) : k[i] = <<>>[j] /\ <<>>[j] # Ata(Wsol)
  BY <1>1, KeepIs
<1> HIDE DEF k
<1>3. \A i \in 1..Len(k) : k[i].mint \in Mints
  BY <1>2
<1>4. \A a \in Acc : f[a] <= f[a]
  BY DEF Floors
<1> QED BY <1>2, <1>3, <1>4, SetupLeads DEF k

\* A trade with one curve that is quoted in SOL.
LEMMA LegLands ==
    ASSUME NEW r, NEW amount, Runs(r, amount), Len(r.legs) = 1, NativeQuote(r.legs[1].hint.pool),
           NEW p \in BOOLEAN, NEW q \in BOOLEAN, NEW c \in SettleLeg(r.legs[1], Setup(r), p, q)
    PROVE  /\ c.required \in Nat
           /\ Fulfils(c.instructions, c.required, At(r, 0), At(r, 1), amount, p, q, r.min)
<1> DEFINE in == At(r, 0)  out == At(r, 1)  u == r.legs[1].used  min == r.min  ix == Swap(r.legs[1])
           made == Setup(r)  A == Assets(r)
<1>1. /\ Shape(r) /\ in \in Mints /\ out \in Mints /\ in # out /\ amount \in Nat /\ min \in Nat
      /\ u \in 0..amount /\ r.legs[1].min = min /\ r.legs[1].hint.in = in
      /\ in = Wsol => Passes(ix, "lamports", out, u, min)
      /\ in # Wsol => out = Wsol /\ Passes(ix, in, "lamports", amount, min)
  <2>1. /\ Shape(r) /\ 1 \in 1..Len(r.legs) /\ 1 - 1 = 0 /\ r.min = Sure(r, amount, 1) /\ Sure(r, amount, 0) = amount
    BY DEF Runs, Sure
  <2>2. LET leg == r.legs[1]  a == At(r, 1 - 1)  b == At(r, 1)
            n == Sure(r, amount, 1 - 1)  k == Sure(r, amount, 1)
        IN  /\ leg.hint.in = a
            /\ a \in Mints /\ b \in Mints /\ a # b /\ n \in Nat /\ k \in Nat
            /\ leg.used \in 0..n /\ leg.min = k
            /\ NativeQuote(leg.hint.pool) /\ a = Wsol => Passes(Swap(leg), "lamports", b, leg.used, k)
            /\ NativeQuote(leg.hint.pool) /\ a # Wsol => b = Wsol /\ Passes(Swap(leg), a, "lamports", n, k)
    BY <2>1, SwapPasses
  <2> QED BY <2>1, <2>2
<1>2. A = {in, out} /\ A \subseteq Mints
  <2>1. Assets(r) = {At(r, i) : i \in 0..1} /\ Assets(r) \subseteq Mints
    BY AssetsAre
  <2>2. \A i \in 0..1 : i = 0 \/ i = 1
    OBVIOUS
  <2> QED BY <2>1, <2>2
<1>3. /\ "lamports" \in Acc /\ "temp" \in Acc /\ Wsol \in Acc /\ "lamports" # "temp" /\ Wsol # "lamports" /\ Wsol # "temp"
      /\ \A a \in Mints : a \in Acc /\ a # "lamports" /\ a # "temp"
  BY AccountsApart
<1>4. Rent \in Nat
  BY TradeAssumption
<1>5. /\ in = Wsol => ~q
      /\ in # Wsol => ~p
      /\ p \/ q => c.instructions = Keep(made) \o <<ix>> /\ c.required = IF p THEN u ELSE 0
      /\ in # Wsol /\ ~q => c.instructions = made \o <<ix, FundAta(min)>> /\ c.required = 0
      /\ in = Wsol /\ ~p => /\ c.instructions = <<CreateTemp(Rent), MoveToTemp(u), CloseTemp>> \o Keep(made) \o <<ix>>
                            /\ c.required = Rent
  <2> DEFINE leg == r.legs[1]
  <2>1. c \in SettleLeg(leg, made, p, q)
    OBVIOUS
  <2> HIDE DEF leg, made
  <2>2. Settles(c, leg, made, p, q)
    BY <2>1, LegIs
  <2> HIDE DEF in, out
  <2> QED BY <1>1, <2>2 DEF leg, Settles
<1> HIDE DEF in, out, u, min, ix, A
<1>6. CASE p \/ q
  <2> DEFINE need == IF p THEN u ELSE 0  x == IF p THEN "lamports" ELSE in  k == IF p THEN u ELSE amount
             y == IF p THEN out ELSE "lamports"
  <2>1. Passes(ix, x, y, k, min)
    BY <1>1, <1>5, <1>6
  <2>2. need \in Nat /\ k \in Nat /\ x \in Acc /\ y \in Acc /\ c.required = need
    BY <1>1, <1>3, <1>5, <1>6
  <2>3. ASSUME NEW own \in Owns
        PROVE  \E g : LET f == Start(need, in, amount, p, own)
                      IN  /\ Leads(f, Keep(made) \o <<ix>>, g) /\ g["lamports"] >= 0
                          /\ IF q THEN g["lamports"] >= need + min ELSE g[out] >= Worth(f, out) + min
    <3> DEFINE f == Start(need, in, amount, p, own)  t == Absent  B == Bare(r, own, t)  g == Plus(B, y, min)
    <3>1. /\ f \in Floors
          /\ \A a \in Acc : f[a] = IF a = "lamports" THEN need ELSE IF a = "temp" THEN Absent
                                   ELSE IF a = in /\ ~p THEN amount ELSE IF a = Wsol THEN own ELSE Absent
      BY <1>1, <2>2, StartIs
    <3> HIDE DEF f
    <3>2. t \in Owns /\ t = Absent
      BY DEF Owns
    <3> HIDE DEF t
    <3>3. /\ B \in Floors
          /\ \A a \in Acc : B[a] = IF a = "lamports" THEN 0 ELSE IF a = "temp" THEN t
                                   ELSE IF a = Wsol THEN own ELSE IF a \in Assets(r) THEN 0 ELSE Absent
          /\ Leads(f, Keep(Setup(r)), Plus(B, x, k))
      <4>1. x = "lamports" \/ (x = "temp" /\ t = 0) \/ (x \in Assets(r) /\ x # Wsol)
        BY <1>2, <1>5, <1>6 DEF A
      <4>2. \A a \in Acc : a = x => f[a] >= k
        BY <1>1, <1>3, <1>5, <1>6, <2>2, <3>1
      <4>3. \A a \in Acc : a # x /\ a = "lamports" => f[a] >= 0
        BY <2>2, <3>1
      <4>4. \A a \in Acc : a # x /\ a = "temp" => f[a] >= t
        BY <1>3, <3>1, <3>2 DEF Absent
      <4>5. \A a \in Acc : a # x /\ a = Wsol => f[a] >= own
        BY <1>1, <1>3, <1>5, <1>6, <3>1 DEF Owns, Absent
      <4>6. t = Absent => f["temp"] = Absent
        BY <1>3, <3>1
      <4>7. Assets(r) \subseteq Mints
        BY <1>2 DEF A
      <4> QED BY <1>1, <2>2, <3>1, <3>2, <4>1, <4>2, <4>3, <4>4, <4>5, <4>6, <4>7, BareRuns
    <3> HIDE DEF B
    <3>4. B[x] = 0 /\ B[y] = 0
      BY <1>1, <1>2, <1>3, <1>5, <1>6, <3>3 DEF A
    <3>5. Leads(Plus(B, x, k), <<ix>>, g)
      BY <1>1, <2>1, <2>2, <3>3, <3>4, PassLeads
    <3>6. \A a \in Acc : g[a] = IF a = y THEN min ELSE B[a]
      <4>1. B[y] + min >= Absent /\ B[y] + min = min
        BY <1>1, <3>4 DEF Absent
      <4> QED BY <1>1, <2>2, <3>3, <4>1, PlusIs
    <3> HIDE DEF g
    <3>7. Leads(f, Keep(made) \o <<ix>>, g)
      BY <3>3, <3>5, LeadsOn
    <3>8. g["lamports"] >= 0 /\ (q => g["lamports"] >= need + min)
      <4>1. CASE p
        <5>1. g["lamports"] = 0 /\ ~q
          BY <1>1, <1>3, <1>5, <3>3, <3>6, <4>1
        <5> QED BY <5>1
      <4>2. CASE ~p
        <5>1. g["lamports"] = min /\ need = 0
          BY <1>3, <3>6, <4>2
        <5> QED BY <1>1, <5>1
      <4> QED BY <4>1, <4>2
    <3>9. ~q => g[out] >= Worth(f, out) + min
      <4>1. CASE ~q
        <5>1. p /\ in = Wsol /\ out # Wsol /\ y = out
          BY <1>1, <1>5, <1>6, <4>1
        <5>2. g[out] = min
          BY <1>1, <1>3, <3>6, <5>1
        <5>3. f[out] = Absent
          BY <1>1, <1>3, <3>1, <5>1
        <5>4. Worth(f, out) = 0
          BY <5>3 DEF Worth
        <5> QED BY <1>1, <5>2, <5>4
      <4> QED BY <4>1
    <3> QED BY <3>7, <3>8, <3>9 DEF f
  <2> HIDE DEF need, x, k, y
  <2>4. Fulfils(Keep(made) \o <<ix>>, need, in, out, amount, p, q, min)
    BY <2>3 DEF Fulfils
  <2> QED BY <1>5, <1>6, <2>2, <2>4 DEF in, out, min
<1>7. CASE ~p /\ ~q /\ in # Wsol
  <2> DEFINE z == 0
  <2>1. z \in Nat
    OBVIOUS
  <2> HIDE DEF z
  <2>2. Passes(ix, in, "lamports", amount, min) /\ out = Wsol
    BY <1>1, <1>7
  <2>3. ASSUME NEW own \in Owns
        PROVE  Leads(Start(z, in, amount, p, own), made \o <<ix, FundAta(min)>>, Plus(Ready(r, in, own, z), out, min))
    <3> DEFINE f == Start(z, in, amount, p, own)  B == Ready(r, in, own, z)
    <3>1. /\ B \in Floors /\ (\A a \in Assets(r) : a \in Acc /\ a # "lamports" /\ a # "temp" /\ B[a] >= 0)
          /\ B["lamports"] = z /\ B["temp"] = Absent
          /\ Leads(f, Setup(r), Plus(B, in, amount))
      <4>1. /\ Shape(r) /\ Assets(r) \subseteq Mints /\ in \in Assets(r) /\ amount \in Nat /\ z \in Nat
            /\ own \in Owns /\ ~p
        BY <1>1, <1>2, <1>7, <2>1 DEF A
      <4> QED BY ONLY <4>1, ReadyRuns
    <3> HIDE DEF f, B
    <3>2. in \in Acc /\ B[in] >= 0 /\ B["lamports"] >= 0 /\ B[Wsol] >= 0
      BY <1>2, <2>1, <2>2, <3>1 DEF A
    <3>3. Leads(Plus(B, in, amount), <<ix, FundAta(min)>>, Plus(B, out, min))
      BY <1>1, <2>2, <3>1, <3>2, SoldRuns
    <3> QED BY <3>1, <3>3, LeadsOn DEF f, B
  <2>4. Fulfils(made \o <<ix, FundAta(min)>>, z, in, out, amount, p, q, min)
    <3>1. Assets(r) \subseteq Mints /\ in \in Assets(r) /\ out \in Assets(r)
      BY <1>2 DEF A
    <3> QED BY <1>1, <1>7, <2>1, <2>3, <3>1, ReadyEnds
  <2>5. c.instructions = made \o <<ix, FundAta(min)>> /\ c.required = z
    BY <1>5, <1>7 DEF z
  <2> HIDE DEF made
  <2> QED BY <2>1, <2>4, <2>5 DEF in, out, min
<1>8. CASE ~p /\ ~q /\ in = Wsol
  <2> DEFINE open == <<CreateTemp(Rent), MoveToTemp(u), CloseTemp>>
  <2>1. Passes(ix, "lamports", out, u, min) /\ out # Wsol
    BY <1>1, <1>8
  <2>2. Assets(r) \subseteq Mints /\ in \in Assets(r) /\ out \in Assets(r)
    BY <1>2 DEF A
  <2>3. ASSUME NEW own \in Owns
        PROVE  Leads(Start(Rent, in, amount, p, own), open \o Keep(made) \o <<ix>>, Plus(Ready(r, in, own, Rent), out, min))
    <3> DEFINE f == Start(Rent, in, amount, p, own)  B == Ready(r, in, own, Rent)  g == Plus(B, "lamports", u)
               h == [a \in Acc |-> IF a = "lamports" THEN Rent + u ELSE IF a = Wsol THEN amount - u ELSE f[a]]
    <3>1. /\ B \in Floors /\ (\A a \in Assets(r) : a \in Acc /\ a # "lamports" /\ a # "temp" /\ B[a] >= 0)
          /\ B["lamports"] = Rent /\ B["temp"] = Absent
          /\ \A a \in Assets(r) : a # in => B[a] = Worth(f, a)
      <4>1. /\ Shape(r) /\ Assets(r) \subseteq Mints /\ in \in Assets(r) /\ amount \in Nat /\ Rent \in Nat
            /\ own \in Owns /\ ~p
        BY <1>1, <1>4, <1>8, <2>2
      <4> QED BY ONLY <4>1, ReadyRuns
    <3>2. /\ f \in Floors
          /\ \A a \in Acc : f[a] = IF a = "lamports" THEN Rent ELSE IF a = "temp" THEN Absent
                                   ELSE IF a = in /\ ~p THEN amount ELSE IF a = Wsol THEN own ELSE Absent
      BY <1>1, <1>4, StartIs
    <3>3. \A a \in Acc : B[a] = IF a = "lamports" THEN Rent ELSE IF a = "temp" THEN Absent
                                ELSE IF a = Wsol /\ a # in /\ own # Absent THEN own
                                ELSE IF a \in Assets(r) THEN 0 ELSE Absent
      BY DEF Ready
    <3> HIDE DEF f, B
    <3>4. h \in Floors /\ \A a \in Acc : h[a] = IF a = "lamports" THEN Rent + u ELSE IF a = Wsol THEN amount - u ELSE f[a]
      <4>1. \A a \in Acc : (IF a = "lamports" THEN Rent + u ELSE IF a = Wsol THEN amount - u ELSE f[a])
                              \in {j \in Int : j >= Absent}
        BY <1>1, <1>4, <3>2 DEF Floors, Absent
      <4> QED BY <4>1 DEF Floors
    <3> HIDE DEF h
    <3>5. Leads(f, open, h)
      <4>1. f["temp"] = Absent /\ f["lamports"] = Rent /\ f[Wsol] = amount
        BY <1>3, <1>8, <3>2
      <4>2. \A a \in Acc : h[a] <= IF a = "lamports" THEN f["lamports"] + u ELSE IF a = Wsol THEN f[Wsol] - u ELSE f[a]
        BY <1>1, <1>4, <3>2, <3>4, <4>1 DEF Floors
      <4>3. u \in Nat /\ f["lamports"] >= Rent /\ f[Wsol] >= u
        BY <1>1, <1>4, <4>1
      <4> QED BY <3>2, <3>4, <4>1, <4>2, <4>3, UnwrapRuns
    <3>6. g \in Floors /\ \A a \in Acc : g[a] = IF a = "lamports" THEN Rent + u ELSE B[a]
      <4>1. u \in Int /\ B["lamports"] + u >= Absent
        BY <1>1, <1>4, <3>1 DEF Absent
      <4>2. g \in Floors /\ \A a \in Acc : g[a] = IF a = "lamports" THEN B["lamports"] + u ELSE B[a]
        BY <1>3, <3>1, <4>1, PlusIs
      <4> HIDE DEF g
      <4> QED BY <3>1, <4>2
    <3> HIDE DEF g
    <3>7. Leads(h, Keep(Setup(r)), g)
      <4>1. \A a \in Acc : (g[a] <= h[a] \/ (g[a] <= 0 /\ a \in Assets(r))) /\ (g[a] <= h[a] \/ a # Wsol)
        <5> SUFFICES ASSUME NEW a \in Acc
                     PROVE  (g[a] <= h[a] \/ (g[a] <= 0 /\ a \in Assets(r))) /\ (g[a] <= h[a] \/ a # Wsol)
          OBVIOUS
        <5>1. g[a] \in Int /\ h[a] \in Int /\ h[a] >= Absent
          BY <3>4, <3>6 DEF Floors
        <5>2. CASE a = "lamports"
          BY <3>4, <3>6, <5>1, <5>2
        <5>3. CASE a = "temp"
          <6>1. g[a] = Absent
            BY <1>3, <3>3, <3>6, <5>3
          <6> QED BY <5>1, <6>1
        <5>4. CASE a = Wsol
          <6>1. g[a] = 0 /\ h[a] = amount - u
            BY <1>3, <1>8, <2>2, <3>3, <3>4, <3>6, <5>4
          <6> QED BY <1>1, <6>1
        <5>5. CASE a # "lamports" /\ a # "temp" /\ a # Wsol
          <6>1. g[a] = IF a \in Assets(r) THEN 0 ELSE Absent
            BY <3>3, <3>6, <5>5
          <6> QED BY <5>1, <5>5, <6>1
        <5> QED BY <5>2, <5>3, <5>4, <5>5
      <4>2. g["temp"] = Absent => h["temp"] = Absent
        BY <1>3, <3>2, <3>4
      <4> QED BY <1>1, <2>2, <3>4, <3>6, <4>1, <4>2, SetupRuns
    <3>8. Leads(g, <<ix>>, Plus(B, out, min))
      <4>1. u \in Nat /\ out \in Acc /\ B["lamports"] >= 0 /\ B[out] >= 0
        BY <1>1, <1>4, <2>2, <3>1
      <4> QED BY <1>1, <1>3, <2>1, <3>1, <4>1, PassLeads DEF g
    <3>9. Leads(f, open \o Keep(made), g)
      BY <3>5, <3>7, LeadsOn
    <3> QED BY <3>8, <3>9, LeadsOn DEF f, B
  <2> HIDE DEF open
  <2>4. Fulfils(open \o Keep(made) \o <<ix>>, Rent, in, out, amount, p, q, min)
    BY <1>1, <1>4, <1>8, <2>2, <2>3, ReadyEnds
  <2> QED BY <1>4, <1>5, <1>8, <2>4 DEF open, in, out, min
<1> QED BY <1>6, <1>7, <1>8

\* The swaps of the legs from j + 1 to k.
Stretch(s, r, j, k) == Sequence(s) /\ Len(s) = k - j /\ \A i \in 1..(k - j) : s[i] = Swap(r.legs[j + i])

\* They are a stretch of a route's swaps.
LEMMA SwapsFrom ==
    ASSUME NEW r, Shape(r), r.official = FALSE, NEW j \in Nat, NEW k \in Nat, j <= k, k <= Len(r.legs)
    PROVE  Stretch(SubSeq(Swaps(r), j + 1, k), r, j, k)
<1> DEFINE n == Len(r.legs)  w == Swaps(r)  V == {w[i] : i \in 1..n}  s == SubSeq(w, j + 1, k)
<1>1. n \in Nat /\ DOMAIN r.legs = 1..n
  BY DEF Shape, Sequence
<1>2. w = [i \in 1..n |-> Swap(r.legs[i])]
  BY <1>1 DEF Swaps
<1> HIDE DEF n, w
<1>3. Len(w) = n /\ DOMAIN w = 1..n /\ \A i \in 1..n : w[i] = Swap(r.legs[i])
  BY <1>1, <1>2
<1>4. w \in Seq(V)
  BY <1>1, <1>2, <1>3
<1> HIDE DEF V
<1>5. j + 1 \in 1..(Len(w) + 1) /\ k \in ((j + 1) - 1)..Len(w) /\ j \in Nat /\ k \in Nat /\ k <= n
  BY <1>1, <1>3 DEF n
<1> DEFINE a == j + 1
<1>6. a \in 1..(Len(w) + 1) /\ k \in (a - 1)..Len(w)
  BY <1>5
<1> HIDE DEF a
<1>7. /\ SubSeq(w, a, k) \in Seq(V) /\ Len(SubSeq(w, a, k)) = k - a + 1
      /\ \A i \in 1..(k - a + 1) : SubSeq(w, a, k)[i] = w[a + i - 1]
  BY <1>4, <1>6, SubSeqProperties
<1>8. k - a + 1 = k - j /\ \A i \in 1..(k - j) : a + i - 1 = j + i /\ j + i \in 1..n
  BY <1>1, <1>5 DEF a
<1>9. s \in Seq(V) /\ Len(s) = k - j /\ \A i \in 1..(k - j) : s[i] = Swap(r.legs[j + i])
  BY <1>3, <1>7, <1>8 DEF a
<1> HIDE DEF s
<1>10. Sequence(s)
  BY <1>9, SeqIsSequence
<1> QED BY <1>9, <1>10 DEF s, w, Stretch

\* The wallet of such a trade holds every asset of the route that is set up.
LEMMA ReadyHolds ==
    ASSUME NEW r, NEW amount, Runs(r, amount), NEW l \in Nat, NEW own \in Owns, NEW p, ~p
    PROVE  LET f == Start(l, At(r, 0), amount, p, own)  B == Ready(r, At(r, 0), own, l)
           IN  /\ B \in Floors /\ B["lamports"] = l /\ B["temp"] = Absent
               /\ \A i \in 0..Len(r.legs) : At(r, i) \in Acc /\ B[At(r, i)] >= 0
               /\ Leads(f, Setup(r), Plus(B, At(r, 0), amount))
<1> DEFINE n == Len(r.legs)  in == At(r, 0)  f == Start(l, in, amount, p, own)  B == Ready(r, in, own, l)
<1>1. Assets(r) = {At(r, i) : i \in 0..n} /\ Assets(r) \subseteq Mints
  BY AssetsAre
<1>2. n \in 1..5 /\ Shape(r) /\ Sure(r, amount, 0) \in Nat
  <2>1. n \in 1..5 /\ Shape(r) /\ \A i \in 0..n : Sure(r, amount, i) \in Nat
    BY DEF Runs
  <2> HIDE DEF n
  <2>2. 0 \in 0..n
    BY <2>1
  <2> QED BY <2>1, <2>2
<1>3. amount \in Nat
  BY <1>2 DEF Sure
<1> HIDE DEF n
<1>4. in \in Assets(r)
  <2>1. 0 \in 0..n
    BY <1>2
  <2> QED BY <1>1, <2>1
<1> HIDE DEF in
<1>5. /\ B \in Floors /\ (\A a \in Assets(r) : a \in Acc /\ a # "lamports" /\ a # "temp" /\ B[a] >= 0)
      /\ B["lamports"] = l /\ B["temp"] = Absent
      /\ \A a \in Assets(r) : a # in => B[a] = Worth(f, a)
      /\ Leads(f, Setup(r), Plus(B, in, amount))
  <2>1. /\ Shape(r) /\ Assets(r) \subseteq Mints /\ in \in Assets(r) /\ amount \in Nat /\ l \in Nat
        /\ own \in Owns /\ ~p
    BY <1>1, <1>2, <1>3, <1>4
  <2> QED BY ONLY <2>1, ReadyRuns
<1> HIDE DEF f, B
<1>6. \A i \in 0..n : At(r, i) \in Assets(r)
  BY <1>1
<1>7. \A i \in 0..n : At(r, i) \in Acc /\ B[At(r, i)] >= 0
  BY <1>5, <1>6
<1> QED BY <1>5, <1>7 DEF f, B, in, n

\* A purchase whose last leg is the curve: what the legs before it bring is unwrapped.
LEMMA LastBuys ==
    ASSUME NEW r, NEW amount, Runs(r, amount), NEW n, n = Len(r.legs), n # 1, At(r, n - 1) = Wsol,
           NativeQuote(r.legs[n].hint.pool), \A i \in 1..(n - 1) : ~NativeQuote(r.legs[i].hint.pool),
           NEW p, ~p, NEW q, ~q
    PROVE  LET leg == r.legs[n]
           IN  Fulfils(Setup(r) \o SubSeq(Swaps(r), 1, n - 1)
                          \o (<<CreateTemp(Rent), MoveToTemp(leg.used), CloseTemp>> \o Keep(<<>>) \o <<Swap(leg)>>),
                       Rent, At(r, 0), At(r, n), amount, p, q, r.min)
<1> DEFINE leg == r.legs[n]  in == At(r, 0)  out == At(r, n)  u == leg.used  k == Sure(r, amount, n - 1)
           open == <<CreateTemp(Rent), MoveToTemp(u), CloseTemp>>  m == n - 1  s == SubSeq(Swaps(r), 1, m)  z == 0
           ix == Swap(leg)  min == r.min
<1>1. /\ n \in 1..5 /\ Shape(r) /\ r.official = FALSE /\ r.min = Sure(r, amount, n)
      /\ \A i \in 0..n : Sure(r, amount, i) \in Nat
      /\ \A i, j \in 0..n : i # j => At(r, i) # At(r, j)
  BY DEF Runs
<1>2. /\ m \in Nat /\ m \in 1..n /\ m <= n /\ n \in 1..n /\ 0 \in 0..n /\ n \in 0..n /\ m \in 0..n /\ 0 # n
      /\ z \in Nat /\ z <= m /\ m - z = m /\ z + 1 = 1 /\ m <= Len(r.legs)
  <2>1. n \in Int /\ n >= 2 /\ n <= 5
    <3>1. n \in 1..5 /\ n # 1
      BY <1>1
    <3> QED BY ONLY <3>1
  <2>2. /\ m \in Nat /\ m \in 1..n /\ m <= n /\ n \in 1..n /\ 0 \in 0..n /\ n \in 0..n /\ m \in 0..n /\ 0 # n
        /\ z \in Nat /\ z <= m /\ m - z = m /\ z + 1 = 1
    BY ONLY <2>1
  <2> HIDE DEF m, z
  <2> QED BY <2>2
<1>3. in # out /\ min \in Nat /\ amount \in Nat /\ k \in Nat /\ min = Sure(r, amount, n) /\ Sure(r, amount, z) = amount
  <2>1. Sure(r, amount, 0) = amount
    BY DEF Sure
  <2> QED BY <1>1, <1>2, <2>1
<1>4. u \in 0..k /\ Passes(ix, "lamports", out, u, min)
  <2> HIDE DEF leg
  <2>1. LET a == At(r, n - 1)  b == At(r, n)  h == Sure(r, amount, n - 1)  w == Sure(r, amount, n)
        IN  /\ r.legs[n].used \in 0..h
            /\ NativeQuote(r.legs[n].hint.pool) /\ a = Wsol => Passes(Swap(r.legs[n]), "lamports", b, r.legs[n].used, w)
    BY <1>2, SwapPasses
  <2> QED BY <1>1, <2>1 DEF leg
<1>5. Assets(r) = {At(r, i) : i \in 0..n} /\ Assets(r) \subseteq Mints
  BY AssetsAre
<1>6. Rent \in Nat
  BY TradeAssumption
<1>7. Sequence(s) /\ Len(s) = m - z /\ \A i \in 1..(m - z) : s[i] = Swap(r.legs[z + i])
  <2> DEFINE e == SubSeq(Swaps(r), z + 1, m)
  <2> HIDE DEF m, z
  <2>1. Stretch(e, r, z, m)
    BY <1>1, <1>2, SwapsFrom
  <2> QED BY <1>2, <2>1 DEF Stretch
<1>8. "lamports" \in Acc /\ Wsol \in Acc
  BY AccountsApart
<1>9. \A i \in (z + 1)..m : ~NativeQuote(r.legs[i].hint.pool)
  BY <1>2
<1> HIDE DEF leg, in, out, u, k, open, s, z, ix, min
<1>10. ASSUME NEW own \in Owns
       PROVE  Leads(Start(Rent, in, amount, p, own), Setup(r) \o s \o (open \o Keep(<<>>) \o <<ix>>),
                    Plus(Ready(r, in, own, Rent), out, min))
  <2> DEFINE f == Start(Rent, in, amount, p, own)  B == Ready(r, in, own, Rent)
             g == Plus(B, Wsol, k)  h == Plus(B, "lamports", u)
  <2>1. /\ B \in Floors /\ B["lamports"] = Rent /\ B["temp"] = Absent
        /\ \A i \in 0..n : At(r, i) \in Acc /\ B[At(r, i)] >= 0
        /\ Leads(f, Setup(r), Plus(B, in, amount))
    BY <1>6, ReadyHolds DEF in
  <2> HIDE DEF f, B
  <2>2. Leads(Plus(B, in, amount), s, g)
    <3>1. \A i \in z..m : B[At(r, i)] >= 0
      BY <1>1, <1>2, <2>1
    <3> HIDE DEF m
    <3>2. Leads(Plus(B, At(r, z), Sure(r, amount, z)), s, Plus(B, At(r, m), Sure(r, amount, m)))
      BY <1>2, <1>7, <1>9, <2>1, <3>1, StretchRuns
    <3> QED BY <1>3, <3>2 DEF in, k, m, z
  <2>3. B[Wsol] >= 0 /\ B[out] >= 0 /\ out \in Acc
    BY <1>2, <2>1 DEF out
  <2>4. Leads(g, open, h)
    <3>1. B["lamports"] >= Rent
      BY <1>6, <2>1
    <3> QED BY <1>3, <1>4, <2>1, <2>3, <3>1, UnwrappedRuns DEF open
  <2>5. u \in Nat /\ B["lamports"] >= 0
    BY <1>3, <1>4, <1>6, <2>1
  <2>6. h \in Floors
    <3>1. B["lamports"] + u >= Absent /\ u \in Int
      BY <1>6, <2>1, <2>5 DEF Absent
    <3> QED BY <1>8, <2>1, <3>1, PlusIs
  <2>7. Leads(h, <<ix>>, Plus(B, out, min))
    BY <1>3, <1>4, <1>8, <2>1, <2>3, <2>5, PassLeads
  <2> HIDE DEF g, h
  <2>8. Leads(g, open \o Keep(<<>>), h)
    BY <2>4, <2>6, KeptNone, LeadsOn
  <2>9. Leads(g, open \o Keep(<<>>) \o <<ix>>, Plus(B, out, min))
    BY <2>7, <2>8, LeadsOn
  <2>10. Leads(f, Setup(r) \o s, g)
    BY <2>1, <2>2, LeadsOn
  <2> QED BY <2>9, <2>10, LeadsOn DEF f, B
<1>11. in \in Assets(r) /\ out \in Assets(r)
  BY <1>2, <1>5 DEF in, out
<1>12. Fulfils(Setup(r) \o s \o (open \o Keep(<<>>) \o <<ix>>), Rent, in, out, amount, p, q, min)
  BY <1>1, <1>3, <1>5, <1>6, <1>10, <1>11, ReadyEnds
<1> QED BY <1>12 DEF leg, in, out, u, open, s, ix, min

\* A sale whose first leg is the curve: what it pays is wrapped for the legs after it.
LEMMA FirstSells ==
    ASSUME NEW r, NEW amount, Runs(r, amount), NEW n, n = Len(r.legs), n # 1, At(r, 1) = Wsol,
           NativeQuote(r.legs[1].hint.pool), \A i \in 2..n : ~NativeQuote(r.legs[i].hint.pool),
           NEW p, ~p, NEW q, ~q
    PROVE  LET leg == r.legs[1]
           IN  Fulfils(Setup(r) \o (<<>> \o <<Swap(leg), FundAta(leg.min)>>) \o SubSeq(Swaps(r), 2, n),
                       0, At(r, 0), At(r, n), amount, p, q, r.min)
<1> DEFINE leg == r.legs[1]  in == At(r, 0)  out == At(r, n)  k == leg.min
           s == SubSeq(Swaps(r), 2, n)  z == 0  w == 1  ix == Swap(leg)  min == r.min
<1>1. /\ n \in 1..5 /\ Shape(r) /\ r.official = FALSE /\ r.min = Sure(r, amount, n)
      /\ \A i \in 0..n : Sure(r, amount, i) \in Nat
      /\ \A i, j \in 0..n : i # j => At(r, i) # At(r, j)
  BY DEF Runs
<1>2. /\ w \in Nat /\ w \in 1..n /\ w <= n /\ n \in Nat /\ 0 \in 0..n /\ n \in 0..n /\ w \in 0..n /\ 0 # n /\ 0 # w
      /\ z \in Nat /\ w + 1 = 2 /\ w = 1 /\ w - 1 = 0
  BY <1>1
<1>3. in # out /\ min \in Nat /\ amount \in Nat /\ min = Sure(r, amount, n) /\ in # Wsol
  <2>1. Sure(r, amount, 0) = amount
    BY DEF Sure
  <2> QED BY <1>1, <1>2, <2>1
<1>4. k \in Nat /\ k = Sure(r, amount, 1) /\ Passes(ix, in, "lamports", amount, k)
  <2>1. LET a == At(r, w - 1)  b == At(r, w)  h == Sure(r, amount, w - 1)  v == Sure(r, amount, w)
        IN  /\ v \in Nat /\ r.legs[w].min = v
            /\ NativeQuote(r.legs[w].hint.pool) /\ a # Wsol => b = Wsol /\ Passes(Swap(r.legs[w]), a, "lamports", h, v)
    <3> HIDE DEF w
    <3> QED BY <1>2, SwapPasses
  <2>2. Sure(r, amount, 0) = amount
    BY DEF Sure
  <2> QED BY <1>2, <1>3, <2>1, <2>2
<1>5. Assets(r) = {At(r, i) : i \in 0..n} /\ Assets(r) \subseteq Mints
  BY AssetsAre
<1>7. Sequence(s) /\ Len(s) = n - w /\ \A i \in 1..(n - w) : s[i] = Swap(r.legs[w + i])
  <2> DEFINE e == SubSeq(Swaps(r), w + 1, n)
  <2> HIDE DEF w
  <2>0. n <= Len(r.legs)
    BY <1>2
  <2>1. Stretch(e, r, w, n)
    BY <1>1, <1>2, <2>0, SwapsFrom
  <2> QED BY <1>2, <2>1 DEF Stretch
<1>9. \A i \in (w + 1)..n : ~NativeQuote(r.legs[i].hint.pool)
  BY <1>2
<1> HIDE DEF leg, in, out, k, s, z, w, ix, min
<1>10. ASSUME NEW own \in Owns
       PROVE  Leads(Start(z, in, amount, p, own), Setup(r) \o (<<>> \o <<ix, FundAta(k)>>) \o s,
                    Plus(Ready(r, in, own, z), out, min))
  <2> DEFINE f == Start(z, in, amount, p, own)  B == Ready(r, in, own, z)
             g == Plus(B, Wsol, k)  h == Plus(B, in, amount)
  <2>1. /\ B \in Floors /\ B["lamports"] = z /\ B["temp"] = Absent
        /\ \A i \in 0..n : At(r, i) \in Acc /\ B[At(r, i)] >= 0
        /\ Leads(f, Setup(r), h)
    <3>1. Runs(r, amount) /\ z \in Nat /\ own \in Owns /\ ~p /\ n = Len(r.legs)
      BY <1>2
    <3> QED BY ONLY <3>1, ReadyHolds DEF in
  <2>2. B[Wsol] >= 0 /\ B[in] >= 0 /\ in \in Acc /\ B["lamports"] >= 0
    BY <1>2, <2>1 DEF in, z
  <2> HIDE DEF f, B
  <2>3. Leads(h, <<ix, FundAta(k)>>, g)
    BY <1>3, <1>4, <2>1, <2>2, SoldRuns
  <2>4. Leads(g, s, Plus(B, out, min))
    <3>1. \A i \in w..n : B[At(r, i)] >= 0
      BY <1>1, <1>2, <2>1
    <3>2. n <= Len(r.legs)
      BY <1>2
    <3>3. Leads(Plus(B, At(r, w), Sure(r, amount, w)), s, Plus(B, At(r, n), Sure(r, amount, n)))
      BY <1>2, <1>7, <1>9, <2>1, <3>1, <3>2, StretchRuns
    <3> QED BY <1>2, <1>3, <1>4, <3>3 DEF out
  <2>5. h \in Floors
    <3>1. B[in] \in Int /\ B[in] + amount >= Absent /\ amount \in Int
      BY <1>3, <2>1, <2>2 DEF Floors, Absent
    <3> QED BY <2>1, <2>2, <3>1, PlusIs
  <2> HIDE DEF g, h
  <2>6. Leads(h, <<>> \o <<ix, FundAta(k)>>, g)
    <3>1. Leads(h, <<>>, h)
      BY <2>5, BelowSame, LeadsNone
    <3> QED BY <2>3, <3>1, LeadsOn
  <2>7. Leads(f, Setup(r) \o (<<>> \o <<ix, FundAta(k)>>), g)
    BY <2>1, <2>6, LeadsOn
  <2> QED BY <2>4, <2>7, LeadsOn DEF f, B
<1>11. in \in Assets(r) /\ out \in Assets(r)
  BY <1>2, <1>5 DEF in, out
<1>12. Fulfils(Setup(r) \o (<<>> \o <<ix, FundAta(k)>>) \o s, z, in, out, amount, p, q, min)
  BY <1>1, <1>2, <1>3, <1>5, <1>10, <1>11, ReadyEnds
<1> QED BY <1>12 DEF leg, in, out, k, s, z, ix, min

\* A route whose first or last leg is such a curve.
LEMMA CurveLands ==
    ASSUME NEW r, NEW amount, Runs(r, amount), NEW m \in {1, Len(r.legs)}, NativeQuote(r.legs[m].hint.pool),
           NEW p \in BOOLEAN, NEW q \in BOOLEAN, NEW c \in settlePumpFunNativeQuote(r, p, q)
    PROVE  /\ c.required \in Nat
           /\ Fulfils(c.instructions, c.required, At(r, 0), At(r, Len(r.legs)), amount, p, q, r.min)
<1> DEFINE n == Len(r.legs)
           k == CHOOSE k \in Anchors(r) : TRUE
           refused == p \/ q \/ Cardinality(Anchors(r)) # 1 \/ Anchors(r) \cap {1, n} = {}
           around(d) == IF k = n THEN Setup(r) \o SubSeq(Swaps(r), 1, n - 1) \o d.instructions
                                 ELSE Setup(r) \o d.instructions \o SubSeq(Swaps(r), 2, n)
           legs == {d \in SettleLeg(r.legs[k], <<>>, FALSE, FALSE) :
                      (IF k = n THEN r.legs[k].hint.in ELSE r.legs[k].hint.out) = Wsol}
<1>1. c \in IF n = 1 THEN SettleLeg(r.legs[1], Setup(r), p, q)
            ELSE IF refused THEN {} ELSE {[d EXCEPT !.instructions = around(d)] : d \in legs}
  BY DEF settlePumpFunNativeQuote, Thrown
<1>2. /\ n \in 1..5 /\ DOMAIN r.legs = 1..n /\ \A i \in 1..n : LegRuns(r, amount, i)
  BY DEF Runs, Shape, Sequence
<1>3. CASE n = 1
  <2>1. c \in SettleLeg(r.legs[1], Setup(r), p, q) /\ m = 1 /\ Len(r.legs) = 1
    BY <1>1, <1>3
  <2>2. NativeQuote(r.legs[1].hint.pool)
    BY <2>1
  <2>3. c.required \in Nat /\ Fulfils(c.instructions, c.required, At(r, 0), At(r, 1), amount, p, q, r.min)
    BY <2>1, <2>2, LegLands
  <2> QED BY <2>1, <2>3
<1>4. CASE n # 1
  <2>1. ~p /\ ~q /\ Cardinality(Anchors(r)) = 1 /\ \E d \in legs : c = [d EXCEPT !.instructions = around(d)]
    <3> HIDE DEF n, around, legs
    <3> QED BY <1>1, <1>4 DEF refused
  <2>2. PICK d \in legs : c = [d EXCEPT !.instructions = around(d)]
    BY <2>1
  <2>3. m \in 1..n /\ n \in Nat
    <3> HIDE DEF n
    <3>1. m = 1 \/ m = n
      BY DEF n
    <3> QED BY <1>2, <3>1
  <2>4. m \in Anchors(r)
    BY <1>2, <2>3 DEF NativeQuote, Anchors
  <2>5. Anchors(r) = {m}
    <3>1. IsFiniteSet(Anchors(r))
      <4>1. IsFiniteSet(1..n)
        BY <2>3, FS_Interval
      <4>2. Anchors(r) \in SUBSET (1..n)
        BY <1>2 DEF Anchors
      <4> QED BY <4>1, <4>2, FS_Subset
    <3>2. \E x : Anchors(r) = {x}
      BY <2>1, <3>1, FS_Singleton
    <3> QED BY <2>4, <3>2
  <2>6. k = m
    BY <2>5
  <2>7. \A i \in 1..n : i # m => ~NativeQuote(r.legs[i].hint.pool)
    <3> SUFFICES ASSUME NEW i \in 1..n, i # m PROVE ~NativeQuote(r.legs[i].hint.pool)
      OBVIOUS
    <3>1. i \notin Anchors(r)
      BY <2>5
    <3> QED BY <1>2, <3>1 DEF NativeQuote, Anchors
  <2> DEFINE leg == r.legs[m]  none == <<>>  no == FALSE
  <2>8. /\ d \in SettleLeg(leg, none, no, no) /\ no \in BOOLEAN /\ ~no
        /\ (IF m = n THEN leg.hint.in ELSE leg.hint.out) = Wsol
    BY <2>6
  <2>9. At(r, m - 1) = leg.hint.in /\ At(r, m) = leg.hint.out /\ leg.hint.in # leg.hint.out
    <3>1. LegRuns(r, amount, m)
      BY <1>2, <2>3
    <3> QED BY <3>1, HintIs DEF LegRuns
  <2> HIDE DEF leg, none, no, legs
  <2>10. Settles(d, leg, none, no, no)
    BY <2>8, LegIs
  <2> DEFINE open == <<CreateTemp(Rent), MoveToTemp(leg.used), CloseTemp>>
  <2>11. c.required = d.required /\ c.instructions = around(d)
    <3> HIDE DEF around
    <3>1. d = [instructions |-> d.instructions, required |-> d.required]
      BY <2>10 DEF Settles
    <3> QED BY <2>2, <3>1
  <2>12. CASE m = n
    <3>1. At(r, n - 1) = Wsol /\ leg.hint.in = Wsol /\ leg = r.legs[n] /\ NativeQuote(r.legs[n].hint.pool)
      BY <2>8, <2>9, <2>12 DEF leg
    <3>2. d.required = Rent /\ d.instructions = open \o Keep(none) \o <<Swap(leg)>>
      BY <2>8, <2>10, <3>1 DEF Settles
    <3>3. c.instructions = Setup(r) \o SubSeq(Swaps(r), 1, n - 1) \o (open \o Keep(none) \o <<Swap(leg)>>)
      <4> HIDE DEF n, open
      <4> QED BY <2>6, <2>11, <2>12, <3>2
    <3>4. \A i \in 1..(n - 1) : ~NativeQuote(r.legs[i].hint.pool)
      <4>1. \A i \in 1..(n - 1) : i \in 1..n /\ i # m
        <5> HIDE DEF n
        <5> QED BY <2>3, <2>12
      <4> QED BY <2>7, <4>1
    <3>5. Fulfils(c.instructions, Rent, At(r, 0), At(r, n), amount, p, q, r.min)
      <4>1. Fulfils(Setup(r) \o SubSeq(Swaps(r), 1, n - 1)
                          \o (<<CreateTemp(Rent), MoveToTemp(r.legs[n].used), CloseTemp>> \o Keep(<<>>) \o <<Swap(r.legs[n])>>),
                    Rent, At(r, 0), At(r, n), amount, p, q, r.min)
        BY <1>4, <2>1, <3>1, <3>4, LastBuys
      <4> HIDE DEF n
      <4> QED BY <3>1, <3>3, <4>1 DEF none
    <3>6. Rent \in Nat
      BY TradeAssumption
    <3> QED BY <2>11, <3>2, <3>5, <3>6
  <2>13. CASE m # n
    <3>1. m = 1 /\ At(r, 1) = Wsol /\ leg.hint.in # Wsol /\ leg = r.legs[1] /\ NativeQuote(r.legs[1].hint.pool)
      <4>1. m = 1
        BY <2>13
      <4> QED BY <2>8, <2>9, <2>13, <4>1 DEF leg
    <3>2. d.required = 0 /\ d.instructions = none \o <<Swap(leg), FundAta(leg.min)>>
      BY <2>8, <2>10, <3>1 DEF Settles
    <3>3. c.instructions = Setup(r) \o (none \o <<Swap(leg), FundAta(leg.min)>>) \o SubSeq(Swaps(r), 2, n)
      <4> HIDE DEF n
      <4> QED BY <2>6, <2>11, <2>13, <3>2
    <3>4. \A i \in 2..n : ~NativeQuote(r.legs[i].hint.pool)
      <4>1. \A i \in 2..n : i \in 1..n /\ i # m
        <5> HIDE DEF n
        <5> QED BY <2>3, <3>1
      <4> QED BY <2>7, <4>1
    <3>5. Fulfils(c.instructions, 0, At(r, 0), At(r, n), amount, p, q, r.min)
      <4>1. Fulfils(Setup(r) \o (<<>> \o <<Swap(r.legs[1]), FundAta(r.legs[1].min)>>) \o SubSeq(Swaps(r), 2, n),
                    0, At(r, 0), At(r, n), amount, p, q, r.min)
        BY <1>4, <2>1, <3>1, <3>4, FirstSells
      <4> HIDE DEF n
      <4> QED BY <3>1, <3>3, <4>1 DEF none
    <3> QED BY <2>11, <3>2, <3>5
  <2> QED BY <2>12, <2>13
<1> QED BY <1>3, <1>4

-----------------------------------------------------------------------------
(* The tip, and what else comes before a settlement.                       *)

\* Instructions that cost no more than these lamports.
Costs(pre, n) ==
    \A f, g \in Floors :
        /\ f["lamports"] >= n
        /\ \A c \in Acc : g[c] <= IF c = "lamports" THEN f["lamports"] - n ELSE f[c]
        /\ g["temp"] = Absent => f["temp"] = Absent
        => Leads(f, pre, g)

\* What is told of a transaction: as Fulfils, and the tip is required as well.
Pledges(ixs, req, tip, in, out, amount, a, b, min) ==
    \A own \in Owns : \E g :
       LET f == Start(req, in, amount, a, own)
       IN /\ Leads(f, ixs, g) /\ g["lamports"] >= 0
          /\ IF b THEN g["lamports"] >= (req - tip) + min ELSE g[out] >= Worth(f, out) + min

\* Less than nothing paid is less.
LEMMA CostsNothing ==
    ASSUME NEW f \in Floors, NEW g \in Floors,
           \A c \in Acc : g[c] <= IF c = "lamports" THEN f["lamports"] - 0 ELSE f[c],
           g["temp"] = Absent => f["temp"] = Absent
    PROVE  Below(g, f)
<1>1. "lamports" \in Acc
  BY AccountsApart
<1>2. \A c \in Acc : g[c] <= f[c]
  BY <1>1 DEF Floors
<1> QED BY <1>2 DEF Below

\* Nothing costs nothing, and so do the nonce and the compute budget; a transfer costs its
\* amount.
LEMMA CostsAre ==
    /\ Costs(<<>>, 0) /\ Costs(<<NonceAdvance>>, 0) /\ Costs(<<ComputeBudget>>, 0)
    /\ \A n \in Nat : Costs(IF n > 0 THEN <<Transfer(n)>> ELSE <<>>, n)
<1>1. Costs(<<>>, 0)
  BY CostsNothing, LeadsNone DEF Costs
<1>2. ASSUME NEW ix, ix.op \in {"nonceAdvance", "computeBudget"} PROVE Costs(<<ix>>, 0)
  <2> SUFFICES ASSUME NEW f \in Floors, NEW g \in Floors,
                      \A c \in Acc : g[c] <= IF c = "lamports" THEN f["lamports"] - 0 ELSE f[c],
                      g["temp"] = Absent => f["temp"] = Absent
               PROVE  Leads(f, <<ix>>, g)
    BY DEF Costs
  <2>1. Turns(f, ix, f)
    BY <1>2, IdleTurns
  <2> QED BY <2>1, CostsNothing, LeadsOne
<1>3. NonceAdvance.op \in {"nonceAdvance", "computeBudget"} /\ ComputeBudget.op \in {"nonceAdvance", "computeBudget"}
  BY DEF NonceAdvance, ComputeBudget
<1>4. ASSUME NEW n \in Nat PROVE Costs(IF n > 0 THEN <<Transfer(n)>> ELSE <<>>, n)
  <2>1. CASE n > 0
    <3>1. Costs(<<Transfer(n)>>, n)
      BY TipLeads DEF Costs
    <3> QED BY <2>1, <3>1
  <2>2. CASE n = 0
    BY <1>1, <2>2
  <2> QED BY <2>1, <2>2
<1> QED BY <1>1, <1>2, <1>3, <1>4

\* One after the other they cost both.
LEMMA CostsJoin ==
    ASSUME NEW s, NEW t, NEW m \in Nat, NEW n \in Nat, Costs(s, m), Costs(t, n)
    PROVE  Costs(s \o t, m + n)
<1> SUFFICES ASSUME NEW f \in Floors, NEW g \in Floors, f["lamports"] >= m + n,
                    \A c \in Acc : g[c] <= IF c = "lamports" THEN f["lamports"] - (m + n) ELSE f[c],
                    g["temp"] = Absent => f["temp"] = Absent
             PROVE  Leads(f, s \o t, g)
  BY DEF Costs
<1> DEFINE h == [c \in Acc |-> IF c = "lamports" THEN f["lamports"] - m ELSE f[c]]
<1>1. "lamports" \in Acc /\ "temp" \in Acc /\ "lamports" # "temp"
  BY AccountsApart
<1>2. f["lamports"] \in Int /\ f["lamports"] >= m
  BY <1>1 DEF Floors
<1>3. h \in Floors /\ \A c \in Acc : h[c] = IF c = "lamports" THEN f["lamports"] - m ELSE f[c]
  <2>1. \A c \in Acc : (IF c = "lamports" THEN f["lamports"] - m ELSE f[c]) \in {j \in Int : j >= Absent}
    BY <1>2 DEF Floors, Absent
  <2> QED BY <2>1 DEF Floors
<1> HIDE DEF h
<1>4. Leads(f, s, h)
  <2>1. \A c \in Acc : h[c] <= IF c = "lamports" THEN f["lamports"] - m ELSE f[c]
    BY <1>2, <1>3 DEF Floors
  <2>2. h["temp"] = Absent => f["temp"] = Absent
    BY <1>1, <1>3
  <2> QED BY <1>2, <1>3, <2>1, <2>2 DEF Costs
<1>5. Leads(h, t, g)
  <2>1. h["lamports"] >= n
    BY <1>1, <1>2, <1>3
  <2>2. \A c \in Acc : g[c] <= IF c = "lamports" THEN h["lamports"] - n ELSE h[c]
    BY <1>1, <1>2, <1>3 DEF Floors
  <2>3. g["temp"] = Absent => h["temp"] = Absent
    BY <1>1, <1>3
  <2> QED BY <1>3, <2>1, <2>2, <2>3 DEF Costs
<1> QED BY <1>4, <1>5, LeadsOn

\* What is fulfilled is pledged behind its tip.
LEMMA PaidPledges ==
    ASSUME NEW pre, NEW tip \in Nat, Costs(pre, tip), NEW ixs, NEW need \in Nat, NEW in, NEW out \in Mints,
           NEW amount \in Nat, NEW a, NEW b, NEW min \in Nat, Fulfils(ixs, need, in, out, amount, a, b, min)
    PROVE  Pledges(pre \o ixs, need + tip, tip, in, out, amount, a, b, min)
<1> DEFINE req == need + tip
<1>0. req \in Nat /\ req - tip = need /\ req >= tip
  OBVIOUS
<1> HIDE DEF req
<1>1. ASSUME NEW own \in Owns
      PROVE  \E g : LET f == Start(req, in, amount, a, own)
                    IN  /\ Leads(f, pre \o ixs, g) /\ g["lamports"] >= 0
                        /\ IF b THEN g["lamports"] >= (req - tip) + min ELSE g[out] >= Worth(f, out) + min
  <2> DEFINE e == Start(need, in, amount, a, own)  f == Start(req, in, amount, a, own)
  <2>1. PICK g : /\ Leads(e, ixs, g) /\ g["lamports"] >= 0
                 /\ IF b THEN g["lamports"] >= need + min ELSE g[out] >= Worth(e, out) + min
    BY DEF Fulfils
  <2> DEFINE v(c) == IF c = "temp" THEN Absent
                     ELSE IF c = in /\ ~a THEN amount ELSE IF c = Wsol THEN own ELSE Absent
  <2>2. e \in Floors /\ \A c \in Acc : e[c] = IF c = "lamports" THEN need ELSE v(c)
    BY StartIs
  <2>3. f \in Floors /\ \A c \in Acc : f[c] = IF c = "lamports" THEN req ELSE v(c)
    BY <1>0, StartIs
  <2> HIDE DEF e, f, v
  <2>4. "lamports" \in Acc /\ "temp" \in Acc /\ "lamports" # "temp" /\ out \in Acc /\ out # "lamports"
    BY AccountsApart
  <2>5. Leads(f, pre, e)
    <3>1. \A c \in Acc : e[c] <= IF c = "lamports" THEN f["lamports"] - tip ELSE f[c]
      BY <1>0, <2>2, <2>3, <2>4 DEF Floors
    <3>2. f["lamports"] >= tip /\ (e["temp"] = Absent => f["temp"] = Absent)
      BY <1>0, <2>2, <2>3, <2>4
    <3> QED BY <2>2, <2>3, <3>1, <3>2 DEF Costs
  <2>6. Leads(f, pre \o ixs, g)
    BY <2>1, <2>5, LeadsOn
  <2>7. Worth(f, out) = Worth(e, out)
    BY <2>2, <2>3, <2>4 DEF Worth
  <2>8. (b => g["lamports"] >= (req - tip) + min) /\ (~b => g[out] >= Worth(f, out) + min)
    BY <1>0, <2>1, <2>7
  <2> QED BY <2>1, <2>6, <2>8 DEF f
<1>2. Pledges(pre \o ixs, req, tip, in, out, amount, a, b, min)
  BY <1>1 DEF Pledges
<1> QED BY <1>2 DEF req

\* A pledge is kept behind instructions that cost nothing.
LEMMA IdlePledges ==
    ASSUME NEW pre, Costs(pre, 0), NEW ixs, NEW req \in Nat, NEW tip, NEW in, NEW out,
           NEW amount \in Nat, NEW a, NEW b, NEW min, Pledges(ixs, req, tip, in, out, amount, a, b, min)
    PROVE  Pledges(pre \o ixs, req, tip, in, out, amount, a, b, min)
<1>1. ASSUME NEW own \in Owns
      PROVE  \E g : LET f == Start(req, in, amount, a, own)
                    IN  /\ Leads(f, pre \o ixs, g) /\ g["lamports"] >= 0
                        /\ IF b THEN g["lamports"] >= (req - tip) + min ELSE g[out] >= Worth(f, out) + min
  <2> DEFINE f == Start(req, in, amount, a, own)
  <2>1. PICK g : /\ Leads(f, ixs, g) /\ g["lamports"] >= 0
                 /\ IF b THEN g["lamports"] >= (req - tip) + min ELSE g[out] >= Worth(f, out) + min
    BY DEF Pledges
  <2>2. f \in Floors /\ f["lamports"] = req
    BY AccountsApart, StartIs
  <2> HIDE DEF f
  <2>3. Leads(f, pre, f)
    <3>1. \A c \in Acc : f[c] <= IF c = "lamports" THEN f["lamports"] - 0 ELSE f[c]
      BY <2>2 DEF Floors
    <3>2. f["lamports"] >= 0
      BY <2>2
    <3> QED BY <2>2, <3>1, <3>2 DEF Costs
  <2>4. Leads(f, pre \o ixs, g)
    BY <2>1, <2>3, LeadsOn
  <2> QED BY <2>1, <2>4 DEF f
<1> QED BY <1>1 DEF Pledges

-----------------------------------------------------------------------------
(* Routes, settled and signed.                                             *)

\* A sequential route, whichever way it is settled.
LEMMA SequentialLands ==
    ASSUME NEW t, t.nativeInput \in BOOLEAN, t.nativeOutput \in BOOLEAN, NEW hints \in Seq(HintsOver(Pools)),
           NEW native, native <=> t.dex = "PumpFun" /\ NativeQuote(Anchor(t, hints).pool),
           NEW limits, NEW r \in prepareCachedRoute(hints, t.amount, t.slip, native, limits),
           NEW c \in SettleRoute(t, hints, r)
    PROVE  /\ c.required \in Nat
           /\ Fulfils(c.instructions, c.required, At(r, 0), At(r, Len(r.legs)), t.amount,
                      t.nativeInput, t.nativeOutput, r.min)
<1> DEFINE amount == t.amount  n == Len(r.legs)  p == t.nativeInput  q == t.nativeOutput
<1>1. Runs(r, amount) /\ (native \/ Curveless(r))
  <2> DEFINE slip == t.slip
  <2>1. r \in prepareCachedRoute(hints, amount, slip, native, limits)
    OBVIOUS
  <2> HIDE DEF amount, slip
  <2> QED BY <2>1, RouteRuns
<1>2. Follows(r, hints)
  <2> DEFINE slip == t.slip
  <2>1. r \in prepareCachedRoute(hints, amount, slip, native, limits)
    OBVIOUS
  <2> HIDE DEF amount, slip
  <2> QED BY <2>1, RouteOfHints
<1>3. r.official = FALSE /\ Len(hints) = n /\ \A i \in 1..n : r.legs[i].hint = hints[i]
  BY <1>2 DEF Follows
<1>4. n \in 1..5
  BY <1>1 DEF Runs
<1>5. CASE native
  <2> DEFINE m == IF t.type = "Buy" THEN n ELSE 1
  <2>1. c \in settlePumpFunNativeQuote(r, p, q)
    BY <1>3, <1>5 DEF SettleRoute
  <2>2. Anchor(t, hints) = hints[m]
    BY <1>3 DEF Anchor, Last
  <2>3. m \in {1, Len(r.legs)} /\ m \in 1..n
    <3>1. m \in {1, n}
      OBVIOUS
    <3> HIDE DEF m, n
    <3>2. m \in 1..n
      BY <1>4, <3>1
    <3> QED BY <3>1, <3>2 DEF n
  <2> HIDE DEF m
  <2>4. NativeQuote(r.legs[m].hint.pool)
    BY <1>3, <1>5, <2>2, <2>3
  <2>5. p \in BOOLEAN /\ q \in BOOLEAN
    OBVIOUS
  <2> HIDE DEF amount, p, q, n
  <2>6. /\ c.required \in Nat
        /\ Fulfils(c.instructions, c.required, At(r, 0), At(r, Len(r.legs)), amount, p, q, r.min)
    BY <1>1, <2>1, <2>3, <2>4, <2>5, CurveLands
  <2> QED BY <2>6 DEF amount, p, q
<1>6. CASE ~native /\ (p \/ q)
  <2>1. c \in settleCachedRouteWithNativeSol(r, p, q)
    BY <1>6 DEF SettleRoute
  <2>2. p \in BOOLEAN /\ q \in BOOLEAN /\ Curveless(r)
    BY <1>1, <1>6
  <2> HIDE DEF amount, p, q, n
  <2>3. /\ c.required \in Nat
        /\ Fulfils(c.instructions, c.required, At(r, 0), At(r, Len(r.legs)), amount, p, q, r.min)
    BY <1>1, <2>1, <2>2, NativeLands
  <2> QED BY <2>3 DEF amount, p, q
<1>7. CASE ~native /\ ~(p \/ q)
  <2>1. c = Plain(r)
    BY <1>7 DEF SettleRoute
  <2>2. c.required = 0
    BY <2>1 DEF Plain
  <2>3. ~p /\ ~q /\ Curveless(r)
    BY <1>1, <1>7
  <2> HIDE DEF amount, p, q, n
  <2>4. Fulfils(Plain(r).instructions, 0, At(r, 0), At(r, Len(r.legs)), amount, p, q, r.min)
    BY <1>1, <2>3, PlainLands
  <2> QED BY <2>1, <2>2, <2>4 DEF amount, p, q
<1> QED BY <1>5, <1>6, <1>7

\* An official route.
LEMMA OfficialSettles ==
    ASSUME NEW t, t.amount \in Nat, t.route.minimum \in Nat, NEW hints \in Seq(HintsOver(Pools)),
           NEW r \in prepareOfficialPumpRoute(hints, t.amount, t.route, t.nativeInput \/ t.nativeOutput),
           NEW c \in SettleRoute(t, hints, r)
    PROVE  /\ c.required \in Nat /\ r.min \in Nat /\ r.setup[1] \in Mints /\ Last(r.setup) \in Mints
           /\ Fulfils(c.instructions, c.required, r.setup[1], Last(r.setup), t.amount,
                      t.nativeInput, t.nativeOutput, r.min)
<1> DEFINE n == Len(hints)  in == hints[1].in  out == Last(hints).out  amount == t.amount
           native == t.nativeInput \/ t.nativeOutput  p == t.nativeInput  q == t.nativeOutput
<1>1. /\ OfficialRouteFits(hints, t.route, native)
      /\ r = [legs |-> <<>>, setup |-> <<in, out>>, min |-> t.route.minimum,
              official |-> TRUE, residuals |-> <<>>, spends |-> amount]
  BY DEF prepareOfficialPumpRoute
<1>2. ~native /\ n \in 2..3 /\ RouteIsValid(hints)
  <2> HIDE DEF native
  <2> QED BY <1>1 DEF OfficialRouteFits
<1>3. ~p /\ ~q
  BY <1>2
<1>4. in \in Mints /\ out \in Mints /\ in # out
  <2>1. hints[1] \in HintsOver(Pools) /\ hints[n] \in HintsOver(Pools) /\ n \in 1..n
    BY <1>2
  <2>2. out = hints[n].out
    BY DEF Last
  <2>3. hints[n].out # in
    BY <1>2, <2>1 DEF RouteIsValid
  <2> QED BY <2>1, <2>2, <2>3, HintIs
<1> HIDE DEF in, out
<1>5. /\ r.setup = <<in, out>> /\ r.min = t.route.minimum /\ r.official /\ r.spends = amount /\ Shape(r)
      /\ r.setup[1] = in /\ Last(r.setup) = out
  <2>1. r.setup = <<in, out>> /\ r.legs = <<>> /\ r.min = t.route.minimum /\ r.official /\ r.spends = amount
    BY <1>1
  <2> QED BY <2>1 DEF Shape, Sequence, Last
<1>6. c = Plain(r)
  BY <1>3, <1>5 DEF SettleRoute
<1>7. c.required = 0 /\ r.min \in Nat /\ amount \in Nat
  BY <1>5, <1>6 DEF Plain
<1> HIDE DEF amount, p, q
<1>8. Fulfils(Plain(r).instructions, 0, in, out, amount, p, q, r.min)
  BY <1>3, <1>4, <1>5, <1>7, OfficialLands
<1> QED BY <1>4, <1>5, <1>6, <1>7, <1>8 DEF amount, p, q

-----------------------------------------------------------------------------
(* What is signed, and what lands.                                         *)

\* Requests over known pools (TradeAssumption).
IsTrade(t) ==
    /\ t.hints \in Seq(HintsOver(Pools)) /\ t.candidates \subseteq Pools
    /\ t.amount \in Nat /\ t.tip \in Nat /\ t.route.minimum \in Nat
    /\ t.nativeInput \in BOOLEAN /\ t.nativeOutput \in BOOLEAN
IsBuild(o) == o.tip \in Nat /\ o.nativeInput \in BOOLEAN /\ o.nativeOutput \in BOOLEAN

\* Every request and every build is one.
LEMMA RequestsAre == (\A t \in Requests : IsTrade(t)) /\ \A o \in Builds : IsBuild(o)
<1>1. ASSUME NEW t \in Requests PROVE IsTrade(t)
  <2>1. /\ t.hints \in Seq(UNION {HintsOf(p) : p \in Pools}) /\ t.candidates \subseteq Pools
        /\ {t.amount, t.tip, t.route.minimum} \subseteq Nat /\ {t.nativeInput, t.nativeOutput} \subseteq BOOLEAN
    BY TradeAssumption
  <2>2. t.hints \in Seq(HintsOver(Pools))
    BY <2>1 DEF HintsOver
  <2>3. t.amount \in Nat /\ t.tip \in Nat /\ t.route.minimum \in Nat
    BY <2>1
  <2>4. t.nativeInput \in BOOLEAN /\ t.nativeOutput \in BOOLEAN
    BY <2>1
  <2> QED BY <2>1, <2>2, <2>3, <2>4 DEF IsTrade
<1>2. ASSUME NEW o \in Builds PROVE IsBuild(o)
  <2>1. o.tip \in Nat /\ {o.nativeInput, o.nativeOutput} \subseteq BOOLEAN
    BY TradeAssumption
  <2> QED BY <2>1 DEF IsBuild
<1> QED BY <1>1, <1>2

\* What is told of a signed transaction is true of it.
Promised(w) ==
    /\ w.required \in Nat /\ w.tip \in Nat /\ w.amount \in Nat /\ w.min \in Nat /\ w.out \in Mints
    /\ w.nativeInput \in BOOLEAN /\ w.nativeOutput \in BOOLEAN
    /\ Pledges(w.instructions, w.required, w.tip, w.in, w.out, w.amount, w.nativeInput, w.nativeOutput, w.min)

\* The hints of a path that was given or found are of known pools.
LEMMA HintsKnown ==
    ASSUME NEW t, IsTrade(t), NEW hints, hints = t.hints \/ hints \in Walks(t.candidates, t.from, t.to, {}, 5)
    PROVE  hints \in Seq(HintsOver(Pools))
<1> DEFINE avoid == {}  hops == 5
<1>1. hops \in Nat
  OBVIOUS
<1>2. hints = t.hints \/ hints \in Walks(t.candidates, t.from, t.to, avoid, hops)
  OBVIOUS
<1> HIDE DEF avoid, hops
<1>3. hints = t.hints \/ hints \in Seq(HintsOver(t.candidates))
  BY <1>1, <1>2, WalksReach
<1>4. HintsOver(t.candidates) \subseteq HintsOver(Pools)
  BY DEF HintsOver, IsTrade
<1> DEFINE H == HintsOver(t.candidates)  K == HintsOver(Pools)
<1> HIDE DEF H, K
<1>5. H \subseteq K => Seq(H) \subseteq Seq(K)
  OBVIOUS
<1> QED BY <1>3, <1>4, <1>5 DEF H, K, IsTrade

\* A prepared trade keeps its promise.
LEMMA PreparedIsPromised ==
    ASSUME NEW t, IsTrade(t), NEW w \in prepareCachedTrade(t)
    PROVE  Promised(w)
<1>1. PICK hints, r, s : PreparedAs(t, w, hints, r, s)
  BY PreparedIs
<1> DEFINE amount == t.amount  a == t.nativeInput  b == t.nativeOutput  tip == t.tip  min == r.min
           in == r.setup[1]  out == Last(r.setup)
           native == t.dex = "PumpFun" /\ NativeQuote(Anchor(t, hints).pool)
           limits == NoLimits  either == t.nativeInput \/ t.nativeOutput
<1>2. hints \in Seq(HintsOver(Pools)) /\ s \in SettleRoute(t, hints, r)
  BY <1>1, HintsKnown DEF PreparedAs
<1>3. amount \in Nat /\ tip \in Nat /\ a \in BOOLEAN /\ b \in BOOLEAN /\ t.route.minimum \in Nat
  BY DEF IsTrade
<1>4. /\ s.required \in Nat /\ min \in Nat /\ out \in Mints
      /\ Fulfils(s.instructions, s.required, in, out, amount, a, b, min)
  <2>1. CASE r \in prepareOfficialPumpRoute(hints, t.amount, t.route, either)
    BY <1>2, <1>3, <2>1, OfficialSettles
  <2>2. CASE r \in prepareCachedRoute(hints, t.amount, t.slip, native, limits)
    <3> DEFINE slip == t.slip
    <3>1. native <=> t.dex = "PumpFun" /\ NativeQuote(Anchor(t, hints).pool)
      OBVIOUS
    <3> HIDE DEF native, limits
    <3>2. /\ s.required \in Nat
          /\ Fulfils(s.instructions, s.required, At(r, 0), At(r, Len(r.legs)), t.amount,
                     t.nativeInput, t.nativeOutput, r.min)
      <4>1. /\ t.nativeInput \in BOOLEAN /\ t.nativeOutput \in BOOLEAN /\ hints \in Seq(HintsOver(Pools))
            /\ (native <=> t.dex = "PumpFun" /\ NativeQuote(Anchor(t, hints).pool))
            /\ r \in prepareCachedRoute(hints, t.amount, t.slip, native, limits)
            /\ s \in SettleRoute(t, hints, r)
        BY <1>2, <1>3, <2>2, <3>1
      <4> QED BY ONLY <4>1, SequentialLands
    <3>3. r \in prepareCachedRoute(hints, amount, slip, native, limits)
      BY <2>2
    <3> HIDE DEF amount, slip, in, out, min
    <3>4. Runs(r, amount)
      BY <1>2, <3>3, RouteRuns
    <3>5. r.setup[1] = At(r, 0) /\ Last(r.setup) = At(r, Len(r.legs))
      BY <3>4, AssetsAre
    <3>6. At(r, Len(r.legs)) \in Mints /\ r.min \in Nat
      <4> DEFINE n == Len(r.legs)
      <4>1. n \in 1..5 /\ (\A i \in 0..n : At(r, i) \in Mints /\ Sure(r, amount, i) \in Nat) /\ r.min = Sure(r, amount, n)
        BY <3>4 DEF Runs
      <4> HIDE DEF n
      <4>2. n \in 0..n
        BY <4>1
      <4>3. At(r, n) \in Mints /\ r.min \in Nat
        BY <4>1, <4>2
      <4> QED BY <4>3 DEF n
    <3> QED BY <3>2, <3>5, <3>6 DEF amount, in, out, min
  <2> QED BY <1>1, <2>1, <2>2 DEF PreparedAs
<1>5. Costs(Tip(tip), tip)
  <2> HIDE DEF tip
  <2> QED BY <1>3, CostsAre DEF Tip
<1> DEFINE need == s.required  ixs == s.instructions  pre == Tip(tip)  full == pre \o ixs  req == need + tip
<1>6. /\ w.instructions = full /\ w.required = req /\ w.tip = tip /\ w.amount = amount /\ w.min = min
      /\ w.nativeInput = a /\ w.nativeOutput = b /\ w.in = in /\ w.out = out
  BY <1>1 DEF PreparedAs
<1>7. need \in Nat /\ Costs(pre, tip) /\ Fulfils(ixs, need, in, out, amount, a, b, min)
  BY <1>4, <1>5
<1> HIDE DEF amount, a, b, tip, min, in, out, need, ixs, pre
<1>8. Pledges(full, req, tip, in, out, amount, a, b, min)
  BY <1>3, <1>4, <1>7, PaidPledges
<1>9. req \in Nat
  BY <1>3, <1>7
<1> HIDE DEF full, req
<1> QED BY <1>3, <1>4, <1>6, <1>8, <1>9 DEF Promised

\* What a search finds is a route over known pools, none of them a curve.
LEMMA SearchRuns ==
    ASSUME NEW s, IsSearch(s), NEW r \in searchPumpSwapTrade(s)
    PROVE  Runs(r, s.amount) /\ Curveless(r)
<1> DEFINE a == AnchorHint(s)  K == HintsOver(Pools)  H == HintsOver(s.pools)
<1>1. SearchIsValid(s) /\ \E c \in Conversions(s) : r \in preparePumpSwapTrade(s, Around(s, c))
  BY DEF searchPumpSwapTrade, Around, Thrown
<1>2. PICK c \in Conversions(s) : r \in preparePumpSwapTrade(s, Around(s, c))
  BY <1>1
<1>3. c \in Seq(H)
  <2>1. c \in Visits(s) /\ s.hops \in Nat
    BY <1>2 DEF Conversions, IsSearch
  <2>2. Visits(s) \subseteq Seq(HintsOver(s.pools))
    BY <2>1, WalksReach DEF Visits
  <2> QED BY <2>1, <2>2
<1>4. a \in K
  <2> DEFINE p == PoolOf[s.pool]
  <2>1. s.pool \in Pools /\ (s.token = p.base \/ s.token = p.quote)
    BY <1>1 DEF IsSearch, SearchIsValid
  <2>2. a \in {Hint(s.pool, p.base, p.quote), Hint(s.pool, p.quote, p.base)}
    BY <2>1 DEF AnchorHint
  <2>3. a \in HintsOf(s.pool)
    BY <2>2 DEF HintsOf
  <2> QED BY <2>1, <2>3 DEF HintsOver
<1>5. H \subseteq K
  BY DEF HintsOver, IsSearch
<1> HIDE DEF a, K, H
<1> DEFINE path == Around(s, c)
<1>6. path \in Seq(K)
  <2>1. c \in Seq(K)
    BY <1>3, <1>5
  <2>2. Append(c, a) \in Seq(K) /\ <<a>> \o c \in Seq(K)
    BY <1>4, <2>1
  <2> QED BY <2>2 DEF Around, a
<1> DEFINE amount == s.amount  slip == s.slip  no == FALSE
           limits == [anchor |-> s.pool, slip |-> s.bridgeSlip, impact |-> s.impact]
<1>7. r \in prepareCachedRoute(path, amount, slip, no, limits)
  BY <1>2 DEF preparePumpSwapTrade
<1>8. ~no
  OBVIOUS
<1>9. path \in Seq(HintsOver(Pools))
  BY <1>6 DEF K
<1> HIDE DEF path, amount, slip, no, limits
<1>10. Runs(r, amount) /\ (no \/ Curveless(r))
  BY <1>7, <1>9, RouteRuns
<1> QED BY <1>8, <1>10 DEF amount

\* So does a transaction signed from a held trade.
LEMMA BuiltIsPromised ==
    ASSUME IsSearch(held.search), held.route \in searchPumpSwapTrade(held.search),
           NEW o, IsBuild(o), NEW age, NEW w \in buildSigned(o, age)
    PROVE  Promised(w)
<1> DEFINE r == held.route  amount == held.search.amount  a == o.nativeInput  b == o.nativeOutput
           tip == o.tip  min == r.min  in == r.setup[1]  out == Last(r.setup)
<1>1. Runs(r, amount) /\ Curveless(r)
  BY SearchRuns
<1>2. PICK s : BuiltAs(o, w, s)
  <2>1. Shape(held.route)
    BY <1>1 DEF Runs
  <2> QED BY <2>1, BuiltIs
<1> DEFINE need == s.required  ixs == s.instructions  pre == Lead(o)  inner == pre \o ixs
           full == Middleware(o, inner)  req == need + tip
<1>3. /\ w.instructions = full /\ w.required = req /\ w.tip = tip /\ w.amount = amount /\ w.min = min
      /\ w.nativeInput = a /\ w.nativeOutput = b /\ w.in = in /\ w.out = out
      /\ s \in IF a \/ b THEN settleCachedRouteWithNativeSol(r, a, b) ELSE {Plain(r)}
  BY <1>2 DEF BuiltAs
<1>4. tip \in Nat /\ a \in BOOLEAN /\ b \in BOOLEAN
  BY DEF IsBuild
<1>5. Costs(pre, tip)
  <2> DEFINE z == 0  x == IF o.nonce THEN <<NonceAdvance>> ELSE <<>>  y == Tip(tip)
             v == IF o.version = 0 THEN <<ComputeBudget>> ELSE <<>>
  <2>1. Costs(x, z) /\ Costs(v, z)
    BY CostsAre
  <2>2. Costs(y, tip)
    <3> HIDE DEF tip
    <3> QED BY <1>4, CostsAre DEF Tip
  <2>3. pre = (x \o y) \o v
    BY DEF Lead
  <2>4. z \in Nat /\ z + tip = tip /\ tip + z = tip
    BY <1>4
  <2> HIDE DEF x, y, v, z, tip, pre
  <2>5. Costs(x \o y, z + tip)
    BY <1>4, <2>1, <2>2, <2>4, CostsJoin
  <2>6. Costs((x \o y) \o v, tip + z)
    BY <1>4, <2>1, <2>4, <2>5, CostsJoin
  <2> QED BY <2>3, <2>4, <2>6
<1> HIDE DEF r, amount, a, b, tip, pre
<1>6. At(r, Len(r.legs)) \in Mints /\ r.min \in Nat /\ amount \in Nat /\ r.setup[1] = At(r, 0) /\ Last(r.setup) = At(r, Len(r.legs))
  <2> DEFINE n == Len(r.legs)
  <2>1. /\ n \in 1..5 /\ (\A i \in 0..n : At(r, i) \in Mints /\ Sure(r, amount, i) \in Nat)
        /\ r.min = Sure(r, amount, n)
    BY <1>1 DEF Runs
  <2> HIDE DEF n
  <2>2. n \in 0..n /\ 0 \in 0..n
    BY <2>1
  <2>3. At(r, n) \in Mints /\ r.min \in Nat /\ Sure(r, amount, 0) \in Nat
    BY <2>1, <2>2
  <2>4. amount \in Nat
    BY <2>3 DEF Sure
  <2>5. r.setup[1] = At(r, 0) /\ Last(r.setup) = At(r, Len(r.legs))
    BY <1>1, AssetsAre
  <2> QED BY <2>3, <2>4, <2>5 DEF n
<1>7. need \in Nat /\ Fulfils(ixs, need, in, out, amount, a, b, min)
  <2>1. CASE a \/ b
    <3>1. s \in settleCachedRouteWithNativeSol(r, a, b)
      BY <1>3, <2>1
    <3>2. /\ s.required \in Nat
          /\ Fulfils(s.instructions, s.required, At(r, 0), At(r, Len(r.legs)), amount, a, b, r.min)
      BY <1>1, <1>4, <3>1, NativeLands
    <3> QED BY <1>6, <3>2
  <2>2. CASE ~(a \/ b)
    <3>1. s = Plain(r)
      BY <1>3, <2>2
    <3>2. s.required = 0
      BY <3>1 DEF Plain
    <3>3. ~a /\ ~b
      BY <2>2
    <3>4. Fulfils(Plain(r).instructions, 0, At(r, 0), At(r, Len(r.legs)), amount, a, b, r.min)
      BY <1>1, <3>3, PlainLands
    <3> QED BY <1>6, <3>1, <3>2, <3>4
  <2> QED BY <2>1, <2>2
<1>8. min \in Nat /\ out \in Mints
  BY <1>6
<1> HIDE DEF min, in, out, need, ixs
<1>9. Pledges(inner, req, tip, in, out, amount, a, b, min)
  BY <1>4, <1>5, <1>6, <1>7, <1>8, PaidPledges
<1>10. req \in Nat
  BY <1>4, <1>7
<1> HIDE DEF inner, req
<1>11. Pledges(full, req, tip, in, out, amount, a, b, min)
  <2> DEFINE z == 0  x == <<ComputeBudget>>
  <2>1. Costs(x, z) /\ z = 0
    BY CostsAre
  <2>2. full = x \o inner \/ full = inner
    BY DEF Middleware
  <2> HIDE DEF x, full
  <2>3. Pledges(x \o inner, req, tip, in, out, amount, a, b, min)
    BY <1>6, <1>9, <1>10, <2>1, IdlePledges
  <2> QED BY <1>9, <2>2, <2>3
<1> HIDE DEF full
<1> QED BY <1>3, <1>4, <1>6, <1>8, <1>10, <1>11 DEF Promised

\* A transaction with such a promise keeps it, whatever the wallet's own wrapped SOL
\* account holds.
LEMMA PromiseIsKept ==
    ASSUME Promised(wire), NEW own \in OwnWsol \cup {Absent}, NEW w \in Outcomes(WalletWith(own))
    PROVE  LET before == WalletWith(own)
           IN  /\ w # Failed /\ w.lamports >= 0
               /\ wire.nativeOutput => w.lamports - before.lamports + wire.tip >= wire.min
               /\ ~wire.nativeOutput =>
                     Balance(w, wire.out)
                       - (IF Balance(before, wire.out) = Absent THEN 0 ELSE Balance(before, wire.out)) >= wire.min
<1> DEFINE before == WalletWith(own)  req == wire.required  tip == wire.tip  in == wire.in  out == wire.out
           amount == wire.amount  a == wire.nativeInput  b == wire.nativeOutput  min == wire.min
           ixs == wire.instructions  f == Start(req, in, amount, a, own)
<1>1. own \in Owns
  BY TradeAssumption DEF Owns
<1>2. req \in Nat /\ tip \in Nat /\ amount \in Nat /\ min \in Nat /\ out \in Mints
      /\ a \in BOOLEAN /\ b \in BOOLEAN
  BY DEF Promised
<1>3. Pledges(ixs, req, tip, in, out, amount, a, b, min)
  BY DEF Promised
<1>4. PICK g : /\ Leads(f, ixs, g) /\ g["lamports"] >= 0
               /\ IF b THEN g["lamports"] >= (req - tip) + min ELSE g[out] >= Worth(f, out) + min
  BY <1>1, <1>3 DEF Pledges
<1>5. /\ before.lamports = req /\ before.temp = Absent
      /\ before.ata = [m \in Mints |-> IF m = in /\ ~a THEN amount ELSE IF m = Wsol THEN own ELSE Absent]
      /\ Wallet(before)
  BY DEF WalletWith, Wallet
<1>5a. w \in Outcomes(before)
  OBVIOUS
<1> HIDE DEF before, req, tip, in, out, amount, a, b, min
<1>6. f \in Floors /\ \A c \in Acc : f[c] = IF c = "lamports" THEN req ELSE IF c = "temp" THEN Absent
                                           ELSE IF c = in /\ ~a THEN amount ELSE IF c = Wsol THEN own ELSE Absent
  BY <1>1, <1>2, StartIs
<1> HIDE DEF f
<1>7. \A c \in Acc : Balance(before, c) = f[c]
  <2> SUFFICES ASSUME NEW c \in Acc PROVE Balance(before, c) = f[c]
    OBVIOUS
  <2>1. CASE c = "lamports"
    BY <1>5, <1>6, <2>1 DEF Balance
  <2>2. CASE c = "temp"
    BY <1>5, <1>6, <2>2 DEF Balance
  <2>3. CASE c # "lamports" /\ c # "temp"
    <3>1. c \in Mints
      BY <2>3 DEF Acc
    <3>2. before.ata[c] = IF c = in /\ ~a THEN amount ELSE IF c = Wsol THEN own ELSE Absent
      BY <1>5, <3>1
    <3>3. Balance(before, c) = before.ata[c]
      BY <2>3 DEF Balance
    <3> QED BY <1>6, <2>3, <3>2, <3>3
  <2> QED BY <2>1, <2>2, <2>3
<1>8. Has(before, f)
  <2>1. \A c \in Acc : f[c] \in Int
    BY <1>6 DEF Floors
  <2> QED BY <1>5, <1>7, <2>1 DEF Has
<1>9. Has(w, g)
  <2>1. Leads(f, wire.instructions, g)
    BY <1>4
  <2> HIDE DEF ixs
  <2> QED BY <1>5a, <1>8, <2>1, LeadsEnd
<1>10. g \in Floors /\ f[out] \in Int
  <2>1. out \in Acc
    BY <1>2, AccountsApart
  <2> QED BY <1>4, <1>6, <2>1 DEF Leads, Below, Floors
<1>11. /\ w # Failed /\ w.lamports = Balance(w, "lamports")
       /\ Balance(w, "lamports") \in Int /\ Balance(w, "lamports") >= g["lamports"] /\ g["lamports"] \in Int
       /\ Balance(w, out) \in Int /\ Balance(w, out) >= g[out] /\ g[out] \in Int
       /\ Balance(before, out) = f[out]
  <2>1. out \in Acc /\ "lamports" \in Acc
    BY <1>2, AccountsApart
  <2>2. Wallet(w) /\ \A c \in Acc : Balance(w, c) \in Int /\ Balance(w, c) >= g[c]
    BY <1>9 DEF Has
  <2>3. w # Failed
    BY <2>2, WalletIsFine
  <2>4. w.lamports = Balance(w, "lamports")
    BY DEF Balance
  <2>5. \A c \in Acc : g[c] \in Int
    BY <1>10 DEF Floors
  <2> QED BY <1>7, <2>1, <2>2, <2>3, <2>4, <2>5
<1>12. w.lamports >= 0
  BY <1>4, <1>11
<1>13. ASSUME b PROVE w.lamports - before.lamports + tip >= min
  <2>1. g["lamports"] >= (req - tip) + min
    BY <1>4, <1>13
  <2> QED BY <1>2, <1>5, <1>11, <2>1
<1>14. ASSUME ~b PROVE Balance(w, out) - (IF Balance(before, out) = Absent THEN 0 ELSE Balance(before, out)) >= min
  <2>1. g[out] >= Worth(f, out) + min
    BY <1>4, <1>14
  <2>2. Worth(f, out) = IF Balance(before, out) = Absent THEN 0 ELSE Balance(before, out)
    BY <1>11 DEF Worth
  <2>3. Worth(f, out) \in Int
    BY <1>10 DEF Worth
  <2>4. Balance(w, out) - Worth(f, out) >= min
    BY <1>2, <1>11, <2>1, <2>3
  <2> QED BY <2>2, <2>4
<1> QED BY <1>11, <1>12, <1>13, <1>14 DEF before, tip, out, b, min

\* What is signed promises no more than it keeps, and what landed was signed.
PromiseInv ==
    /\ wire # None => Promised(wire)
    /\ landed # None => wire # None
    /\ LandsAsPromised

\* Nothing is signed or landed at first.
LEMMA PromiseStarts == RouteInit => PromiseInv
BY DEF RouteInit, PromiseInv, LandsAsPromised

\* What is signed is promised, by a request or by a held trade, and what lands keeps it.
LEMMA PromiseSteps == FoundInv /\ PromiseInv /\ [RouteNext]_routeVars => PromiseInv'
<1> SUFFICES ASSUME FoundInv, PromiseInv, [RouteNext]_routeVars PROVE PromiseInv'
  OBVIOUS
<1>0. \A x, y : x = y => (Promised(x) => Promised(y))
  OBVIOUS
<1>1. UNCHANGED wire => (Promised(wire) => Promised(wire)')
  BY <1>0 DEF Promised, Pledges, Leads, Below, Sequence
<1>2. ASSUME NEW t \in Requests, PrepareTrade(t) PROVE PromiseInv'
  <2>1. wire' \in prepareCachedTrade(t) /\ landed = None /\ landed' = None
    BY <1>2 DEF PrepareTrade, Idle
  <2>2. \A w \in prepareCachedTrade(t) : Promised(w)
    BY RequestsAre, PreparedIsPromised
  <2>3. Promised(wire')
    BY <2>1, <2>2
  <2>4. (wire # None => Promised(wire))'
    BY <2>3 DEF Promised
  <2> QED BY <2>1, <2>4 DEF PromiseInv, LandsAsPromised
<1>3. ASSUME NEW o \in Builds, NEW age \in Ages, BuildSigned(o, age) PROVE PromiseInv'
  <2>1. wire' \in buildSigned(o, age) /\ landed = None /\ landed' = None /\ held # None
    BY <1>3 DEF BuildSigned, PromiseInv
  <2>2. held.search \in Searches /\ held.route \in searchPumpSwapTrade(held.search)
    BY <2>1 DEF FoundInv
  <2>3. IsSearch(held.search)
    <3> DEFINE s == held.search
    <3> HIDE DEF s
    <3>1. s \in Searches
      BY <2>2 DEF s
    <3> QED BY <3>1, TradeAssumption DEF IsSearch, s
  <2>4. \A w \in buildSigned(o, age) : Promised(w)
    BY <2>2, <2>3, RequestsAre, BuiltIsPromised
  <2>5. Promised(wire')
    BY <2>1, <2>4
  <2>6. (wire # None => Promised(wire))'
    BY <2>5 DEF Promised
  <2> QED BY <2>1, <2>6 DEF PromiseInv, LandsAsPromised
<1>4. ASSUME NEW own \in OwnWsol \cup {Absent}, Land(own) PROVE PromiseInv'
  <2>1. PICK w \in Outcomes(WalletWith(own)) :
           landed' = [kind |-> "landed", before |-> WalletWith(own), after |-> w]
    BY <1>4 DEF Land
  <2>2. wire' = wire /\ wire # None /\ Promised(wire)
    BY <1>4 DEF Land, PromiseInv
  <2>3. landed'.before = WalletWith(own) /\ landed'.after = w
    BY <2>1
  <2>4. /\ w # Failed /\ w.lamports >= 0
        /\ wire.nativeOutput => w.lamports - WalletWith(own).lamports + wire.tip >= wire.min
        /\ ~wire.nativeOutput =>
              Balance(w, wire.out)
                - (IF Balance(WalletWith(own), wire.out) = Absent THEN 0 ELSE Balance(WalletWith(own), wire.out))
                  >= wire.min
    BY <2>2, PromiseIsKept
  <2>5. LandsAsPromised'
    BY <2>2, <2>3, <2>4 DEF LandsAsPromised, Lamports, Earned, Balance
  <2> QED BY <1>1, <2>2, <2>5 DEF PromiseInv
<1>5. CASE UNCHANGED <<wire, landed>>
  <2>1. LandsAsPromised'
    BY <1>5 DEF PromiseInv, LandsAsPromised, Lamports, Earned, Balance
  <2> QED BY <1>1, <1>5, <2>1 DEF PromiseInv
<1>6. \/ \E t \in Requests : PrepareTrade(t)
      \/ \E o \in Builds, age \in Ages : BuildSigned(o, age)
      \/ \E own \in OwnWsol \cup {Absent} : Land(own)
      \/ UNCHANGED <<wire, landed>>
  BY DEF RouteNext, SearchTrade, Advance, NewEpoch, Invalidate, clock, routeVars
<1> QED BY <1>2, <1>3, <1>4, <1>5, <1>6

\* Whatever its route, its settlement, its tip and what its swaps pay above their minimum,
\* and whatever the wallet's own wrapped SOL account holds: a trade that has the input and
\* the lamports it asked for goes through, spends no lamport more, and brings the minimum
\* it was announced with (prepareCachedTrade, buildSigned, both settlements).
THEOREM TradesLand == RouteSpec => []LandsAsPromised
<1>1. PromiseInv => LandsAsPromised
  BY DEF PromiseInv
<1> QED BY <1>1, FoundStarts, FoundSteps, PromiseStarts, PromiseSteps, PTL DEF RouteSpec
=============================================================================
