---------------------------- MODULE AccountCache ----------------------------
(***************************************************************************)
(* The state a cached trade is prepared from: SubscriptionAccountCache and *)
(* AccountCacheSnapshot (src/trading/subscription_cache.ts), the           *)
(* continuity gate SubscriptionReadiness (subscription_readiness.ts), and  *)
(* CachedTradeExecutor (cached_trade.ts) up to its submission.             *)
(*                                                                         *)
(* An account's bytes are abstracted to the fork they come from, its slot  *)
(* and write version to one number; SlotOf gives the slot.  The gRPC feed  *)
(* (updates repeated, out of order, of another fork), the application that *)
(* validates accounts, and the caller are the environment.                 *)
(***************************************************************************)
EXTENDS Naturals, Sequences, FiniteSets

CONSTANTS Keys,           \* subscribed accounts
          Needed,         \* the accounts the trade reads
          Required,       \* the accounts readiness is created with
          Forks, NoFork,
          MaxVersion,
          SlotOf,         \* the slot of a version
          Batches,        \* the batches the feed may deliver
          MaxGeneration   \* bound on the generation counter

Versions == 1..MaxVersion
Updates == [key : Keys, version : Versions, fork : Forks]

ASSUME KeysAssumption == Needed \subseteq Keys /\ Required \subseteq Keys /\ Required # {}
ASSUME ForksAssumption == NoFork \notin Forks
ASSUME FeedAssumption ==
    /\ MaxVersion \in Nat /\ Batches \subseteq Seq(Updates)
    /\ SlotOf \in [Versions -> Nat]
    /\ \A v, w \in Versions : v <= w => SlotOf[v] <= SlotOf[w]
ASSUME BoundAssumption == MaxGeneration \in Nat

VARIABLES accounts, conflicted,                        \* SubscriptionAccountCache
          state, generation, forkId, required, validated,   \* SubscriptionReadiness
          token,     \* the generation and fork an application validates for
          snapshot,  \* the caller's AccountCacheSnapshot
          trade,     \* where CachedTradeExecutor.execute is
          gap,       \* history: continuity was lost since the snapshot was taken
          validFor   \* history: the token each account was last validated under

cacheVars == <<accounts, conflicted>>
gateVars  == <<state, generation, forkId, required, validated>>
callVars  == <<snapshot, trade>>
stateVars == <<cacheVars, gateVars, token, callVars, gap, validFor>>

Missing == [version |-> 0, fork |-> NoFork]
Tokens == [generation : 0..MaxGeneration, fork : Forks]

\* kind: none, plain (snapshot), ready (readySnapshot), observed (observedSnapshot).
NoSnapshot == [kind |-> "none", generation |-> 0, through |-> 0,
               accounts |-> [k \in Keys |-> 0]]

CacheInit ==
    /\ accounts = [k \in Keys |-> Missing] /\ conflicted = FALSE
    /\ state = "initializing" /\ generation = 0 /\ forkId \in Forks
    /\ required = Required /\ validated = {}
    /\ token = [generation |-> 0, fork |-> forkId]
    /\ snapshot = NoSnapshot /\ trade = "idle"
    /\ gap = FALSE /\ validFor = [k \in Keys |-> token]

------------------------------------------------------------------------------
(* The feed: updateMany, update and updateFromParser *)

\* What update i of a batch is compared with: the cached account, or a newer one
\* that the batch has already staged.
Staged(b, i) ==
    LET k     == b[i].key
        ahead == {j \in 1..(i - 1) : b[j].key = k}
    IN {accounts[k]} \cup {[version |-> b[j].version, fork |-> b[j].fork] : j \in ahead}

Newest(S) == CHOOSE a \in S : \A c \in S : c.version <= a.version

\* The same version with other bytes, somewhere in the batch.
Conflicts(b) ==
    \E i \in DOMAIN b : LET old == Newest(Staged(b, i)) IN
        old.version = b[i].version /\ old.fork # b[i].fork

\* The account is what arrived last.
AfterBug(b, k) ==
    LET own == {i \in DOMAIN b : b[i].key = k}
    IN IF own = {} THEN accounts[k]
       ELSE LET i == CHOOSE i \in own : \A j \in own : j <= i
            IN [version |-> b[i].version, fork |-> b[i].fork]

\* Each account at its newest version, whatever the order of arrival.
After(b, k) ==
    Newest({accounts[k]} \cup {[version |-> b[i].version, fork |-> b[i].fork] :
                                 i \in {i \in DOMAIN b : b[i].key = k}})

\* A conflict anywhere in the batch refuses all of it, and the cache for good.
UpdateMany(b) ==
    /\ ~conflicted
    /\ conflicted' = Conflicts(b)
    /\ accounts' = IF Conflicts(b) THEN accounts ELSE [k \in Keys |-> After(b, k)]
    /\ gap' = (gap \/ conflicted')
    /\ UNCHANGED <<gateVars, token, callVars, validFor>>

------------------------------------------------------------------------------
(* Readiness, driven by the application *)

\* interrupt()
Interrupt ==
    /\ generation < MaxGeneration
    /\ generation' = generation + 1 /\ validated' = {} /\ state' = "continuity-broken"
    /\ gap' = TRUE
    /\ UNCHANGED <<cacheVars, forkId, required, token, callVars, validFor>>

\* beginRecovery()
BeginRecovery(f) ==
    /\ generation < MaxGeneration
    /\ generation' = generation + 1 /\ forkId' = f /\ validated' = {} /\ state' = "recovering"
    /\ token' = [generation |-> generation', fork |-> f]
    /\ gap' = TRUE
    /\ UNCHANGED <<cacheVars, required, callVars, validFor>>

\* requireAccounts(): a new account asks for all of them to be validated again,
\* and does not open a gate that continuity closed.
RequireAccounts(K) ==
    /\ ~(K \subseteq required) /\ generation < MaxGeneration
    /\ required' = required \cup K
    /\ generation' = generation + 1 /\ validated' = {}
    /\ state' = IF state = "continuity-broken" THEN state ELSE "recovering"
    /\ gap' = TRUE
    /\ UNCHANGED <<cacheVars, forkId, token, callVars, validFor>>

\* The application starts a validation for what status() says.
StartValidation ==
    /\ token' = [generation |-> generation, fork |-> forkId]
    /\ UNCHANGED <<cacheVars, gateVars, callVars, gap, validFor>>

\* Only the fork of a validation is compared.
MarkValidatedBug(K) ==
    /\ token.fork = forkId /\ state # "continuity-broken"
    /\ validated' = validated \cup (K \cap required)
    /\ state' = IF validated' = required THEN "ready" ELSE state
    /\ validFor' = [k \in Keys |-> IF k \in K THEN token ELSE validFor[k]]
    /\ UNCHANGED <<cacheVars, generation, forkId, required, token, callVars, gap>>

\* markValidated(): what was validated for an earlier generation or another fork
\* is ignored.
MarkValidated(K) ==
    /\ token = [generation |-> generation, fork |-> forkId] /\ state # "continuity-broken"
    /\ validated' = validated \cup (K \cap required)
    /\ state' = IF validated' = required THEN "ready" ELSE state
    /\ validFor' = [k \in Keys |-> IF k \in K THEN token ELSE validFor[k]]
    /\ UNCHANGED <<cacheVars, generation, forkId, required, token, callVars, gap>>

------------------------------------------------------------------------------
(* The caller *)

\* snapshotAccounts: the keys a trade needs, where a key that was never observed or
\* a conflict throws, or without keys whatever is cached, neither of it looked at.
Frozen(all) == [k \in Keys |-> IF all \/ k \in Needed THEN accounts[k].version ELSE 0]
MayFreeze(all) == all \/ (~conflicted /\ \A k \in Needed : accounts[k] # Missing)

\* snapshot(), readySnapshot(), observedSnapshot(), the last two for the gate's guard
\* and never after a conflict.
TakeSnapshot(kind, through, all) ==
    /\ trade = "idle" /\ MayFreeze(all)
    /\ (kind # "plain" => ~conflicted /\ state = "ready")
    /\ snapshot' = [kind |-> kind, generation |-> generation, through |-> through,
                    accounts |-> Frozen(all)]
    /\ gap' = FALSE
    /\ UNCHANGED <<cacheVars, gateVars, token, trade, validFor>>

\* assertUsable: the cache's conflict, and the guard of a ready snapshot.
Usable ==
    /\ snapshot.kind # "none" /\ ~conflicted
    /\ (snapshot.kind # "plain" => state = "ready" /\ snapshot.generation = generation)

\* get(): an account the snapshot holds, neither from the future of the context nor
\* too old for it (stale()).
Fresh(version, slot, age) ==
    LET observed == IF snapshot.kind = "observed" THEN snapshot.through ELSE SlotOf[version]
        last     == IF observed > SlotOf[version] THEN observed ELSE SlotOf[version]
    IN version # 0 /\ SlotOf[version] <= slot /\ observed <= slot /\ slot - last <= age

\* The snapshot's age is all that is checked.
ExecuteBug(slot, age) ==
    /\ trade = "idle" /\ snapshot.kind # "none"
    /\ \A k \in Needed : Fresh(snapshot.accounts[k], slot, age)
    /\ trade' = "submitting"
    /\ UNCHANGED <<cacheVars, gateVars, token, snapshot, gap, validFor>>

\* execute() runs without an await from the checks of prepareCachedTrade to the
\* call of the transport.
Execute(slot, age) ==
    /\ trade = "idle" /\ Usable
    /\ \A k \in Needed : Fresh(snapshot.accounts[k], slot, age)
    /\ trade' = "submitting"
    /\ UNCHANGED <<cacheVars, gateVars, token, snapshot, gap, validFor>>

\* The transport returns the signature of the signed bytes, another one, or fails.
SubmitReturns ==
    /\ trade = "submitting"
    /\ trade' \in {"submitted", "failed"}
    /\ UNCHANGED <<cacheVars, gateVars, token, snapshot, gap, validFor>>

Slots == {SlotOf[v] : v \in Versions}

CacheNext ==
    \/ \E b \in Batches : UpdateMany(b)
    \/ Interrupt
    \/ \E f \in Forks : BeginRecovery(f)
    \/ \E K \in SUBSET Keys : RequireAccounts(K) \/ MarkValidated(K)
    \/ StartValidation
    \/ \E kind \in {"plain", "ready", "observed"}, through \in Slots, all \in BOOLEAN :
           TakeSnapshot(kind, through, all)
    \/ \E slot \in Slots, age \in {0, 1} : Execute(slot, age)
    \/ SubmitReturns

CacheSpec == CacheInit /\ [][CacheNext]_stateVars

------------------------------------------------------------------------------
(* Properties *)

\* Types of the cache, the gate and the call.
TypeOK ==
    /\ accounts \in [Keys -> [version : 0..MaxVersion, fork : Forks \cup {NoFork}]]
    /\ conflicted \in BOOLEAN
    /\ state \in {"initializing", "ready", "continuity-broken", "recovering"}
    /\ generation \in 0..MaxGeneration /\ forkId \in Forks
    /\ required \subseteq Keys /\ validated \subseteq required
    /\ token \in Tokens
    /\ snapshot \in [kind : {"none", "plain", "ready", "observed"},
                     generation : 0..MaxGeneration, through : Nat, accounts : [Keys -> 0..MaxVersion]]
    /\ trade \in {"idle", "submitting", "submitted", "failed"}
    /\ gap \in BOOLEAN /\ validFor \in [Keys -> Tokens]

\* The state is well typed, and an open gate means that every account required now was
\* validated under the generation and the fork selected now, however late validations
\* come in.
ReadyIsValidated ==
    /\ TypeOK
    /\ state = "ready" =>
           \A k \in required : validFor[k] = [generation |-> generation, fork |-> forkId]

\* "old guarded snapshots stay invalid": no trade is submitted from a guarded
\* snapshot after an interruption, a recovery, a new required account or a
\* conflict that came after it was taken, also once the gate is open again.
NoGapSubmission ==
    [][trade = "idle" /\ trade' = "submitting" /\ snapshot.kind # "plain" => ~gap]_stateVars

\* Updates that are repeated or out of order, in a batch or across batches, never
\* take an account back to an older version.
VersionsNeverGoBack ==
    [][\A k \in Keys : accounts[k].version <= accounts'[k].version]_stateVars

\* "Same-version conflicts require a new cache": a batch with a conflict changes no
\* account, and afterwards nothing is cached or submitted any more, whatever was or is
\* frozen; a guard is given for none of it, and what a keyless snapshot() still freezes
\* is of no use.
ConflictStops ==
    [][/\ conflicted' => accounts' = accounts
       /\ conflicted => conflicted'
       /\ conflicted /\ snapshot' # snapshot => snapshot'.kind = "plain"
       /\ conflicted /\ trade = "idle" => trade' = "idle"]_stateVars

\* A batch is taken as a whole or not at all, whatever the feed repeats, reorders or
\* forks: accounts only advance, and a conflict leaves them as they were for good.
BatchesAreSafe == VersionsNeverGoBack /\ ConflictStops
=============================================================================
