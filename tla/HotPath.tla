------------------------------ MODULE HotPath ------------------------------
(***************************************************************************)
(* HotPathState (src/hotpath/state.ts): a cache of the latest blockhash,   *)
(* which a timer refreshes between start() and stop(), and of the states   *)
(* of accounts and pools, which the program prefetches or puts there; and  *)
(* the TradingContexts taken from it.                                      *)
(*                                                                         *)
(* A question to the RPC node has two moments: the node reads the chain,   *)
(* and later its answer arrives.  A generation tells the answers asked for *)
(* before a stop() from those asked for after it.                          *)
(*                                                                         *)
(* Time is a Tick that makes everything older; an age stops growing where  *)
(* nothing reads a larger one.  A tick is of the order of a second: the    *)
(* timers fire on time, so a Tick waits for those that are due.            *)
(***************************************************************************)
EXTENDS Integers, FiniteSets

CONSTANTS Keys,                \* accounts and pools
          Slots,               \* bound on the questions under way
          Bounds,              \* [generations, keys, context, executes]: how often
                               \* start() and stop() are called, which states are used,
                               \* and whether contexts and the executors are
          blockhashRefreshInterval, cacheTtl, prefetchTimeout,
          maxAge,              \* what isValid of a context is asked for
          clockAhead           \* how far ahead of this clock the program's times may be

ASSUME HotPathAssumption ==
    /\ "none" \notin Slots /\ {"none", "blockhash"} \cap Keys = {}
    /\ \A b \in Bounds : b.generations \in Nat /\ b.keys \subseteq Keys
                         /\ b.context \in BOOLEAN /\ b.executes \in BOOLEAN
    /\ blockhashRefreshInterval \in Nat \ {0}
    /\ cacheTtl \in Nat /\ prefetchTimeout \in Nat \ {0}
    /\ maxAge \in Nat /\ clockAhead \in Nat

VARIABLES bounds, generation, isRunning,
          starting, prefetching,  \* the question start() and the refreshes wait for
          sinceRefresh,           \* age of the interval timer's last firing
          fetches,                \* questions under way
          currentData,            \* the cached blockhash
          states,                 \* the cached state of each account and pool
          context                 \* a TradingContext

timerVars == <<isRunning, starting, prefetching, sinceRefresh>>
cacheVars == <<currentData, states, context>>
hotVars == <<bounds, generation, timerVars, fetches, cacheVars>>

\* How old a cached value can be when it is last served: it is served for cacheTtl
\* after its answer arrived, and the answer took at most prefetchTimeout.
Oldest == cacheTtl + prefetchTimeout

Unread == -1
NoSlot == "none"
Free   == [of |-> "none", generation |-> 0, asked |-> 0, read |-> Unread]

\* A cached value: how long ago the chain held it, and how long ago it arrived; of a
\* state that the program made itself, by the time that the program gave it.
Empty == [read |-> Oldest + 1, fetched |-> cacheTtl + 1]
Ages  == [read : 0..Oldest + 1, fetched : 0..cacheTtl + 1]
StateAges == [read : -clockAhead..Oldest + 1, fetched : -clockAhead..cacheTtl + 1]
\* A context: the ages of what was put into it, and its own.
Parts     == Keys \cup {"blockhash"}
NoContext == [read |-> [part \in Parts |-> 0], age |-> maxAge + 1]

InitHot ==
    /\ bounds \in Bounds
    /\ generation = 0 /\ isRunning = FALSE
    /\ starting = NoSlot /\ prefetching = NoSlot /\ sinceRefresh = 0
    /\ fetches = [s \in Slots |-> Free]
    /\ currentData = Empty /\ states = [k \in Keys |-> Empty]
    /\ context = NoContext

Pending == {s \in Slots : fetches[s] # Free}

\* A question is asked in a free slot.
Asked(s, of, g) == [fetches EXCEPT ![s] = [of |-> of, generation |-> g,
                                           asked |-> 0, read |-> Unread]]

\* A time that is still to come is as stale as one long past.
isFreshSinceBug(age) == age <= cacheTtl

isFreshSince(age) == age >= 0 /\ age <= cacheTtl

\* getBlockhash, isDataFresh
isDataFresh == isFreshSince(currentData.fetched)

------------------------------------------------------------------------------
(* The blockhash *)

\* Every question is asked, whoever else is waiting for one.
SharedBug == NoSlot

\* prefetchBlockhash: a question of this generation under way is shared.
Shared == prefetching

\* start(): nothing while running or starting.
Start ==
    /\ ~isRunning /\ starting = NoSlot /\ generation < bounds.generations
    /\ generation' = generation + 1
    /\ IF Shared # NoSlot
       THEN starting' = Shared /\ UNCHANGED <<prefetching, fetches>>
       ELSE \E s \in Slots \ Pending :
               /\ fetches' = Asked(s, "blockhash", generation + 1)
               /\ prefetching' = s /\ starting' = s
    /\ UNCHANGED <<bounds, isRunning, sinceRefresh, cacheVars>>

\* The interval timer.
RefreshIsDue == isRunning /\ sinceRefresh = blockhashRefreshInterval

Refresh ==
    /\ RefreshIsDue
    /\ sinceRefresh' = 0
    /\ IF Shared # NoSlot
       THEN UNCHANGED <<prefetching, fetches>>
       ELSE \E s \in Slots \ Pending :
               /\ fetches' = Asked(s, "blockhash", generation)
               /\ prefetching' = s
    /\ UNCHANGED <<bounds, generation, isRunning, starting, cacheVars>>

\* stop(): the questions under way are forgotten, not withdrawn.
Stop ==
    /\ generation < bounds.generations
    /\ generation' = generation + 1
    /\ isRunning' = FALSE /\ starting' = NoSlot /\ prefetching' = NoSlot
    /\ UNCHANGED <<bounds, sinceRefresh, fetches, cacheVars>>

\* The node reads the chain for a question.
Read(s) ==
    /\ fetches[s] # Free /\ fetches[s].read = Unread
    /\ fetches' = [fetches EXCEPT ![s].read = 0]
    /\ UNCHANGED <<bounds, generation, timerVars, cacheVars>>

\* The question of slot s is settled; start() goes on if it waited for it.
Over(s, started) ==
    /\ fetches' = [fetches EXCEPT ![s] = Free]
    /\ prefetching' = IF prefetching = s THEN NoSlot ELSE prefetching
    /\ starting' = IF starting = s THEN NoSlot ELSE starting
    /\ isRunning' = (isRunning \/ (starting = s /\ started))
    /\ sinceRefresh' = IF starting = s /\ started THEN 0 ELSE sinceRefresh

\* Whether a question was asked by the start() in force.
Current(s) == fetches[s].generation = generation

\* The clock of the cache is set before the generation is looked at.
ReceivedBug(s) == [read |-> IF Current(s) THEN fetches[s].read ELSE currentData.read,
                   fetched |-> 0]

\* The cached blockhash after the answer to s.
Received(s) == IF Current(s) THEN [read |-> fetches[s].read, fetched |-> 0]
                             ELSE currentData

\* fetchBlockhash is answered.  The callback of onBlockhashUpdate may throw, when
\* the new blockhash is in place: then a start() fails.
BlockhashArrives(s) ==
    /\ fetches[s].of = "blockhash" /\ fetches[s].read # Unread
    /\ currentData' = Received(s)
    /\ \E throws \in BOOLEAN : Over(s, ~throws /\ Current(s))
    /\ UNCHANGED <<bounds, generation, states, context>>

\* It fails, or its timeout wins the race: the answer is dropped when it arrives.
FetchFails(s) ==
    /\ fetches[s] # Free
    /\ Over(s, FALSE)
    /\ UNCHANGED <<bounds, generation, cacheVars>>

------------------------------------------------------------------------------
(* Accounts, pools and contexts *)

\* prefetchAccounts of one account.
PrefetchAccount(k) ==
    /\ \E s \in Slots \ Pending : fetches' = Asked(s, k, generation)
    /\ UNCHANGED <<bounds, generation, timerVars, cacheVars>>

\* It is answered, whether or not the state was stopped since.  An account the node
\* does not know leaves the cache as it is.
AccountArrives(s) ==
    /\ fetches[s].of \in Keys /\ fetches[s].read # Unread
    /\ \E known \in BOOLEAN :
          states' = IF known THEN [states EXCEPT ![fetches[s].of] =
                                       [read |-> fetches[s].read, fetched |-> 0]]
                             ELSE states
    /\ Over(s, FALSE)
    /\ UNCHANGED <<bounds, generation, currentData, context>>

\* updateAccount, updatePool: the program's own state, with the age it gives it, which
\* may be past already or still to come.
UpdateState(k, age) ==
    /\ states' = [states EXCEPT ![k] = [read |-> age, fetched |-> age]]
    /\ UNCHANGED <<bounds, generation, timerVars, fetches, currentData, context>>

\* new TradingContext, which keeps the blockhash of its making.
CreateContext ==
    /\ bounds.context /\ isDataFresh
    /\ context' = [read |-> [NoContext.read EXCEPT !["blockhash"] = currentData.read], age |-> 0]
    /\ UNCHANGED <<bounds, generation, timerVars, fetches, currentData, states>>

\* addAccount, addPool
AddToContext(k) ==
    /\ context # NoContext /\ isFreshSince(states[k].fetched)
    /\ context' = [context EXCEPT !.read[k] = states[k].read]
    /\ UNCHANGED <<bounds, generation, timerVars, fetches, currentData, states>>

------------------------------------------------------------------------------
Older(age, most) == IF age < most THEN age + 1 ELSE most
Aged(v) == [read |-> Older(v.read, Oldest + 1), fetched |-> Older(v.fetched, cacheTtl + 1)]

\* Time passes when no timer is due.
Tick ==
    /\ ~RefreshIsDue
    /\ \A s \in Pending : fetches[s].asked < prefetchTimeout
    /\ sinceRefresh' = IF isRunning THEN sinceRefresh + 1 ELSE sinceRefresh
    /\ fetches' = [s \in Slots |->
           IF s \in Pending
           THEN [fetches[s] EXCEPT !.asked = @ + 1,
                                   !.read = IF @ = Unread THEN Unread ELSE @ + 1]
           ELSE Free]
    /\ currentData' = Aged(currentData)
    /\ states' = [k \in Keys |-> Aged(states[k])]
    /\ context' = IF context.age >= maxAge THEN NoContext
                  ELSE [read |-> [part \in Parts |-> context.read[part] + 1],
                        age  |-> context.age + 1]
    /\ UNCHANGED <<bounds, generation, isRunning, starting, prefetching>>

NextHot ==
    \/ Start \/ Refresh \/ Stop \/ CreateContext \/ Tick
    \/ \E s \in Slots : Read(s) \/ BlockhashArrives(s) \/ FetchFails(s) \/ AccountArrives(s)
    \/ \E k \in bounds.keys :
          \/ PrefetchAccount(k) \/ AddToContext(k)
          \/ \E age \in -clockAhead..cacheTtl + 1 : UpdateState(k, age)

SpecHot == InitHot /\ [][NextHot]_hotVars

------------------------------------------------------------------------------
(* Properties *)

\* Types of the caches, of the questions under way and of one trading context.
HotTypeOK ==
    /\ bounds \in Bounds /\ generation \in 0..bounds.generations /\ isRunning \in BOOLEAN
    /\ {starting, prefetching} \subseteq Slots \cup {NoSlot}
    /\ sinceRefresh \in 0..blockhashRefreshInterval
    /\ fetches \in [Slots -> [of : Keys \cup {"blockhash", "none"},
                              generation : 0..bounds.generations,
                              asked : 0..prefetchTimeout,
                              read : Unread..prefetchTimeout]]
    /\ currentData \in Ages /\ states \in [Keys -> StateAges]
    /\ context \in [read : [Parts -> Nat], age : 0..maxAge + 1]

\* What is served as fresh is fresh: a blockhash or a state that the cache hands out
\* was on the chain at most a prefetch timeout and a time to live ago, however its
\* answer was delayed and whatever was stopped and started meanwhile, and no state is
\* served before the time it is of; and in a context that calls itself valid nothing is
\* older than its own bound allows on top of that.
ServedIsRecent ==
    /\ isDataFresh => currentData.read <= Oldest
    /\ \A k \in Keys : isFreshSince(states[k].fetched) => states[k].read \in 0..Oldest
    /\ context.age <= maxAge =>
           \A part \in Parts : context.read[part] \in 0..Oldest + maxAge

\* The cached blockhash is never replaced by one read from the chain earlier, and not
\* at all by an answer that arrives while nobody runs the cache: after a stop(), the late
\* answers of the start() before it change nothing.
BlockhashOnlyForward ==
    [][currentData' # currentData /\ currentData'.fetched = 0
           => /\ isRunning \/ starting # NoSlot
              /\ currentData'.read <= currentData.read]_hotVars
=============================================================================
