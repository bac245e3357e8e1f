-------------------------- MODULE Executors_proofs --------------------------
(***************************************************************************)
(* Proofs about HotPath and Executors, for any slots, accounts, clients    *)
(* and bounds: what the cache serves is recent and its blockhash only      *)
(* moves forward, a caller is told what happened to its transaction, and   *)
(* no client is asked after one has given a signature.                     *)
(***************************************************************************)
EXTENDS Executors, FiniteSetTheorems, SequenceTheorems, TLAPS

-----------------------------------------------------------------------------
(* The cache *)

\* A question is about an account, a pool or the blockhash, and the chain is read
\* for it after it was asked.
Question(q) == q = Free \/ (q.of \in Keys \cup {"blockhash"} /\ q.read <= q.asked)

\* A question for the blockhash that the start() in force asked.
Live(s) == fetches[s].of = "blockhash" /\ Current(s)

\* There is one live question at most, prefetching names it, somebody runs the cache
\* meanwhile, and the chain was read for it after the cached blockhash was.
OneLive ==
    /\ \A s \in Slots : fetches[s].generation <= generation
    /\ \A s \in Slots : Live(s) => s = prefetching
    /\ prefetching # NoSlot => Live(prefetching) /\ (isRunning \/ starting # NoSlot)
    /\ starting # NoSlot => starting = prefetching /\ ~isRunning
    /\ \A s \in Slots : Live(s) /\ fetches[s].read # Unread =>
                            fetches[s].read <= currentData.read

\* A value that is not past serving was read before it arrived, at most a prefetch
\* timeout before.
Prompt(v) == v.fetched <= cacheTtl =>
                 v.fetched <= v.read /\ v.read <= v.fetched + prefetchTimeout

\* Everything in the cache is prompt, and a context took nothing older than Oldest.
Recent ==
    /\ Prompt(currentData) /\ \A k \in Keys : Prompt(states[k])
    /\ context.age <= maxAge =>
           \A part \in Parts : context.read[part] <= Oldest + context.age

HotInv ==
    /\ HotTypeOK
    /\ \A s \in Slots : Question(fetches[s])
    /\ OneLive
    /\ Recent

-----------------------------------------------------------------------------
(* The transactions *)

\* The states of a lane, and of a transaction given to the executor.
LaneStates == {"idle", "sent", "polling", "won", "unconfirmed", "failed"}
JobSet == [path : {"none", "trade", "hot"},
           answer : {"none", "refused", "success", "unconfirmed", "failed"},
           parallel : BOOLEAN, waits : BOOLEAN, order : Seq(Clients),
           at : Nat \ {0}, retry : 1..maxRetries]

JobTypes ==
    /\ clients \in Seq(Clients)
    /\ job \in [Jobs -> JobSet]
    /\ lane \in [Jobs -> [Clients -> LaneStates]]
    /\ chain \in [Jobs -> {"none", "confirmed"}]

\* A transaction that was not given has no lanes; one that waits for its confirmation
\* is a trade, and has a winning lane only when the chain has confirmed it.
Given(j) ==
    /\ job[j].path = "none" => job[j].answer = "none" /\ \A c \in Clients : lane[j][c] = "idle"
    /\ job[j].at <= Len(job[j].order) + 1
    /\ job[j].waits => /\ job[j].path = "trade"
                       /\ \A c \in Clients : lane[j][c] = "won" => chain[j] = "confirmed"

\* Sent to all clients: nobody has won yet, and every client was asked.
Racing(j) ==
    /\ \A c \in Clients : lane[j][c] # "won"
    /\ \A c \in ToSet(job[j].order) : lane[j][c] # "idle"

\* Sent to one client at a time: only the one it is at has a lane under way, and
\* those before it, all of them from the second round on, have failed.
Around(j) ==
    /\ job[j].at \in DOMAIN job[j].order
    /\ lane[j][job[j].order[job[j].at]] \in {"sent", "polling"}
    /\ \A c \in Clients : c # job[j].order[job[j].at] => lane[j][c] \in {"idle", "failed"}
    /\ \A i \in DOMAIN job[j].order :
          (i < job[j].at \/ job[j].retry > 1) /\ job[j].order[i] # job[j].order[job[j].at]
              => lane[j][job[j].order[i]] = "failed"

\* HonestAnswer, of one transaction.
Told(j) ==
    /\ job[j].answer = "success" => /\ Signed(j) # {}
                                    /\ job[j].waits => chain[j] = "confirmed"
    /\ job[j].answer = "failed" => /\ \A c \in ToSet(job[j].order) : lane[j][c] = "failed"
                                   /\ ~job[j].parallel => job[j].retry = maxRetries
    /\ job[j].answer = "unconfirmed" =>
           /\ Signed(j) # {}
           /\ \A c \in Clients : lane[j][c] \notin {"sent", "polling", "won"}

JobInv(j) ==
    /\ Given(j)
    /\ Running(j) /\ job[j].parallel => Racing(j)
    /\ Running(j) /\ ~job[j].parallel => Around(j)
    /\ Told(j)

IInv == HotInv /\ JobTypes /\ \A j \in Jobs : JobInv(j)

-----------------------------------------------------------------------------
(* Theorems about the cache *)

\* The questions that can be under way.
FetchSet == [of : Keys \cup {"blockhash", "none"}, generation : 0..bounds.generations,
             asked : 0..prefetchTimeout, read : Unread..prefetchTimeout]

\* The bounds as numbers.
LEMMA Numbers == ASSUME bounds \in Bounds
                 PROVE /\ bounds.generations \in Nat /\ bounds.keys \subseteq Keys
                       /\ cacheTtl \in Nat /\ prefetchTimeout \in Nat /\ prefetchTimeout > 0
                       /\ maxAge \in Nat /\ clockAhead \in Nat
                       /\ blockhashRefreshInterval \in Nat /\ blockhashRefreshInterval > 0
                       /\ Oldest \in Nat /\ Oldest = cacheTtl + prefetchTimeout
BY HotPathAssumption DEF Oldest

\* The types of the state after one of its steps.
LEMMA HotTypes == ASSUME HotInv, NextHot PROVE HotTypeOK'
<1> USE Numbers
<1>0. HotTypeOK /\ bounds \in Bounds
  BY DEF HotInv, HotTypeOK
<1>1. fetches \in [Slots -> FetchSet]
  BY <1>0 DEF HotTypeOK, FetchSet
<1>2. bounds' = bounds
  BY DEF NextHot, Start, Refresh, Stop, CreateContext, Tick, Read, BlockhashArrives,
         FetchFails, AccountArrives, PrefetchAccount, AddToContext, UpdateState
<1>3. Free \in FetchSet
  BY <1>0 DEF Free, FetchSet, Unread
<1>4. Empty \in Ages /\ Empty \in StateAges
  BY <1>0 DEF Empty, Ages, StateAges
<1>5. ASSUME NEW of \in Keys \cup {"blockhash"}, NEW g \in 0..bounds.generations, NEW s \in Slots
      PROVE Asked(s, of, g) \in [Slots -> FetchSet]
  BY <1>0, <1>1, <1>5 DEF Asked, FetchSet, Unread
<1>6. /\ \A v \in Ages : Aged(v) \in Ages
      /\ \A v \in StateAges : Aged(v) \in StateAges
  BY <1>0 DEF Ages, StateAges, Aged, Older
<1>7. ASSUME NEW s \in Slots, NEW started \in BOOLEAN, Over(s, started)
      PROVE /\ fetches' \in [Slots -> FetchSet] /\ isRunning' \in BOOLEAN
            /\ {starting', prefetching'} \subseteq Slots \cup {NoSlot}
            /\ sinceRefresh' \in 0..blockhashRefreshInterval
  BY <1>0, <1>1, <1>3, <1>7 DEF HotTypeOK, Over
<1>8. ASSUME fetches' \in [Slots -> FetchSet], generation' \in 0..bounds.generations,
             isRunning' \in BOOLEAN, {starting', prefetching'} \subseteq Slots \cup {NoSlot},
             sinceRefresh' \in 0..blockhashRefreshInterval, currentData' \in Ages,
             states' \in [Keys -> StateAges],
             context' \in [read : [Parts -> Nat], age : 0..maxAge + 1]
      PROVE HotTypeOK'
  BY <1>0, <1>2, <1>8 DEF HotTypeOK, FetchSet
<1> DEFINE timers == /\ isRunning \in BOOLEAN
                     /\ {starting, prefetching} \subseteq Slots \cup {NoSlot}
                     /\ sinceRefresh \in 0..blockhashRefreshInterval
           caches == /\ currentData \in Ages /\ states \in [Keys -> StateAges]
                     /\ context \in [read : [Parts -> Nat], age : 0..maxAge + 1]
<1>9. timers /\ caches /\ generation \in 0..bounds.generations
  BY <1>0 DEF HotTypeOK
<1>10. CASE Start
  <2>1. generation' \in 0..bounds.generations /\ caches' /\ isRunning' \in BOOLEAN
        /\ sinceRefresh' \in 0..blockhashRefreshInterval
    BY <1>0, <1>9, <1>10 DEF Start, cacheVars
  <2>2. fetches' \in [Slots -> FetchSet] /\ {starting', prefetching'} \subseteq Slots \cup {NoSlot}
    <3>1. CASE Shared # NoSlot
      BY <1>1, <1>9, <1>10, <3>1 DEF Start, Shared
    <3>2. CASE Shared = NoSlot
      <4>1. PICK s \in Slots : fetches' = Asked(s, "blockhash", generation + 1)
                               /\ prefetching' = s /\ starting' = s
        BY <1>10, <3>2 DEF Start
      <4>2. generation + 1 \in 0..bounds.generations
        BY <1>0, <1>9, <1>10 DEF Start
      <4> QED BY <1>5, <4>1, <4>2
    <3> QED BY <3>1, <3>2
  <2> QED BY <1>8, <2>1, <2>2
<1>11. CASE Refresh
  <2>1. generation' \in 0..bounds.generations /\ caches' /\ isRunning' \in BOOLEAN
        /\ sinceRefresh' \in 0..blockhashRefreshInterval
    BY <1>0, <1>9, <1>11 DEF Refresh, cacheVars
  <2>2. fetches' \in [Slots -> FetchSet] /\ {starting', prefetching'} \subseteq Slots \cup {NoSlot}
    <3>1. CASE Shared # NoSlot
      BY <1>1, <1>9, <1>11, <3>1 DEF Refresh, Shared
    <3>2. CASE Shared = NoSlot
      <4>1. PICK s \in Slots : fetches' = Asked(s, "blockhash", generation) /\ prefetching' = s
        BY <1>11, <3>2 DEF Refresh
      <4>2. starting' = starting
        BY <1>11 DEF Refresh
      <4> QED BY <1>5, <1>9, <4>1, <4>2
    <3> QED BY <3>1, <3>2
  <2> QED BY <1>8, <2>1, <2>2
<1>12. CASE Stop
  <2>1. generation' \in 0..bounds.generations
    BY <1>0, <1>9, <1>12 DEF Stop
  <2>2. caches'
    BY <1>9, <1>12 DEF Stop, cacheVars
  <2>3. timers'
    BY <1>9, <1>12 DEF Stop
  <2>4. fetches' \in [Slots -> FetchSet]
    BY <1>1, <1>12 DEF Stop
  <2> QED BY <1>8, <2>1, <2>2, <2>3, <2>4
<1>13. CASE CreateContext
  <2>1. context' \in [read : [Parts -> Nat], age : 0..maxAge + 1]
    <3>1. currentData.read \in Nat
      BY <1>0, <1>9 DEF Ages
    <3>2. NoContext.read \in [Parts -> Nat]
      BY DEF NoContext
    <3>3. [NoContext.read EXCEPT !["blockhash"] = currentData.read] \in [Parts -> Nat]
      BY <3>1, <3>2
    <3>4. 0 \in 0..maxAge + 1
      BY <1>0
    <3> QED BY <1>13, <3>3, <3>4 DEF CreateContext
  <2> QED BY <1>1, <1>8, <1>9, <1>13, <2>1 DEF CreateContext, timerVars
<1>14. CASE Tick
  <2>1. ASSUME NEW s \in Slots PROVE fetches'[s] \in FetchSet
    <3>1. CASE s \in Pending
      <4> DEFINE q == fetches[s]
      <4>1. q \in FetchSet /\ q.asked < prefetchTimeout /\ Question(q)
        BY <1>1, <1>14, <3>1 DEF Tick, HotInv
      <4>2. q.of \in Keys \cup {"blockhash"} /\ q.read <= q.asked
        BY <3>1, <4>1 DEF Pending, Question
      <4>3. fetches'[s] = [q EXCEPT !.asked = @ + 1,
                                    !.read = IF @ = Unread THEN Unread ELSE @ + 1]
        BY <1>14, <3>1 DEF Tick
      <4>4. q.asked + 1 \in 0..prefetchTimeout /\ q.read \in Unread..q.asked
        BY <1>0, <4>1, <4>2 DEF FetchSet
      <4>5. (IF q.read = Unread THEN Unread ELSE q.read + 1) \in Unread..prefetchTimeout
        BY <1>0, <4>1, <4>4 DEF FetchSet, Unread
      <4> HIDE DEF q
      <4> QED BY <4>1, <4>3, <4>4, <4>5 DEF FetchSet
    <3>2. CASE s \notin Pending
      BY <1>3, <1>14, <3>2 DEF Tick
    <3> QED BY <3>1, <3>2
  <2>2. fetches' \in [Slots -> FetchSet]
    <3>1. DOMAIN fetches' = Slots /\ fetches' = [s \in Slots |-> fetches'[s]]
      BY <1>14 DEF Tick
    <3> QED BY <2>1, <3>1
  <2>3. sinceRefresh' \in 0..blockhashRefreshInterval
    <3>1. isRunning => sinceRefresh # blockhashRefreshInterval
      BY <1>14 DEF Tick, RefreshIsDue
    <3>2. sinceRefresh' = IF isRunning THEN sinceRefresh + 1 ELSE sinceRefresh
      BY <1>14 DEF Tick
    <3> QED BY <1>0, <1>9, <3>1, <3>2
  <2>4. currentData' \in Ages /\ states' \in [Keys -> StateAges]
    BY <1>6, <1>9, <1>14 DEF Tick
  <2>5. context' \in [read : [Parts -> Nat], age : 0..maxAge + 1]
    <3>1. context' = IF context.age >= maxAge THEN NoContext
                     ELSE [read |-> [part \in Parts |-> context.read[part] + 1],
                           age  |-> context.age + 1]
      BY <1>14 DEF Tick
    <3>2. NoContext \in [read : [Parts -> Nat], age : 0..maxAge + 1]
      BY <1>0 DEF NoContext
    <3>3. [part \in Parts |-> context.read[part] + 1] \in [Parts -> Nat]
      BY <1>9
    <3>4. context.age >= maxAge \/ context.age + 1 \in 0..maxAge + 1
      BY <1>0, <1>9
    <3> HIDE DEF caches, timers
    <3> QED BY <3>1, <3>2, <3>3, <3>4
  <2>6. UNCHANGED <<generation, isRunning, starting, prefetching>>
    BY <1>14 DEF Tick
  <2> QED BY <1>8, <1>9, <2>2, <2>3, <2>4, <2>5, <2>6
<1>15. ASSUME NEW s \in Slots, Read(s) PROVE HotTypeOK'
  <2>1. fetches' \in [Slots -> FetchSet]
    BY <1>0, <1>1, <1>15 DEF Read, FetchSet, Unread
  <2> QED BY <1>8, <1>9, <1>15, <2>1 DEF Read, timerVars, cacheVars
<1>16. ASSUME NEW s \in Slots, BlockhashArrives(s) PROVE HotTypeOK'
  <2>1. currentData' \in Ages
    <3>1. fetches[s].read \in 0..Oldest + 1
      BY <1>0, <1>1, <1>16 DEF BlockhashArrives, FetchSet, Unread
    <3> QED BY <1>0, <1>9, <1>16, <3>1 DEF BlockhashArrives, Received, Ages
  <2>2. PICK throws \in BOOLEAN : Over(s, ~throws /\ Current(s))
    BY <1>16 DEF BlockhashArrives
  <2>3. (~throws /\ Current(s)) \in BOOLEAN
    OBVIOUS
  <2>4. UNCHANGED <<generation, states, context>>
    BY <1>16 DEF BlockhashArrives
  <2> HIDE DEF timers
  <2>5. /\ fetches' \in [Slots -> FetchSet] /\ isRunning' \in BOOLEAN
        /\ {starting', prefetching'} \subseteq Slots \cup {NoSlot}
        /\ sinceRefresh' \in 0..blockhashRefreshInterval
    BY <1>7, <2>2, <2>3
  <2> QED BY <1>8, <1>9, <2>1, <2>4, <2>5
<1>17. ASSUME NEW s \in Slots, FetchFails(s) PROVE HotTypeOK'
  BY <1>7, <1>8, <1>9, <1>17 DEF FetchFails, cacheVars
<1>18. ASSUME NEW s \in Slots, AccountArrives(s) PROVE HotTypeOK'
  <2>1. fetches[s].read \in 0..Oldest + 1
    BY <1>0, <1>1, <1>18 DEF AccountArrives, FetchSet, Unread
  <2>2. [read |-> fetches[s].read, fetched |-> 0] \in StateAges
    BY <1>0, <2>1 DEF StateAges
  <2>3. states' \in [Keys -> StateAges]
    BY <1>9, <1>18, <2>2 DEF AccountArrives
  <2>4. Over(s, FALSE) /\ UNCHANGED <<generation, currentData, context>>
    BY <1>18 DEF AccountArrives
  <2> QED BY <1>7, <1>8, <1>9, <2>3, <2>4
<1>19. ASSUME NEW k \in Keys, PrefetchAccount(k) PROVE HotTypeOK'
  <2>1. fetches' \in [Slots -> FetchSet]
    BY <1>5, <1>9, <1>19 DEF PrefetchAccount
  <2> QED BY <1>8, <1>9, <1>19, <2>1 DEF PrefetchAccount, timerVars, cacheVars
<1>20. ASSUME NEW k \in Keys, AddToContext(k) PROVE HotTypeOK'
  <2>1. context' \in [read : [Parts -> Nat], age : 0..maxAge + 1]
    <3>1. states[k] \in StateAges /\ Prompt(states[k]) /\ isFreshSince(states[k].fetched)
      BY <1>9, <1>20 DEF AddToContext, HotInv, Recent
    <3>2. states[k].read \in Nat
      BY <1>0, <3>1 DEF StateAges, Prompt, isFreshSince
    <3> QED BY <1>0, <1>9, <1>20, <3>2 DEF AddToContext
  <2> QED BY <1>1, <1>8, <1>9, <1>20, <2>1 DEF AddToContext, timerVars
<1>21. ASSUME NEW k \in Keys, NEW age \in -clockAhead..cacheTtl + 1,
              UpdateState(k, age)
       PROVE HotTypeOK'
  <2>1. states' \in [Keys -> StateAges]
    BY <1>0, <1>9, <1>21 DEF UpdateState, StateAges
  <2> QED BY <1>1, <1>8, <1>9, <1>21, <2>1 DEF UpdateState, timerVars
<1> QED BY <1>0, <1>10, <1>11, <1>12, <1>13, <1>14, <1>15, <1>16, <1>17, <1>18, <1>19, <1>20,
           <1>21 DEF NextHot

\* Whatever a step does to a question, the chain is read for it after it is asked.
LEMMA QuestionsKept == ASSUME HotInv, NextHot PROVE \A s \in Slots : Question(fetches'[s])
<1> USE Numbers, HotPathAssumption
<1>1. /\ fetches \in [Slots -> FetchSet] /\ \A s \in Slots : Question(fetches[s])
      /\ bounds \in Bounds
  BY DEF HotInv, HotTypeOK, FetchSet
<1>2. ASSUME NEW of \in Keys \cup {"blockhash"}, NEW g, NEW s \in Slots, fetches' = Asked(s, of, g)
      PROVE \A t \in Slots : Question(fetches'[t])
  BY <1>1, <1>2 DEF Asked, Question, Unread
<1>3. ASSUME NEW s \in Slots, fetches' = [fetches EXCEPT ![s] = Free]
      PROVE \A t \in Slots : Question(fetches'[t])
  BY <1>1, <1>3 DEF Question
<1>4. ASSUME UNCHANGED fetches PROVE \A t \in Slots : Question(fetches'[t])
  BY <1>1, <1>4
<1>5. CASE Tick
  <2>1. ASSUME NEW s \in Pending PROVE Question(fetches'[s])
    <3> DEFINE q == fetches[s]
    <3>1. q \in FetchSet /\ q.of \in Keys \cup {"blockhash"} /\ q.read <= q.asked
      BY <1>1, <2>1 DEF Pending, Question
    <3>2. fetches'[s] = [q EXCEPT !.asked = @ + 1,
                                  !.read = IF @ = Unread THEN Unread ELSE @ + 1]
      BY <1>5, <2>1 DEF Tick, Pending
    <3> QED BY <1>1, <3>1, <3>2 DEF FetchSet, Question, Unread
  <2>2. ASSUME NEW s \in Slots \ Pending PROVE Question(fetches'[s])
    BY <1>5, <2>2 DEF Tick, Question
  <2> QED BY <2>1, <2>2
<1>6. ASSUME NEW s \in Slots, Read(s) PROVE \A t \in Slots : Question(fetches'[t])
  BY <1>1, <1>6 DEF Read, Question, FetchSet, Unread
<1>7. CASE Start
  BY <1>2, <1>4, <1>7 DEF Start
<1>8. CASE Refresh
  BY <1>2, <1>4, <1>8 DEF Refresh
<1>9. ASSUME NEW k \in Keys, PrefetchAccount(k) PROVE \A t \in Slots : Question(fetches'[t])
  BY <1>2, <1>9 DEF PrefetchAccount
<1>10. ASSUME NEW s \in Slots, BlockhashArrives(s) \/ FetchFails(s) \/ AccountArrives(s)
       PROVE \A t \in Slots : Question(fetches'[t])
  BY <1>3, <1>10 DEF BlockhashArrives, FetchFails, AccountArrives, Over
<1>11. CASE \/ Stop \/ CreateContext
            \/ \E k \in bounds.keys : \/ AddToContext(k)
                                      \/ \E age \in -clockAhead..cacheTtl + 1 : UpdateState(k, age)
  BY <1>4, <1>11 DEF Stop, CreateContext, AddToContext, UpdateState
<1> QED BY <1>1, <1>5, <1>6, <1>7, <1>8, <1>9, <1>10, <1>11 DEF NextHot

\* No step leaves two live questions, or one that nobody waits for.
LEMMA OneLiveKept == ASSUME HotInv, NextHot PROVE OneLive'
<1> USE Numbers
<1>1. /\ fetches \in [Slots -> FetchSet] /\ bounds \in Bounds /\ generation \in Nat
      /\ isRunning \in BOOLEAN /\ {starting, prefetching} \subseteq Slots \cup {NoSlot}
  BY DEF HotInv, HotTypeOK, FetchSet
<1>2. ASSUME NEW s \in Slots
      PROVE fetches[s].generation \in Nat /\ fetches[s].asked \in Nat
            /\ fetches[s].read \in Int /\ fetches[s].read <= prefetchTimeout
  <2>1. fetches[s] \in FetchSet
    BY <1>1
  <2> QED BY <1>1, <2>1 DEF FetchSet, Unread
<1>3. NoSlot \notin Slots /\ "none" # "blockhash" /\ "blockhash" \notin Keys
  BY HotPathAssumption DEF NoSlot
<1>4. OneLive
  BY DEF HotInv
<1>5. currentData.read \in 0..Oldest + 1
  BY DEF HotInv, HotTypeOK, Ages
<1>6. ASSUME UNCHANGED <<generation, isRunning, starting, prefetching, fetches>>,
             currentData' = currentData
      PROVE OneLive'
  BY <1>4, <1>6 DEF OneLive, Live, Current
\* A question about an account is asked or settled.
<1>7. ASSUME UNCHANGED <<generation, isRunning, starting, prefetching, currentData>>,
             NEW s \in Slots, fetches[s].of # "blockhash",
             NEW q, q.of # "blockhash", q.generation <= generation,
             fetches' = [fetches EXCEPT ![s] = q]
      PROVE OneLive'
  BY <1>1, <1>4, <1>7 DEF OneLive, Live, Current
\* A question for the blockhash is asked when no live one is there.
<1>8. ASSUME NEW s \in Slots, generation' \in Nat, generation' >= generation,
             fetches' = Asked(s, "blockhash", generation'), prefetching' = s,
             generation' > generation \/ prefetching = NoSlot,
             starting' # NoSlot => starting' = s /\ ~isRunning', isRunning' \/ starting' # NoSlot
      PROVE OneLive'
  <2>1. fetches'[s] = [of |-> "blockhash", generation |-> generation',
                       asked |-> 0, read |-> Unread]
    BY <1>1, <1>8 DEF Asked
  <2>2. ASSUME NEW t \in Slots, t # s
        PROVE fetches'[t] = fetches[t] /\ fetches'[t].generation <= generation' /\ ~Live(t)'
    <3>1. fetches'[t] = fetches[t]
      BY <1>1, <1>8, <2>2 DEF Asked
    <3>2. fetches[t].generation <= generation
      BY <1>4 DEF OneLive
    <3>3. fetches[t].generation = generation' => generation' = generation
      BY <1>1, <1>2, <1>8, <3>2
    <3>4. Live(t)' => Live(t) /\ generation' = generation
      BY <3>1, <3>3 DEF Live, Current
    <3>5. ~Live(t)'
      BY <1>1, <1>3, <1>4, <1>8, <3>4 DEF OneLive
    <3> QED BY <1>1, <1>2, <1>8, <3>1, <3>2, <3>5
  <2>3. s # NoSlot
    BY <1>3
  <2>4. Live(s)'
    BY <2>1 DEF Live, Current
  <2> QED BY <1>8, <2>1, <2>2, <2>3, <2>4 DEF OneLive
\* A slot is free again.
<1>9. ASSUME NEW s \in Slots, NEW started \in BOOLEAN, Over(s, started), UNCHANGED generation,
             \A t \in Slots \ {s} : Live(t) /\ fetches[t].read # Unread =>
                 fetches[t].read <= currentData'.read
      PROVE OneLive'
  <2>1. fetches'[s] = Free /\ ~Live(s)' /\ Free.generation = 0
    BY <1>1, <1>3, <1>9 DEF Over, Live, Free
  <2>2. ASSUME NEW t \in Slots, t # s PROVE fetches'[t] = fetches[t] /\ (Live(t)' <=> Live(t))
    BY <1>1, <1>9, <2>2 DEF Over, Live, Current
  <2>3. CASE prefetching = s
    <3>1. prefetching' = NoSlot /\ starting' = NoSlot
      BY <1>4, <1>9, <2>3 DEF Over, OneLive
    <3>2. \A t \in Slots : ~Live(t)'
      BY <1>4, <2>1, <2>2, <2>3 DEF OneLive
    <3> QED BY <1>1, <1>4, <1>9, <2>1, <2>2, <3>1, <3>2 DEF OneLive
  <2>4. CASE prefetching # s
    <3>1. prefetching' = prefetching /\ starting' = starting /\ isRunning' = isRunning
      <4>1. starting # s
        BY <1>3, <1>4, <2>4 DEF OneLive
      <4> QED BY <1>1, <1>9, <2>4, <4>1 DEF Over
    <3>2. prefetching # NoSlot => prefetching \in Slots
      BY <1>1
    <3> QED BY <1>1, <1>4, <1>9, <2>1, <2>2, <2>4, <3>1, <3>2 DEF OneLive
  <2> QED BY <2>3, <2>4
<1>10. CASE Start
  <2>1. prefetching = NoSlot /\ generation' = generation + 1 /\ isRunning' = isRunning
        /\ ~isRunning
    BY <1>4, <1>10 DEF Start, OneLive
  <2>2. PICK s \in Slots : fetches' = Asked(s, "blockhash", generation + 1)
                           /\ prefetching' = s /\ starting' = s
    BY <1>10, <2>1 DEF Start, Shared
  <2> QED BY <1>1, <1>3, <1>8, <2>1, <2>2
<1>11. CASE Refresh
  <2>0. isRunning' = isRunning /\ isRunning /\ starting' = starting /\ starting = NoSlot
        /\ generation' = generation /\ currentData' = currentData
    BY <1>4, <1>11 DEF Refresh, RefreshIsDue, OneLive, cacheVars
  <2>1. CASE Shared # NoSlot
    BY <1>6, <1>11, <2>0, <2>1 DEF Refresh, Shared
  <2>2. CASE Shared = NoSlot
    <3>1. PICK s \in Slots : fetches' = Asked(s, "blockhash", generation) /\ prefetching' = s
      BY <1>11, <2>2 DEF Refresh
    <3> QED BY <1>1, <1>8, <2>0, <2>2, <3>1 DEF Shared
  <2> QED BY <2>1, <2>2
<1>12. CASE Stop
  <2>1. generation' = generation + 1 /\ fetches' = fetches
        /\ starting' = NoSlot /\ prefetching' = NoSlot
    BY <1>12 DEF Stop
  <2>2. ASSUME NEW s \in Slots PROVE fetches[s].generation <= generation' /\ ~Live(s)'
    <3>1. fetches[s].generation <= generation
      BY <1>4 DEF OneLive
    <3>2. fetches[s].generation <= generation + 1 /\ fetches[s].generation # generation + 1
      BY <1>1, <1>2, <3>1
    <3> QED BY <2>1, <3>2 DEF Live, Current
  <2> QED BY <2>1, <2>2 DEF OneLive
<1>13. CASE Tick
  <2>1. UNCHANGED <<generation, isRunning, starting, prefetching>>
    BY <1>13 DEF Tick
  <2>2. ASSUME NEW s \in Slots
        PROVE /\ fetches'[s].of = fetches[s].of
              /\ fetches'[s].generation = fetches[s].generation
              /\ Live(s) => fetches'[s].read = IF fetches[s].read = Unread THEN Unread
                                               ELSE fetches[s].read + 1
    <3>1. CASE s \in Pending
      <4>1. fetches'[s] = [fetches[s] EXCEPT !.asked = @ + 1,
                                             !.read = IF @ = Unread THEN Unread ELSE @ + 1]
        BY <1>13, <3>1 DEF Tick
      <4>2. fetches[s] \in FetchSet
        BY <1>1
      <4> QED BY <4>1, <4>2 DEF FetchSet
    <3>2. CASE s \notin Pending
      <4>1. fetches[s] = Free /\ fetches'[s] = Free
        BY <1>13, <3>2 DEF Tick, Pending
      <4> QED BY <1>3, <4>1 DEF Free, Live
    <3> QED BY <3>1, <3>2
  <2>3. ASSUME NEW s \in Slots PROVE Live(s)' <=> Live(s)
    BY <2>1, <2>2 DEF Live, Current
  <2>4. ASSUME NEW s \in Slots, Live(s), fetches'[s].read # Unread
        PROVE fetches'[s].read <= currentData'.read
    <3>1. fetches[s].read # Unread /\ fetches'[s].read = fetches[s].read + 1
      BY <2>2, <2>4
    <3>2. fetches[s].read <= currentData.read
      BY <1>4, <2>4, <3>1 DEF OneLive
    <3>3. fetches[s].read + 1 <= prefetchTimeout
      <4>1. s \in Pending /\ fetches[s].asked < prefetchTimeout
        BY <1>3, <1>13, <2>4 DEF Tick, Pending, Live, Free
      <4>2. Question(fetches[s]) /\ fetches[s] # Free
        BY <4>1 DEF HotInv, Pending
      <4> QED BY <1>1, <1>2, <4>1, <4>2 DEF Question
    <3>4. currentData'.read = Older(currentData.read, Oldest + 1)
      BY <1>13 DEF Tick, Aged
    <3> QED BY <1>1, <1>2, <1>5, <3>1, <3>2, <3>3, <3>4 DEF Older
  <2> QED BY <1>1, <1>4, <2>1, <2>2, <2>3, <2>4 DEF OneLive
<1>14. ASSUME NEW s \in Slots, Read(s) PROVE OneLive'
  <2>1. UNCHANGED <<generation, isRunning, starting, prefetching, currentData>>
    BY <1>14 DEF Read, timerVars, cacheVars
  <2>2. ASSUME NEW t \in Slots
        PROVE /\ fetches'[t].of = fetches[t].of
              /\ fetches'[t].generation = fetches[t].generation
              /\ fetches'[t].read = IF t = s THEN 0 ELSE fetches[t].read
    <3>1. fetches[t] \in FetchSet
      BY <1>1
    <3> QED BY <1>1, <1>14, <3>1 DEF Read, FetchSet
  <2>3. ASSUME NEW t \in Slots PROVE Live(t)' <=> Live(t)
    BY <2>1, <2>2 DEF Live, Current
  <2> QED BY <1>1, <1>4, <1>5, <2>1, <2>2, <2>3 DEF OneLive
<1>15. ASSUME NEW s \in Slots, BlockhashArrives(s) PROVE OneLive'
  <2>1. PICK throws \in BOOLEAN : Over(s, ~throws /\ Current(s))
    BY <1>15 DEF BlockhashArrives
  <2>2. (~throws /\ Current(s)) \in BOOLEAN /\ generation' = generation
    BY <1>15 DEF BlockhashArrives
  <2>3. ASSUME NEW t \in Slots \ {s}, Live(t), fetches[t].read # Unread
        PROVE fetches[t].read <= currentData'.read
    <3>1. ~Current(s)
      BY <1>4, <1>15, <2>3 DEF OneLive, Live, BlockhashArrives
    <3>2. currentData' = currentData
      BY <1>15, <3>1 DEF BlockhashArrives, Received
    <3> QED BY <1>4, <2>3, <3>2 DEF OneLive
  <2> QED BY <1>9, <2>1, <2>2, <2>3
<1>16. ASSUME NEW s \in Slots, FetchFails(s) \/ AccountArrives(s) PROVE OneLive'
  <2>1. Over(s, FALSE) /\ UNCHANGED <<generation, currentData>>
    BY <1>16 DEF FetchFails, AccountArrives, cacheVars
  <2> QED BY <1>4, <1>9, <2>1 DEF OneLive
<1>17. ASSUME NEW k \in Keys, PrefetchAccount(k) PROVE OneLive'
  <2>1. PICK s \in Slots \ Pending : fetches' = Asked(s, k, generation)
    BY <1>17 DEF PrefetchAccount
  <2>2. fetches[s].of # "blockhash"
    BY <1>3, <2>1 DEF Pending, Free
  <2>3. UNCHANGED <<generation, isRunning, starting, prefetching, currentData>>
    BY <1>17 DEF PrefetchAccount, timerVars, cacheVars
  <2> DEFINE q == [of |-> k, generation |-> generation, asked |-> 0, read |-> Unread]
  <2>4. q.of # "blockhash" /\ q.generation <= generation
    BY <1>1, <1>3
  <2>5. fetches' = [fetches EXCEPT ![s] = q]
    BY <2>1 DEF Asked
  <2> HIDE DEF q
  <2> QED BY <1>7, <2>1, <2>2, <2>3, <2>4, <2>5
<1>18. CASE \/ CreateContext
            \/ \E k \in bounds.keys : \/ AddToContext(k)
                                      \/ \E age \in -clockAhead..cacheTtl + 1 : UpdateState(k, age)
  BY <1>6, <1>18 DEF CreateContext, AddToContext, UpdateState, timerVars
<1> QED BY <1>1, <1>10, <1>11, <1>12, <1>13, <1>14, <1>15, <1>16, <1>17, <1>18 DEF NextHot

\* No step puts anything late into the cache or into a context.
LEMMA RecentKept == ASSUME HotInv, NextHot PROVE Recent'
<1> USE Numbers
<1>1. bounds \in Bounds /\ currentData \in Ages /\ states \in [Keys -> StateAges]
      /\ context \in [read : [Parts -> Nat], age : 0..maxAge + 1] /\ Recent
  BY DEF HotInv, HotTypeOK
<1>0. Ages \subseteq StateAges
  BY <1>1 DEF Ages, StateAges
<1>2. ASSUME UNCHANGED cacheVars PROVE Recent'
  BY <1>1, <1>2 DEF Recent, Prompt, isFreshSince, cacheVars
\* What is answered in time is prompt.
<1>3. ASSUME NEW s \in Slots, fetches[s].read # Unread
      PROVE  Prompt([read |-> fetches[s].read, fetched |-> 0])
  <2>1. fetches[s].read \in Unread..prefetchTimeout
    BY DEF HotInv, HotTypeOK
  <2> QED BY <1>1, <1>3, <2>1 DEF Prompt, Unread
<1>4. ASSUME NEW v \in StateAges, Prompt(v) PROVE Prompt(Aged(v))
  <2>1. /\ v.read \in Int /\ v.fetched \in Int
        /\ v.fetched <= cacheTtl + 1 /\ v.read <= Oldest + 1
    BY <1>1 DEF StateAges
  <2>2. /\ Aged(v).read <= v.read + 1
        /\ v.read <= Oldest => Aged(v).read = v.read + 1
    BY <1>1, <2>1 DEF Aged, Older
  <2>3. Aged(v).read \in Int /\ Aged(v).fetched \in Int
    BY <1>1, <2>1 DEF Aged, Older
  <2>4. Aged(v).fetched <= cacheTtl => Aged(v).fetched = v.fetched + 1 /\ v.fetched + 1 <= cacheTtl
    BY <1>1, <2>1 DEF Aged, Older
  <2>5. v.fetched + 1 <= cacheTtl =>
            v.fetched <= v.read /\ v.read <= v.fetched + prefetchTimeout /\ v.read <= Oldest
    BY <1>1, <1>4, <2>1 DEF Prompt
  <2> QED BY <1>1, <2>1, <2>2, <2>3, <2>4, <2>5 DEF Prompt
\* What is served can be taken into a context.
<1>5. ASSUME NEW v \in StateAges, Prompt(v), isFreshSince(v.fetched)
      PROVE  v.read <= Oldest /\ v.read \in Nat
  BY <1>1, <1>5 DEF StateAges, Prompt, isFreshSince
<1>6. ASSUME NEW s \in Slots, BlockhashArrives(s) PROVE Recent'
  BY <1>1, <1>3, <1>6 DEF BlockhashArrives, Received, Recent
<1>7. ASSUME NEW s \in Slots, AccountArrives(s) PROVE Recent'
  <2>1. \A k \in Keys : Prompt(states'[k])
    BY <1>1, <1>3, <1>7 DEF AccountArrives, Recent
  <2>2. UNCHANGED <<currentData, context>>
    BY <1>7 DEF AccountArrives
  <2> QED BY <1>1, <2>1, <2>2 DEF Recent
<1>8. ASSUME NEW k \in Keys, NEW age \in -clockAhead..cacheTtl + 1,
             UpdateState(k, age)
      PROVE Recent'
  <2>1. Prompt([read |-> age, fetched |-> age])
    BY <1>1, <1>8 DEF Prompt
  <2>2. \A i \in Keys : Prompt(states'[i])
    BY <1>1, <1>8, <2>1 DEF UpdateState, Recent
  <2>3. UNCHANGED <<currentData, context>>
    BY <1>8 DEF UpdateState
  <2> QED BY <1>1, <2>2, <2>3 DEF Recent
<1>9. CASE CreateContext
  <2>1. currentData.read <= Oldest /\ currentData.read \in Nat
    BY <1>1, <1>0, <1>5, <1>9 DEF CreateContext, isDataFresh, Recent
  <2>2. \A part \in Parts : context'.read[part] <= Oldest
    BY <1>1, <1>9, <2>1 DEF CreateContext, NoContext
  <2>3. context'.age = 0 /\ UNCHANGED <<currentData, states>>
    BY <1>9 DEF CreateContext
  <2> QED BY <1>1, <2>2, <2>3 DEF Recent
<1>10. ASSUME NEW k \in Keys, AddToContext(k) PROVE Recent'
  <2>1. states[k].read <= Oldest /\ states[k].read \in Nat
    <3>1. states[k] \in StateAges /\ Prompt(states[k]) /\ isFreshSince(states[k].fetched)
      BY <1>1, <1>10 DEF AddToContext, Recent
    <3> QED BY <1>5, <3>1
  <2>2. context' = [context EXCEPT !.read[k] = states[k].read]
        /\ UNCHANGED <<currentData, states>>
    BY <1>10 DEF AddToContext
  <2>3. context'.age = context.age
    BY <1>1, <2>2
  <2>4. ASSUME NEW part \in Parts, context.age <= maxAge
        PROVE context'.read[part] <= Oldest + context.age
    <3>1. context'.read[part] = IF part = k THEN states[k].read ELSE context.read[part]
      BY <1>1, <2>2
    <3> QED BY <1>1, <2>1, <2>4, <3>1 DEF Recent
  <2> QED BY <1>1, <2>2, <2>3, <2>4 DEF Recent
<1>11. CASE Tick
  <2>1. Prompt(currentData') /\ \A k \in Keys : Prompt(states'[k])
    BY <1>1, <1>0, <1>4, <1>11 DEF Tick, Recent
  <2>2. CASE context.age >= maxAge
    <3>1. context'.age = maxAge + 1
      BY <1>11, <2>2 DEF Tick, NoContext
    <3> QED BY <1>1, <2>1, <3>1 DEF Recent
  <2>3. CASE context.age < maxAge
    <3>1. context' = [read |-> [part \in Parts |-> context.read[part] + 1],
                      age  |-> context.age + 1]
      <4>1. ~(context.age >= maxAge)
        BY <1>1, <2>3
      <4> QED BY <1>11, <4>1 DEF Tick
    <3>2. ASSUME NEW part \in Parts PROVE context'.read[part] <= Oldest + context'.age
      <4>1. context.read[part] <= Oldest + context.age /\ context.read[part] \in Nat
        BY <1>1, <2>3 DEF Recent
      <4>2. context'.read[part] = context.read[part] + 1 /\ context'.age = context.age + 1
        BY <3>1
      <4> QED BY <1>1, <4>1, <4>2
    <3> QED BY <2>1, <3>2 DEF Recent
  <2> QED BY <1>1, <2>2, <2>3
<1>12. CASE \/ Start \/ Refresh \/ Stop
            \/ \E s \in Slots : Read(s) \/ FetchFails(s)
            \/ \E k \in bounds.keys : PrefetchAccount(k)
  BY <1>2, <1>12 DEF Start, Refresh, Stop, Read, FetchFails, PrefetchAccount
<1> QED BY <1>1, <1>6, <1>7, <1>8, <1>9, <1>10, <1>11, <1>12 DEF NextHot

\* The invariant of the cache is inductive.
LEMMA HotInit == InitHot => HotInv
<1> SUFFICES ASSUME InitHot PROVE HotInv
  OBVIOUS
<1> USE Numbers
<1>0. bounds \in Bounds
  BY DEF InitHot
<1>1. fetches \in [Slots -> FetchSet]
  BY <1>0 DEF InitHot, FetchSet, Free, Unread
<1>2. Empty \in Ages /\ Empty \in StateAges /\ Prompt(Empty)
  BY <1>0 DEF Empty, Ages, StateAges, Prompt
<1>3. currentData = Empty /\ states = [k \in Keys |-> Empty] /\ context = NoContext
  BY DEF InitHot
<1>4. NoContext \in [read : [Parts -> Nat], age : 0..maxAge + 1]
  BY <1>0 DEF NoContext
<1>5. HotTypeOK
  <2>1. generation \in 0..bounds.generations /\ sinceRefresh \in 0..blockhashRefreshInterval
    BY <1>0 DEF InitHot
  <2>2. isRunning \in BOOLEAN /\ {starting, prefetching} \subseteq Slots \cup {NoSlot}
    BY DEF InitHot
  <2>3. currentData \in Ages /\ states \in [Keys -> StateAges]
        /\ context \in [read : [Parts -> Nat], age : 0..maxAge + 1]
    BY <1>2, <1>3, <1>4
  <2> QED BY <1>0, <1>1, <2>1, <2>2, <2>3 DEF HotTypeOK, FetchSet
<1>6. \A s \in Slots : Question(fetches[s])
  BY DEF InitHot, Question
<1>7. OneLive
  BY DEF InitHot, OneLive, Live, Free
<1>8. NoContext.age = maxAge + 1
  BY DEF NoContext
<1>9. Recent
  BY <1>0, <1>2, <1>3, <1>8 DEF Recent
<1> QED BY <1>5, <1>6, <1>7, <1>9 DEF HotInv

\* Every step of the prefetching cache keeps its part of the invariant.
LEMMA HotStep == ASSUME HotInv, [NextHot]_hotVars PROVE HotInv'
<1>1. CASE NextHot
  BY <1>1, HotTypes, QuestionsKept, OneLiveKept, RecentKept DEF HotInv
<1>2. CASE UNCHANGED hotVars
  BY <1>2 DEF HotInv, HotTypeOK, OneLive, Live, Current, Recent, Prompt, Ages, StateAges,
              hotVars, timerVars, cacheVars
<1> QED BY <1>1, <1>2

\* What the cache serves is recent.
LEMMA HotServes == HotInv => ServedIsRecent
<1> SUFFICES ASSUME HotInv PROVE ServedIsRecent
  OBVIOUS
<1> USE Numbers
<1>1. bounds \in Bounds /\ currentData \in Ages /\ states \in [Keys -> StateAges]
      /\ context \in [read : [Parts -> Nat], age : 0..maxAge + 1] /\ Recent
  BY DEF HotInv, HotTypeOK
<1>2. ASSUME NEW v \in StateAges, Prompt(v), isFreshSince(v.fetched)
      PROVE  v.read \in 0..Oldest
  BY <1>1, <1>2 DEF StateAges, Prompt, isFreshSince
<1>3. isDataFresh => currentData.read <= Oldest
  <2>1. Ages \subseteq StateAges
    BY <1>1 DEF Ages, StateAges
  <2> QED BY <1>1, <1>2, <2>1 DEF isDataFresh, Recent
<1>4. \A k \in Keys : isFreshSince(states[k].fetched) => states[k].read \in 0..Oldest
  BY <1>1, <1>2 DEF Recent
<1>5. ASSUME NEW part \in Parts, context.age <= maxAge
      PROVE context.read[part] \in 0..Oldest + maxAge
  <2>1. context.read[part] <= Oldest + context.age /\ context.read[part] \in Nat
    BY <1>1, <1>5 DEF Recent
  <2> QED BY <1>1, <1>5, <2>1
<1> QED BY <1>3, <1>4, <1>5 DEF ServedIsRecent

\* A step that replaces the cached blockhash puts in a later one, while somebody
\* runs the cache.
LEMMA HotForward ==
    ASSUME HotInv, [NextHot]_hotVars, currentData' # currentData, currentData'.fetched = 0
    PROVE (isRunning \/ starting # NoSlot) /\ currentData'.read <= currentData.read
<1> USE Numbers
<1>1. bounds \in Bounds /\ currentData \in Ages
  BY DEF HotInv, HotTypeOK
<1>2. CASE Tick
  <2>1. currentData'.fetched = Older(currentData.fetched, cacheTtl + 1)
    <3>1. currentData' = Aged(currentData)
      BY <1>2 DEF Tick
    <3> QED BY <3>1 DEF Aged
  <2>2. currentData.fetched \in Nat
    BY <1>1 DEF Ages
  <2>3. currentData'.fetched # 0
    BY <1>1, <2>1, <2>2 DEF Older
  <2> QED BY <2>3
<1>3. ASSUME NEW s \in Slots, BlockhashArrives(s)
      PROVE (isRunning \/ starting # NoSlot) /\ currentData'.read <= currentData.read
  <2>1. Live(s) /\ fetches[s].read # Unread /\ currentData'.read = fetches[s].read
    BY <1>3 DEF BlockhashArrives, Received, Live
  <2>2. s = prefetching /\ s # NoSlot
    BY <2>1, HotPathAssumption DEF HotInv, OneLive, NoSlot
  <2> QED BY <2>1, <2>2 DEF HotInv, OneLive
<1>4. CASE \/ UNCHANGED hotVars \/ Start \/ Refresh \/ Stop \/ CreateContext
           \/ \E s \in Slots : Read(s) \/ FetchFails(s) \/ AccountArrives(s)
           \/ \E k \in bounds.keys : \/ PrefetchAccount(k) \/ AddToContext(k)
                                     \/ \E age \in -clockAhead..cacheTtl + 1 : UpdateState(k, age)
  BY <1>4 DEF hotVars, Start, Refresh, Stop, CreateContext, Read, FetchFails, AccountArrives,
              PrefetchAccount, AddToContext, UpdateState, cacheVars
<1> QED BY <1>2, <1>3, <1>4 DEF NextHot

-----------------------------------------------------------------------------
(* Theorems about the transactions *)

\* The clients in some order are a sequence of them.
LEMMA ClientsInOrder == SetToSeq(Clients) \in Seq(Clients)
<1> DEFINE n == Cardinality(Clients)
<1>1. n \in Nat /\ ExistsBijection(1..n, Clients)
  BY FS_CardinalityType, ExecutorsAssumption
<1>2. \E f \in [1..n -> Clients] : IsInjective(f)
  BY <1>1 DEF ExistsBijection, Bijection, Injection
<1>3. SetToSeq(Clients) \in [1..n -> Clients]
  BY <1>2 DEF SetToSeq
<1> QED BY <1>1, <1>3, SeqDef

\* A client's place can be left out of a sequence of clients.
LEMMA RemoveAtType == ASSUME NEW q \in Seq(Clients), NEW i \in DOMAIN q
                      PROVE RemoveAt(q, i) \in Seq(Clients)
<1>1. i \in 1..Len(q) /\ Len(q) \in Nat
  OBVIOUS
<1>2. SubSeq(q, 1, i - 1) \in Seq(Clients)
  BY <1>1
<1>3. SubSeq(q, i + 1, Len(q)) \in Seq(Clients)
  BY <1>1
<1> QED BY <1>2, <1>3 DEF RemoveAt

\* A transaction that no step touches keeps what holds of it, whatever the chain
\* does with it.
LEMMA JobFrame ==
    ASSUME NEW j \in Jobs, JobInv(j), job'[j] = job[j], lane'[j] = lane[j],
           chain'[j] \in {chain[j], "confirmed"}
    PROVE JobInv(j)'
<1>1. Given(j)'
  BY DEF JobInv, Given
<1>2. Running(j)' = Running(j) /\ Racing(j)' = Racing(j) /\ Around(j)' = Around(j)
  BY DEF Running, Racing, Around
<1>3. Told(j)'
  BY DEF JobInv, Told, Signed
<1>4. job'[j].parallel = job[j].parallel
  OBVIOUS
<1> QED BY <1>1, <1>2, <1>3, <1>4 DEF JobInv

\* Given to the executor, a transaction is refused, or sent to the clients of the moment.
LEMMA ExecuteKept ==
    ASSUME NEW j \in Jobs, JobTypes, JobInv(j), NEW path \in {"trade", "hot"},
           NEW parallel \in BOOLEAN, NEW waits \in BOOLEAN, NEW skip \in BOOLEAN,
           waits => path = "trade", Execute(j, path, parallel, waits, skip)
    PROVE JobTypes' /\ JobInv(j)'
<1> DEFINE apart == parallel /\ (path = "trade" \/ Len(clients) > 1)
           given == [NewJob EXCEPT !.path = path, !.parallel = apart,
                                   !.waits = waits, !.order = clients]
           refused == [given EXCEPT !.answer = "refused"]
           first == [c \in Clients |-> IF IF apart THEN c \in ToSet(clients) ELSE c = clients[1]
                                       THEN "sent" ELSE "idle"]
<1>0. maxRetries \in Nat /\ maxRetries > 0 /\ Len(clients) \in Nat /\ clients \in Seq(Clients)
  BY ExecutorsAssumption DEF JobTypes
<1>1. given \in JobSet /\ refused \in JobSet
  <2> HIDE DEF apart
  <2>1. apart \in BOOLEAN
    BY DEF apart
  <2>2. 1 \in Nat \ {0} /\ 1 \in 1..maxRetries
    BY <1>0
  <2>3. <<>> \in Seq(Clients)
    OBVIOUS
  <2>4. NewJob \in JobSet
    BY <2>2, <2>3 DEF JobSet, NewJob
  <2>5. given \in JobSet
    BY <1>0, <2>1, <2>4 DEF JobSet
  <2> HIDE DEF given
  <2> QED BY <2>5 DEF JobSet
<1>6. given.order = clients /\ given.at = 1 /\ given.retry = 1 /\ given.answer = "none"
      /\ given.path = path
  <2> HIDE DEF apart
  <2> QED BY DEF NewJob
<1>7. (given.parallel <=> apart) /\ (given.waits <=> waits) /\ (refused.waits <=> waits)
  <2> HIDE DEF apart
  <2> QED BY DEF NewJob
<1>8. refused.order = clients /\ refused.at = 1 /\ refused.answer = "refused"
      /\ refused.path = path
  <2> HIDE DEF apart
  <2> QED BY DEF NewJob
<1>2. \A c \in Clients : lane[j][c] = "idle"
  BY DEF Execute, JobInv, Given
<1>3. UNCHANGED <<clients, chain>>
  BY DEF Execute
<1>4. CASE (path = "hot" /\ ~skip /\ ~isDataFresh) \/ clients = <<>>
  <2>1. job' = [job EXCEPT ![j] = refused] /\ lane' = lane
    BY <1>4 DEF Execute
  <2>2. JobTypes'
    <3> HIDE DEF refused
    <3> QED BY <1>1, <1>3, <2>1 DEF JobTypes
  <2>3. job'[j] = refused
    BY <2>1 DEF JobTypes
  <2> HIDE DEF refused
  <2> QED BY <1>0, <1>2, <1>7, <1>8, <2>1, <2>2, <2>3 DEF JobInv, Given, Running, Told
<1>5. CASE ~((path = "hot" /\ ~skip /\ ~isDataFresh) \/ clients = <<>>)
  <2>1. job' = [job EXCEPT ![j] = given] /\ lane' = [lane EXCEPT ![j] = first]
    BY <1>5 DEF Execute
  <2>2. JobTypes'
    <3>1. first \in [Clients -> LaneStates]
      BY DEF LaneStates
    <3> HIDE DEF first, given
    <3> QED BY <1>1, <1>3, <2>1, <3>1 DEF JobTypes
  <2>3. job'[j] = given /\ lane'[j] = first
    BY <2>1 DEF JobTypes
  <2>4. Given(j)' /\ Told(j)'
    <3>1. \A c \in Clients : first[c] # "won"
      OBVIOUS
    <3> HIDE DEF given, first
    <3> QED BY <1>0, <1>6, <1>7, <2>3, <3>1 DEF Given, Told
  <2>5. apart => Racing(j)'
    <3>1. ToSet(clients) \subseteq Clients
      BY <1>0 DEF ToSet
    <3>2. apart => \A c \in Clients : lane'[j][c] = IF c \in ToSet(clients) THEN "sent" ELSE "idle"
      BY <2>3
    <3>3. job'[j].order = clients
      BY <1>6, <2>3
    <3> QED BY <3>1, <3>2, <3>3 DEF Racing
  <2>6. ~apart => Around(j)'
    <3>1. 1 \in DOMAIN clients /\ clients[1] \in Clients
      BY <1>0, <1>5
    <3> SUFFICES ASSUME ~apart PROVE Around(j)'
      OBVIOUS
    <3>2. job'[j].at = 1 /\ job'[j].order = clients /\ job'[j].retry = 1
      BY <1>6, <2>3
    <3>3. \A c \in Clients : lane'[j][c] = IF c = clients[1] THEN "sent" ELSE "idle"
      BY <2>3
    <3>4. \A i \in DOMAIN clients : ~(i < 1)
      BY <1>0
    <3> QED BY <3>1, <3>2, <3>3, <3>4 DEF Around
  <2>7. job'[j].parallel <=> apart
    BY <1>7, <2>3
  <2> QED BY <2>2, <2>4, <2>5, <2>6, <2>7 DEF JobInv
<1> QED BY <1>4, <1>5

\* A lane that gets further leaves the answer honest.
LEMMA LaneKept ==
    ASSUME NEW j \in Jobs, JobTypes, JobInv(j), Running(j),
           NEW c \in Clients, lane[j][c] \in {"sent", "polling"},
           NEW state \in {"polling", "won", "unconfirmed", "failed"},
           state = "won" /\ job[j].waits => chain[j] = "confirmed",
           Lane(j, c, state), UNCHANGED <<clients, chain>>
    PROVE JobTypes' /\ JobInv(j)'
<1> DEFINE b == job[j]
           lanes == [lane[j] EXCEPT ![c] = state]
           next == Following(b)
           asked == b.order[next.at]
<1>0. maxRetries \in Nat /\ maxRetries > 0
  BY ExecutorsAssumption
<1>1. /\ b \in JobSet /\ lane[j] \in [Clients -> LaneStates]
      /\ b.order \in Seq(Clients) /\ Len(b.order) \in Nat /\ b.at \in Nat \ {0}
      /\ b.retry \in 1..maxRetries
  BY DEF JobTypes, JobSet
<1>2. lanes \in [Clients -> LaneStates]
      /\ \A d \in Clients : lanes[d] = IF d = c THEN state ELSE lane[j][d]
  BY <1>1 DEF LaneStates
<1>3. /\ b.path # "none" /\ b.answer = "none" /\ b.at <= Len(b.order) + 1
      /\ b.waits => b.path = "trade"
  BY DEF Running, JobInv, Given
<1>4. b.waits => \A d \in Clients : lanes[d] = "won" => chain[j] = "confirmed"
  BY <1>2 DEF JobInv, Given
\* The lanes and an answer are all that changes.
<1>5. ASSUME NEW answer \in {"none", "success", "unconfirmed", "failed"},
             lane' = [lane EXCEPT ![j] = lanes], job' = [job EXCEPT ![j].answer = answer]
      PROVE JobTypes' /\ Given(j)' /\ lane'[j] = lanes /\ job'[j] = [b EXCEPT !.answer = answer]
  <2>1. job'[j] = [b EXCEPT !.answer = answer] /\ lane'[j] = lanes
    BY <1>5 DEF JobTypes
  <2>2. [b EXCEPT !.answer = answer] \in JobSet
    BY <1>1 DEF JobSet
  <2>3. JobTypes'
    BY <1>2, <1>5, <2>2 DEF JobTypes
  <2>4. job'[j].path = b.path /\ job'[j].at = b.at /\ job'[j].order = b.order
        /\ job'[j].waits = b.waits
    BY <1>1, <2>1 DEF JobSet
  <2>5. Given(j)'
    BY <1>3, <1>4, <2>1, <2>4 DEF Given
  <2> QED BY <2>1, <2>3, <2>5
<1>6. CASE b.parallel
  <2>1. lane' = [lane EXCEPT ![j] = lanes] /\ job' = [job EXCEPT ![j].answer = Raced(lanes)]
    BY <1>6 DEF Lane
  <2>2. Raced(lanes) \in {"none", "success", "unconfirmed", "failed"}
    BY DEF Raced
  <2>3. /\ JobTypes' /\ Given(j)' /\ lane'[j] = lanes
        /\ job'[j] = [b EXCEPT !.answer = Raced(lanes)]
    BY <1>5, <2>1, <2>2
  <2>4. /\ job'[j].answer = Raced(lanes) /\ job'[j].parallel = b.parallel
        /\ job'[j].order = b.order /\ job'[j].waits = b.waits
    BY <1>1, <2>3 DEF JobSet
  <2>5. \A d \in ToSet(b.order) : d \in Clients /\ lanes[d] # "idle"
    <3>1. Racing(j)
      BY <1>6 DEF JobInv
    <3>2. ToSet(b.order) \subseteq Clients
      BY <1>1 DEF ToSet
    <3> QED BY <1>2, <3>1, <3>2 DEF Racing
  <2>6. Running(j)' => Racing(j)'
    <3>1. Raced(lanes) = "none" => \A d \in Clients : lanes[d] # "won"
      BY DEF Raced
    <3> QED BY <2>3, <2>4, <2>5, <3>1 DEF Running, Racing
  <2>7. Told(j)'
    <3>1. Raced(lanes) = "success" => \E d \in Clients : lanes[d] = "won"
      BY DEF Raced
    <3>2. Raced(lanes) = "failed" =>
              \A d \in Clients : lanes[d] \notin {"won", "sent", "polling", "unconfirmed"}
      BY DEF Raced
    <3>3. Raced(lanes) = "unconfirmed" =>
              /\ \E d \in Clients : lanes[d] = "unconfirmed"
              /\ \A d \in Clients : lanes[d] \notin {"won", "sent", "polling"}
      BY DEF Raced
    <3>4. \A d \in ToSet(b.order) : Raced(lanes) = "failed" => lanes[d] = "failed"
      BY <1>2, <2>5, <3>2 DEF LaneStates
    <3>5. Signed(j)' = {d \in Clients : lanes[d] \in {"polling", "won", "unconfirmed"}}
      BY <2>3 DEF Signed
    <3> HIDE DEF lanes, b
    <3> QED BY <1>4, <1>6, <2>3, <2>4, <3>1, <3>3, <3>4, <3>5 DEF Told
  <2> QED BY <1>6, <2>3, <2>4, <2>6, <2>7 DEF JobInv
<1>7. CASE ~b.parallel
  <2>1. Around(j) /\ b.at \in DOMAIN b.order
    BY <1>7 DEF JobInv, Around
  <2>2. c = b.order[b.at] /\ \A d \in Clients : d # c => lane[j][d] \in {"idle", "failed"}
    BY <2>1 DEF Around
  <2>3. CASE ~GoesOn(state)
    <3> DEFINE answer == CASE state = "won" -> "success" [] state = "polling" -> "none"
                           [] OTHER -> "unconfirmed"
    <3>1. lane' = [lane EXCEPT ![j] = lanes] /\ job' = [job EXCEPT ![j].answer = answer]
      BY <1>7, <2>3 DEF Lane
    <3>2. answer \in {"none", "success", "unconfirmed", "failed"}
      OBVIOUS
    <3> HIDE DEF answer
    <3>3. JobTypes' /\ Given(j)' /\ lane'[j] = lanes /\ job'[j] = [b EXCEPT !.answer = answer]
      BY <1>5, <3>1, <3>2
    <3>4. /\ job'[j].answer = answer /\ job'[j].parallel = b.parallel /\ job'[j].at = b.at
          /\ job'[j].order = b.order /\ job'[j].waits = b.waits /\ job'[j].retry = b.retry
      BY <1>1, <3>3 DEF JobSet
    <3>5. state # "failed"
      BY <2>3 DEF GoesOn
    <3>6. answer = "none" => Around(j)'
      <4> SUFFICES ASSUME answer = "none" PROVE Around(j)'
        OBVIOUS
      <4>1. state = "polling"
        BY DEF answer
      <4>2. \A d \in Clients : lane'[j][d] = IF d = c THEN "polling" ELSE lane[j][d]
        BY <1>2, <3>3, <4>1
      <4>3. \A i \in DOMAIN b.order : b.order[i] \in Clients
        BY <1>1
      <4> HIDE DEF b, lanes
      <4> QED BY <2>1, <2>2, <3>4, <4>2, <4>3 DEF Around, b
    <3>7. Told(j)'
      <4>1. state \in {"won", "polling", "unconfirmed"}
        BY <3>5
      <4>2. lanes[c] = state /\ c \in Signed(j)'
        BY <1>2, <3>3, <4>1 DEF Signed
      <4>3. answer = "unconfirmed" => state = "unconfirmed"
        BY <4>1 DEF answer
      <4>4. answer = "success" => state = "won"
        BY <4>1 DEF answer
      <4>5. answer # "failed"
        BY DEF answer
      <4>6. answer = "unconfirmed" =>
                \A d \in Clients : lane'[j][d] \notin {"sent", "polling", "won"}
        BY <1>2, <2>2, <3>3, <4>3
      <4> QED BY <1>4, <3>3, <3>4, <4>2, <4>4, <4>5, <4>6 DEF Told
    <3> QED BY <1>7, <3>3, <3>4, <3>6, <3>7 DEF JobInv, Running
  <2>4. CASE GoesOn(state)
    <3>0. state = "failed"
      BY <2>4 DEF GoesOn
    <3>1. \A d \in Clients : lanes[d] \in {"idle", "failed"}
      BY <1>2, <2>2, <3>0
    <3>2. \A i \in DOMAIN b.order : b.order[i] \in Clients
      BY <1>1
    <3>3. \A i \in DOMAIN b.order : i <= b.at \/ b.retry > 1 => lanes[b.order[i]] = "failed"
      <4> SUFFICES ASSUME NEW i \in DOMAIN b.order, i <= b.at \/ b.retry > 1
                   PROVE lanes[b.order[i]] = "failed"
        OBVIOUS
      <4>1. CASE b.order[i] = c
        BY <1>2, <3>0, <4>1
      <4>2. CASE b.order[i] # c
        <5>1. i # b.at
          BY <2>2, <4>2
        <5>2. i < b.at \/ b.retry > 1
          BY <1>1, <5>1
        <5>3. lane[j][b.order[i]] = "failed"
          BY <2>1, <2>2, <4>2, <5>2 DEF Around
        <5> QED BY <1>2, <3>2, <4>2, <5>3
      <4> QED BY <4>1, <4>2
    <3>4. next = IF b.at < Len(b.order) THEN [at |-> b.at + 1, retry |-> b.retry]
                 ELSE [at |-> 1, retry |-> b.retry + 1]
      BY DEF Following
    <3>5. CASE next.retry > maxRetries
      <4>1. lane' = [lane EXCEPT ![j] = lanes] /\ job' = [job EXCEPT ![j].answer = "failed"]
        BY <1>7, <2>4, <3>5 DEF Lane
      <4>2. /\ JobTypes' /\ Given(j)' /\ lane'[j] = lanes
            /\ job'[j] = [b EXCEPT !.answer = "failed"]
        BY <1>5, <4>1
      <4>3. job'[j].answer = "failed" /\ job'[j].order = b.order /\ job'[j].retry = b.retry
        BY <1>1, <4>2 DEF JobSet
      <4>4. b.at >= Len(b.order) /\ b.retry = maxRetries
        BY <1>0, <1>1, <3>4, <3>5
      <4>5. \A i \in DOMAIN b.order : i <= b.at
        BY <1>1, <4>4
      <4>6. Told(j)'
        BY <3>3, <4>2, <4>3, <4>4, <4>5 DEF Told, ToSet
      <4> QED BY <4>2, <4>3, <4>6 DEF JobInv, Running
    <3>6. CASE ~(next.retry > maxRetries)
      <4>1. /\ lane' = [lane EXCEPT ![j] = [lanes EXCEPT ![asked] = "sent"]]
            /\ job' = [job EXCEPT ![j].at = next.at, ![j].retry = next.retry]
        BY <1>7, <2>4, <3>6 DEF Lane
      <4>2. next.at \in DOMAIN b.order /\ next.at \in Nat \ {0} /\ next.retry \in 1..maxRetries
        <5>1. CASE b.at < Len(b.order)
          BY <1>1, <2>1, <3>4, <5>1
        <5>2. CASE ~(b.at < Len(b.order))
          <6>1. next.at = 1 /\ next.retry = b.retry + 1
            BY <3>4, <5>2
          <6> HIDE DEF next
          <6> QED BY <1>0, <1>1, <2>1, <3>6, <6>1
        <5> QED BY <5>1, <5>2
      <4>3. asked \in Clients
        BY <3>2, <4>2
      <4>4. \A i \in DOMAIN b.order : i < next.at \/ next.retry > 1 => i <= b.at \/ b.retry > 1
                                                                      \/ b.at >= Len(b.order)
        BY <1>1, <3>4
      <4>5. \A i \in DOMAIN b.order : b.at >= Len(b.order) => i <= b.at
        BY <1>1
      <4> HIDE DEF next, asked, lanes
      <4>6. /\ lane'[j] = [lanes EXCEPT ![asked] = "sent"]
            /\ job'[j] = [b EXCEPT !.at = next.at, !.retry = next.retry]
        BY <4>1 DEF JobTypes
      <4>7. [b EXCEPT !.at = next.at, !.retry = next.retry] \in JobSet
        BY <1>1, <4>2 DEF JobSet
      <4>8. JobTypes'
        <5>1. [lanes EXCEPT ![asked] = "sent"] \in [Clients -> LaneStates]
          BY <1>2, <4>3 DEF LaneStates
        <5>2. job' = [job EXCEPT ![j] = [b EXCEPT !.at = next.at, !.retry = next.retry]]
          BY <4>1 DEF JobTypes
        <5> QED BY <4>1, <4>7, <5>1, <5>2 DEF JobTypes
      <4>9. /\ job'[j].order = b.order /\ job'[j].at = next.at /\ job'[j].retry = next.retry
            /\ job'[j].path = b.path /\ job'[j].answer = "none"
            /\ job'[j].parallel = b.parallel /\ job'[j].waits = b.waits
        BY <1>1, <1>3, <4>6 DEF JobSet
      <4>10. \A d \in Clients : lane'[j][d] = IF d = asked THEN "sent" ELSE lanes[d]
        BY <1>2, <4>3, <4>6
      <4>11. Given(j)'
        <5>1. \A d \in Clients : lane'[j][d] # "won"
          BY <3>1, <4>10
        <5>2. next.at <= Len(b.order) + 1
          BY <1>1, <4>2
        <5> QED BY <1>3, <4>9, <5>1, <5>2 DEF Given
      <4>12. Around(j)'
        <5>1. job'[j].order[job'[j].at] = asked
          BY <4>9 DEF asked
        <5>2. \A i \in DOMAIN b.order :
                  i < next.at \/ next.retry > 1 => lanes[b.order[i]] = "failed"
          BY <3>3, <4>4, <4>5
        <5> HIDE DEF b
        <5> QED BY <3>1, <3>2, <4>2, <4>3, <4>9, <4>10, <5>1, <5>2 DEF Around
      <4>13. Told(j)'
        BY <4>9 DEF Told
      <4> QED BY <1>7, <4>8, <4>9, <4>11, <4>12, <4>13 DEF JobInv
    <3> QED BY <3>5, <3>6
  <2> QED BY <2>3, <2>4
<1> QED BY <1>6, <1>7

\* The executors begin with every client idle.
LEMMA JobsInit == Init => JobTypes /\ \A j \in Jobs : JobInv(j)
<1> SUFFICES ASSUME Init PROVE JobTypes /\ \A j \in Jobs : JobInv(j)
  OBVIOUS
<1>1. maxRetries \in Nat /\ maxRetries > 0
  BY ExecutorsAssumption
<1>2. NewJob \in JobSet
  <2>1. 1 \in Nat \ {0} /\ 1 \in 1..maxRetries
    BY <1>1
  <2>2. <<>> \in Seq(Clients)
    OBVIOUS
  <2> QED BY <2>1, <2>2 DEF JobSet, NewJob
<1>3. /\ clients \in Seq(Clients) /\ job = [j \in Jobs |-> NewJob]
      /\ lane = [j \in Jobs |-> [c \in Clients |-> "idle"]] /\ chain = [j \in Jobs |-> "none"]
  BY ClientsInOrder DEF Init
<1>4. JobTypes
  BY <1>2, <1>3 DEF JobTypes, LaneStates
<1>5. NewJob.path = "none" /\ NewJob.answer = "none" /\ NewJob.order = <<>> /\ NewJob.at = 1
      /\ ~NewJob.waits
  BY DEF NewJob
<1>6. ASSUME NEW j \in Jobs PROVE JobInv(j)
  <2>1. job[j] = NewJob /\ \A c \in Clients : lane[j][c] = "idle"
    BY <1>3
  <2>2. Len(<<>>) = 0
    OBVIOUS
  <2> QED BY <1>5, <2>1, <2>2 DEF JobInv, Given, Running, Told
<1> QED BY <1>4, <1>6

\* An action of one transaction leaves the others alone.
LEMMA OthersKept ==
    ASSUME JobTypes, \A j \in Jobs : JobInv(j), NEW j \in Jobs, JobTypes' /\ JobInv(j)',
           \A i \in Jobs \ {j} : job'[i] = job[i] /\ lane'[i] = lane[i] /\ chain'[i] = chain[i]
    PROVE \A i \in Jobs : JobInv(i)'
BY JobFrame

\* What Lane changes is of its transaction only.
LEMMA LaneFrame ==
    ASSUME JobTypes, NEW j \in Jobs, NEW c \in Clients, NEW state, Lane(j, c, state)
    PROVE \A i \in Jobs \ {j} : job'[i] = job[i] /\ lane'[i] = lane[i]
<1>1. job \in [Jobs -> JobSet] /\ lane \in [Jobs -> [Clients -> LaneStates]]
  BY DEF JobTypes
<1>2. CASE job[j].parallel
  BY <1>1, <1>2 DEF Lane
<1>3. CASE ~job[j].parallel /\ ~GoesOn(state)
  BY <1>1, <1>3 DEF Lane
<1>4. CASE ~job[j].parallel /\ GoesOn(state)
  BY <1>1, <1>4 DEF Lane
<1> QED BY <1>2, <1>3, <1>4

\* The four ways in which a lane gets further.
Answered(j, c) ==
    \E state \in {"polling", "won", "unconfirmed", "failed"} :
       /\ Running(j) /\ lane[j][c] \in {"sent", "polling"}
       /\ state = "failed" => lane[j][c] = "sent"
       /\ state = "won" /\ job[j].waits => chain[j] = "confirmed"
       /\ Lane(j, c, state)
       /\ UNCHANGED <<hotVars, clients, chain>>

\* Only a trade waits for its confirmation, so that what won was confirmed.
LEMMA AnswersLanes ==
    ASSUME NEW j \in Jobs, NEW c \in Clients, job[j].waits => job[j].path = "trade",
           Acknowledge(j, c) \/ Fail(j, c) \/ Confirmed(j, c) \/ NotConfirmed(j, c)
    PROVE Answered(j, c)
<1>1. CASE Acknowledge(j, c)
  <2>1. CASE job[j].path = "trade" /\ job[j].waits
    <3>1. Lane(j, c, "polling")
      BY <1>1, <2>1 DEF Acknowledge
    <3> QED BY <1>1, <3>1 DEF Acknowledge, Answered
  <2>2. CASE ~(job[j].path = "trade" /\ job[j].waits)
    <3>1. Lane(j, c, "won")
      BY <1>1, <2>2 DEF Acknowledge
    <3> QED BY <1>1, <2>2, <3>1 DEF Acknowledge, Answered
  <2> QED BY <2>1, <2>2
<1>2. CASE Fail(j, c)
  BY <1>2 DEF Fail, Answered
<1>3. CASE Confirmed(j, c)
  BY <1>3 DEF Confirmed, Answered
<1>4. CASE NotConfirmed(j, c)
  BY <1>4 DEF NotConfirmed, Answered
<1> QED BY <1>1, <1>2, <1>3, <1>4

\* The invariant holds at the start.
LEMMA Inits == Init => IInv
BY HotInit, JobsInit DEF Init, IInv

\* Every step keeps it.
LEMMA Steps == IInv /\ [Next]_vars => IInv'
<1> SUFFICES ASSUME IInv, [Next]_vars PROVE IInv'
  OBVIOUS
<1>1. HotInv /\ JobTypes /\ \A j \in Jobs : JobInv(j)
  BY DEF IInv
<1>2. ASSUME UNCHANGED hotVars PROVE HotInv'
  BY <1>1, <1>2, HotStep
<1>3. ASSUME UNCHANGED <<job, lane, chain>>, clients' \in Seq(Clients)
      PROVE JobTypes' /\ \A j \in Jobs : JobInv(j)'
  <2>1. JobTypes'
    BY <1>1, <1>3 DEF JobTypes
  <2>2. \A j \in Jobs : JobInv(j)'
    BY <1>1, <1>3, JobFrame
  <2> QED BY <2>1, <2>2
<1>4. CASE UNCHANGED vars
  <2>1. UNCHANGED hotVars /\ UNCHANGED jobVars
    BY <1>4 DEF vars
  <2> QED BY <1>1, <1>2, <1>3, <2>1 DEF IInv, JobTypes, jobVars
<1>5. CASE NextHot /\ UNCHANGED jobVars
  <2>1. HotInv'
    BY <1>1, <1>5, HotStep
  <2> QED BY <1>1, <1>3, <1>5, <2>1 DEF IInv, JobTypes, jobVars
<1>6. ASSUME NEW c \in Clients, AddClient(c) PROVE IInv'
  <2>1. UNCHANGED hotVars /\ UNCHANGED <<job, lane, chain>>
    BY <1>6 DEF AddClient
  <2>2. clients' \in Seq(Clients)
    BY <1>1, <1>6 DEF AddClient, JobTypes
  <2> QED BY <1>2, <1>3, <2>1, <2>2 DEF IInv
<1>7. ASSUME NEW c \in Clients, RemoveClient(c) PROVE IInv'
  <2>1. UNCHANGED hotVars /\ UNCHANGED <<job, lane, chain>>
    BY <1>7 DEF RemoveClient
  <2>2. clients' \in Seq(Clients)
    BY <1>1, <1>7, RemoveAtType DEF RemoveClient, JobTypes
  <2> QED BY <1>2, <1>3, <2>1, <2>2 DEF IInv
<1>8. ASSUME NEW j \in Jobs, NEW path \in {"trade", "hot"}, NEW parallel \in BOOLEAN,
             NEW waits \in BOOLEAN, NEW skip \in BOOLEAN, waits => path = "trade",
             Execute(j, path, parallel, waits, skip)
      PROVE IInv'
  <2>1. JobTypes' /\ JobInv(j)'
    BY <1>1, <1>8, ExecuteKept
  <2>2. \A i \in Jobs \ {j} : job'[i] = job[i] /\ lane'[i] = lane[i] /\ chain'[i] = chain[i]
    BY <1>1, <1>8 DEF Execute, JobTypes
  <2>3. \A i \in Jobs : JobInv(i)'
    BY <1>1, <2>1, <2>2, OthersKept
  <2>4. UNCHANGED hotVars
    BY <1>8 DEF Execute
  <2> QED BY <1>2, <2>1, <2>3, <2>4 DEF IInv
<1>9. ASSUME NEW j \in Jobs, NEW c \in Clients,
             Acknowledge(j, c) \/ Fail(j, c) \/ Confirmed(j, c) \/ NotConfirmed(j, c)
      PROVE IInv'
  <2>1. PICK state \in {"polling", "won", "unconfirmed", "failed"} :
           /\ Running(j) /\ lane[j][c] \in {"sent", "polling"}
           /\ state = "won" /\ job[j].waits => chain[j] = "confirmed"
           /\ Lane(j, c, state)
           /\ UNCHANGED <<hotVars, clients, chain>>
    <3>1. job[j].waits => job[j].path = "trade"
      BY <1>1 DEF JobInv, Given
    <3> QED BY <1>9, <3>1, AnswersLanes DEF Answered
  <2>2. JobTypes' /\ JobInv(j)'
    BY <1>1, <2>1, LaneKept
  <2>3. \A i \in Jobs \ {j} : job'[i] = job[i] /\ lane'[i] = lane[i] /\ chain'[i] = chain[i]
    BY <1>1, <2>1, LaneFrame
  <2>4. \A i \in Jobs : JobInv(i)'
    BY <1>1, <2>2, <2>3, OthersKept
  <2> QED BY <1>2, <2>1, <2>2, <2>4 DEF IInv
<1>10. ASSUME NEW j \in Jobs, Land(j) PROVE IInv'
  <2>1. /\ UNCHANGED <<hotVars, clients, job, lane>>
        /\ chain' = [chain EXCEPT ![j] = "confirmed"]
    BY <1>10 DEF Land
  <2>2. JobTypes'
    BY <1>1, <2>1 DEF JobTypes
  <2>3. \A i \in Jobs : chain'[i] \in {chain[i], "confirmed"}
    BY <1>1, <2>1 DEF JobTypes
  <2>4. \A i \in Jobs : JobInv(i)'
    BY <1>1, <2>1, <2>3, JobFrame
  <2> QED BY <1>2, <2>1, <2>2, <2>4 DEF IInv
<1>11. CASE Next
  <2>1. ASSUME NEW j \in Jobs, NEW parallel \in BOOLEAN, NEW waits \in BOOLEAN,
               Execute(j, "trade", parallel, waits, TRUE)
        PROVE IInv'
    BY <1>8, <2>1
  <2>2. ASSUME NEW j \in Jobs, NEW parallel \in BOOLEAN, NEW skip \in BOOLEAN,
               Execute(j, "hot", parallel, FALSE, skip)
        PROVE IInv'
    BY <1>8, <2>2
  <2> QED BY <1>5, <1>6, <1>7, <1>9, <1>10, <1>11, <2>1, <2>2 DEF Next
<1> QED BY <1>4, <1>11

\* The inductive invariant: what each question, cached value, lane and answer is.
THEOREM ExecutorsInvariant == Spec => []IInv
<1>1. Init => IInv
  BY Inits
<1>2. IInv /\ [Next]_vars => IInv'
  BY Steps
<1> QED BY <1>1, <1>2, PTL DEF Spec

\* HotPathState.isDataFresh and getBlockhash: what is served as fresh was read from
\* the chain at most a prefetch timeout and a time to live ago.
THEOREM CacheServesRecent == Spec => []ServedIsRecent
<1>1. IInv => ServedIsRecent
  BY HotServes DEF IInv
<1> QED BY <1>1, ExecutorsInvariant, PTL

\* prefetchBlockhash: the cached blockhash is replaced by later ones only, and by none
\* that was asked for before a stop().
THEOREM CachedBlockhashOnlyForward == Spec => BlockhashOnlyForward
<1> DEFINE Forward ==
        currentData' # currentData /\ currentData'.fetched = 0
           => /\ isRunning \/ starting # NoSlot
              /\ currentData'.read <= currentData.read
<1>1. IInv /\ [Next]_vars => [Forward]_hotVars
  <2> SUFFICES ASSUME IInv, [Next]_vars PROVE [Forward]_hotVars
    OBVIOUS
  <2>1. HotInv
    BY Zenon DEF IInv
  <2>2. [NextHot]_hotVars
    BY DEF Next, vars, AddClient, RemoveClient, Execute, Acknowledge, Fail, Confirmed,
           NotConfirmed, Land
  <2> QED BY <2>1, <2>2, HotForward
<1> QED BY <1>1, ExecutorsInvariant, PTL DEF Spec, BlockhashOnlyForward

\* The answers of execute in both executors: a success was signed, and confirmed when
\* the trade waited; a failure left nobody who could still make it a success.
THEOREM ExecutorsAnswerHonestly == Spec => []HonestAnswer
<1>1. IInv => HonestAnswer
  <2> SUFFICES ASSUME IInv PROVE HonestAnswer
    OBVIOUS
  <2>1. HotInv /\ JobTypes /\ \A j \in Jobs : Given(j) /\ Told(j)
    BY DEF IInv, JobInv
  <2>2. ASSUME NEW j \in Jobs
        PROVE /\ job[j].path \in {"none", "trade", "hot"}
              /\ job[j].answer \in {"none", "refused", "success", "unconfirmed", "failed"}
              /\ job[j].at \in 1..Len(job[j].order) + 1 /\ job[j].retry \in 1..maxRetries
    <3>1. job[j] \in JobSet /\ job[j].at <= Len(job[j].order) + 1
      BY <2>1 DEF JobTypes, Given
    <3>2. job[j].order \in Seq(Clients) /\ job[j].at \in Nat \ {0}
      BY <3>1 DEF JobSet
    <3>3. Len(job[j].order) \in Nat
      BY <3>2
    <3> QED BY <3>1, <3>2, <3>3 DEF JobSet
  <2>3. TypeOK
    BY <2>1, <2>2 DEF TypeOK, HotInv, JobTypes, LaneStates
  <2> QED BY <2>1, <2>3 DEF HonestAnswer, Told
<1> QED BY <1>1, ExecutorsInvariant, PTL

\* executeSequential and executeParallel: no client is asked to submit a transaction
\* for which another has given a signature in time.
THEOREM NobodyAskedAfterSignature == Spec => NothingAfterSignature
<1> DEFINE Asks == \A j \in Jobs, c \in Clients :
                      lane[j][c] # "sent" /\ lane'[j][c] = "sent" => Signed(j) = {}
<1>1. IInv /\ [Next]_vars => [Asks]_vars
  <2> SUFFICES ASSUME IInv, Next, NEW j \in Jobs, NEW c \in Clients,
                      lane[j][c] # "sent", lane'[j][c] = "sent"
               PROVE Signed(j) = {}
    BY DEF Asks
  <2>1. JobTypes /\ JobInv(j)
    BY DEF IInv
  <2>2. ASSUME lane'[j] = lane[j] PROVE FALSE
    BY <2>2
  <2>3. ASSUME NEW i \in Jobs, NEW path \in {"trade", "hot"}, NEW parallel \in BOOLEAN,
               NEW waits \in BOOLEAN, NEW skip \in BOOLEAN,
               Execute(i, path, parallel, waits, skip)
        PROVE Signed(j) = {}
    <3>1. i = j
      BY <2>1, <2>2, <2>3 DEF Execute, JobTypes
    <3>2. job[j].path = "none"
      BY <2>3, <3>1 DEF Execute
    <3> QED BY <2>1, <3>2 DEF JobInv, Given, Signed
  <2>4. ASSUME NEW i \in Jobs, NEW d \in Clients,
               Acknowledge(i, d) \/ Fail(i, d) \/ Confirmed(i, d) \/ NotConfirmed(i, d)
        PROVE Signed(j) = {}
    <3>1. JobInv(i) /\ (job[i].waits => job[i].path = "trade")
      BY DEF IInv, JobInv, Given
    <3>2. PICK state \in {"polling", "won", "unconfirmed", "failed"} :
             /\ Running(i) /\ lane[i][d] \in {"sent", "polling"}
             /\ state = "failed" => lane[i][d] = "sent"
             /\ Lane(i, d, state)
      BY <2>4, <3>1, AnswersLanes DEF Answered
    <3>3. i = j
      BY <2>1, <2>2, <3>2, LaneFrame
    <3>4. lane[j] \in [Clients -> LaneStates]
      BY <2>1 DEF JobTypes
    <3>5. [lane[j] EXCEPT ![d] = state][c] # "sent"
      BY <3>2, <3>4
    <3>6. lane' # [lane EXCEPT ![j] = [lane[j] EXCEPT ![d] = state]]
      BY <2>1, <3>5 DEF JobTypes
    <3>7. ~job[j].parallel /\ GoesOn(state)
      BY <3>2, <3>3, <3>6 DEF Lane
    <3>8. lane[j][d] = "sent" /\ Around(j)
      BY <2>1, <3>2, <3>3, <3>7 DEF GoesOn, JobInv
    <3>9. \A e \in Clients : e # d => lane[j][e] \in {"idle", "failed"}
      BY <3>8 DEF Around
    <3> QED BY <3>8, <3>9 DEF Signed
  <2>5. CASE \/ NextHot /\ UNCHANGED jobVars
             \/ \E e \in Clients : AddClient(e) \/ RemoveClient(e)
             \/ \E i \in Jobs : Land(i)
    BY <2>2, <2>5 DEF jobVars, AddClient, RemoveClient, Land
  <2>6. ASSUME NEW i \in Jobs, NEW parallel \in BOOLEAN, NEW waits \in BOOLEAN,
               Execute(i, "trade", parallel, waits, TRUE)
        PROVE Signed(j) = {}
    BY <2>3, <2>6
  <2>7. ASSUME NEW i \in Jobs, NEW parallel \in BOOLEAN, NEW skip \in BOOLEAN,
               Execute(i, "hot", parallel, FALSE, skip)
        PROVE Signed(j) = {}
    BY <2>3, <2>7
  <2> QED BY <2>4, <2>5, <2>6, <2>7 DEF Next
<1> QED BY <1>1, ExecutorsInvariant, PTL DEF Spec, NothingAfterSignature
=============================================================================
