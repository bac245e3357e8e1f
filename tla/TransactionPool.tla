-------------------------- MODULE TransactionPool --------------------------
(***************************************************************************)
(* TransactionPool (src/trading/core/transaction-pool.ts): a bounded queue *)
(* of transactions ordered by a priority score, a poll timer that starts   *)
(* them while slots are free, one asynchronous pass over the providers per *)
(* attempt, retries, expiry and cancellation.                              *)
(*                                                                         *)
(* The status Processing is left out: it is Submitted before the first     *)
(* await.  Listeners and statistics change nothing the pool reads.         *)
(***************************************************************************)
EXTENDS Naturals, Sequences, FiniteSets, SequencesExt

CONSTANTS Txs,            \* the transactions callers submit, each once
          Priority,       \* the priority each is submitted with
          Boost,          \* config.enablePriorityBoost
          NProviders,     \* providers a pass goes through
          MaxConcurrent, MaxQueueSize, MaxAttempts

ASSUME PoolAssumption ==
    /\ Priority \in [Txs -> 0..4] /\ Boost \in BOOLEAN
    /\ NProviders \in Nat \ {0} /\ MaxConcurrent \in Nat /\ MaxQueueSize \in Nat
    /\ MaxAttempts \in Nat \ {0}

VARIABLES isRunning,   \* the poll timer is set
          queue, processing, completed,
          status, attempts,
          age,         \* time since queuedAt: 0, past the boost delay, past maxQueueTimeMs
          at,          \* the provider a pass waits for, 0 outside a pass
          passes       \* history: passes started

vars == <<isRunning, queue, processing, completed, status, attempts, age, at, passes>>

Terminal == {"Confirmed", "Failed", "Expired", "Cancelled"}
Statuses == {"None", "Queued", "Submitted"} \cup Terminal

------------------------------------------------------------------------------
(* The order of the queue *)

Base == [p \in 0..4 |-> CASE p = 0 -> 1000 [] p = 1 -> 500 [] p = 2 -> 100
                          [] p = 3 -> 50   [] p = 4 -> 10]

\* PriorityCalculator: the age bonus at its maximum, 5 for every failed attempt,
\* 50 close to expiry.
Score(t, tried) ==
    Base[Priority[t]] + (IF Boost /\ age[t] > 0 THEN 200 ELSE 0)
        + 5 * tried[t] + (IF age[t] = 2 THEN 50 ELSE 0)

\* Only the order of arrival.
SortedBug(q, tried) == q

\* sortQueue: by falling score, equal scores in their old order.  Positions are
\* only set here, so later ageing does not move a transaction.
Sorted(q, tried) ==
    LET Before(i, j) == \/ Score(q[i], tried) > Score(q[j], tried)
                        \/ Score(q[i], tried) = Score(q[j], tried) /\ i < j
        Place(i) == Cardinality({j \in DOMAIN q : Before(j, i)}) + 1
    IN [k \in DOMAIN q |-> q[CHOOSE i \in DOMAIN q : Place(i) = k]]

\* What filter and splice leave of q: its transactions that are not in S, in order.
Without(q, S) ==
    LET kept == {i \in DOMAIN q : q[i] \notin S}
        Place(i) == Cardinality({j \in kept : j < i}) + 1
    IN [k \in 1..Cardinality(kept) |-> q[CHOOSE i \in kept : Place(i) = k]]

Init ==
    /\ isRunning \in BOOLEAN
    /\ queue = <<>> /\ processing = {} /\ completed = {}
    /\ status = [t \in Txs |-> "None"]
    /\ attempts = [t \in Txs |-> 0] /\ age = [t \in Txs |-> 0]
    /\ at = [t \in Txs |-> 0] /\ passes = [t \in Txs |-> 0]

------------------------------------------------------------------------------
(* The caller *)

\* submit(); a full queue throws and changes nothing.
Submit(t) ==
    /\ status[t] = "None" /\ Len(queue) < MaxQueueSize
    /\ status' = [status EXCEPT ![t] = "Queued"]
    /\ queue' = Sorted(Append(queue, t), attempts)
    /\ UNCHANGED <<isRunning, processing, completed, attempts, age, at, passes>>

\* The transaction is marked, and still in the queue.
CancelBug(t) ==
    /\ t \in ToSet(queue)
    /\ status' = [status EXCEPT ![t] = "Cancelled"]
    /\ completed' = completed \cup {t}
    /\ UNCHANGED <<isRunning, queue, processing, attempts, age, at, passes>>

\* cancel(): from the queue only, and without a look at `processing`.
Cancel(t) ==
    /\ t \in ToSet(queue)
    /\ queue' = Without(queue, {t})
    /\ status' = [status EXCEPT ![t] = "Cancelled"]
    /\ completed' = completed \cup {t}
    /\ UNCHANGED <<isRunning, processing, attempts, age, at, passes>>

\* start() and stop(); what is under way goes on.
StartStop ==
    /\ isRunning' = ~isRunning
    /\ UNCHANGED <<queue, processing, completed, status, attempts, age, at, passes>>

\* clearCompleted(): by the time stamps a pass leaves, so what was never started
\* is never cleared.
ClearCompleted ==
    /\ \E old \in SUBSET {t \in completed : passes[t] > 0} :
         old # {} /\ completed' = completed \ old
    /\ UNCHANGED <<isRunning, queue, processing, status, attempts, age, at, passes>>

------------------------------------------------------------------------------
(* The poll timer: processQueue *)

ExpiredBug == {}
Expired == {t \in ToSet(queue) : age[t] = 2}

\* How many the loop starts: a retried transaction is in `processing` already.
Slots(q) ==
    CHOOSE n \in 0..Len(q) :
        /\ \A m \in 0..(n-1) : Cardinality(processing \cup ToSet(SubSeq(q, 1, m))) < MaxConcurrent
        /\ n = Len(q) \/ Cardinality(processing \cup ToSet(SubSeq(q, 1, n))) >= MaxConcurrent

\* removeExpired, then a pass is started for the head of the queue while a slot
\* is free.
ProcessQueue ==
    /\ isRunning
    /\ LET waiting == Without(queue, Expired)
           n       == Slots(waiting)
           started == ToSet(SubSeq(waiting, 1, n))
       IN /\ queue' = SubSeq(waiting, n + 1, Len(waiting))
          /\ processing' = processing \cup started
          /\ completed' = completed \cup Expired
          /\ status' = [t \in Txs |-> IF t \in Expired THEN "Expired"
                                      ELSE IF t \in started THEN "Submitted" ELSE status[t]]
          /\ at' = [t \in Txs |-> IF t \in started THEN 1 ELSE at[t]]
          /\ passes' = [t \in Txs |-> IF t \in started THEN passes[t] + 1 ELSE passes[t]]
    /\ UNCHANGED <<isRunning, attempts, age>>

------------------------------------------------------------------------------
(* A pass: processTransaction and submitTransaction *)

PassEnds(t, how) ==
    /\ at' = [at EXCEPT ![t] = 0]
    /\ status' = [status EXCEPT ![t] = how]
    /\ UNCHANGED <<isRunning, age, passes>>

Completes(t) ==
    /\ processing' = processing \ {t}
    /\ completed' = completed \cup {t}
    /\ UNCHANGED queue

\* The provider acknowledges: the pool calls this Confirmed.
Acknowledged(t) ==
    /\ at[t] > 0
    /\ PassEnds(t, "Confirmed")
    /\ Completes(t)
    /\ UNCHANGED attempts

\* The provider fails, and the pass goes on to the next one.
NextProvider(t) ==
    /\ at[t] > 0 /\ at[t] < NProviders
    /\ at' = [at EXCEPT ![t] = at[t] + 1]
    /\ UNCHANGED <<isRunning, queue, processing, completed, status, attempts, age, passes>>

LastAttempt(t) == attempts[t] + 1 >= MaxAttempts

\* The last provider failed.
GiveUp(t) ==
    /\ at[t] = NProviders /\ LastAttempt(t)
    /\ attempts' = [attempts EXCEPT ![t] = attempts[t] + 1]
    /\ PassEnds(t, "Failed")
    /\ Completes(t)

\* The slot is given back, and the transaction is nowhere.
RequeueBug(t) ==
    /\ at[t] = NProviders /\ ~LastAttempt(t)
    /\ attempts' = [attempts EXCEPT ![t] = attempts[t] + 1]
    /\ PassEnds(t, "Queued")
    /\ processing' = processing \ {t}
    /\ UNCHANGED <<queue, completed>>

\* A retry: back in the queue, whatever its size, and still in `processing`.
Requeue(t) ==
    /\ at[t] = NProviders /\ ~LastAttempt(t)
    /\ attempts' = [attempts EXCEPT ![t] = attempts[t] + 1]
    /\ PassEnds(t, "Queued")
    /\ queue' = Sorted(Append(queue, t), attempts')
    /\ UNCHANGED <<processing, completed>>

\* Time passes.
Ages(t) ==
    /\ status[t] \in Statuses \ ({"None"} \cup Terminal) /\ age[t] < 2
    /\ age' = [age EXCEPT ![t] = age[t] + 1]
    /\ UNCHANGED <<isRunning, queue, processing, completed, status, attempts, at, passes>>

Next ==
    \/ \E t \in Txs :
         \/ Submit(t) \/ Cancel(t) \/ Ages(t)
         \/ Acknowledged(t) \/ NextProvider(t) \/ GiveUp(t) \/ Requeue(t)
    \/ StartStop \/ ClearCompleted \/ ProcessQueue

Spec == Init /\ [][Next]_vars

\* The timer ticks while it is set, time passes, and every provider answers.
Fairness ==
    /\ WF_vars(ProcessQueue) /\ WF_vars(\E t \in Txs : Ages(t))
    /\ \A t \in Txs : WF_vars(Acknowledged(t) \/ NextProvider(t) \/ GiveUp(t) \/ Requeue(t))

FairSpec == Spec /\ Fairness

------------------------------------------------------------------------------
(* Properties *)

\* Types of the pool's state; a transaction is in the queue at most once.
TypeOK ==
    /\ isRunning \in BOOLEAN
    /\ queue \in Seq(Txs) /\ IsInjective(queue)
    /\ processing \subseteq Txs /\ completed \subseteq Txs
    /\ status \in [Txs -> Statuses]
    /\ attempts \in [Txs -> 0..MaxAttempts] /\ age \in [Txs -> 0..2]
    /\ at \in [Txs -> 0..NProviders] /\ passes \in [Txs -> Nat]

\* A transaction is never in two passes at once, is not waiting in the queue
\* while it is in one, and no provider is asked more than MaxAttempts times.
OnePassAtATime ==
    \A t \in Txs :
        /\ passes[t] = attempts[t] + (IF at[t] > 0 \/ status[t] = "Confirmed" THEN 1 ELSE 0)
        /\ at[t] > 0 => t \notin ToSet(queue)
        /\ passes[t] <= MaxAttempts

\* At most MaxConcurrent passes at once; retries overfill the queue, but never by
\* more than MaxConcurrent.
PoolBounded ==
    /\ Cardinality({t \in Txs : at[t] > 0}) <= MaxConcurrent
    /\ Len(queue) <= MaxQueueSize + MaxConcurrent

\* An accepted transaction is waiting, or in a pass, or has ended, and the pool
\* forgets only ended ones: retries, expiries and cancellations neither lose one nor
\* start it twice, nor take the pool over its bounds.
NothingLost ==
    /\ TypeOK /\ OnePassAtATime /\ PoolBounded
    /\ \A t \in Txs :
         /\ status[t] = "Queued" <=> t \in ToSet(queue)
         /\ status[t] = "Submitted" <=> at[t] > 0
         /\ at[t] > 0 => t \in processing
         /\ t \in completed => status[t] \in Terminal

\* What has ended stays as it ended, and is not sent again: no answer of a
\* provider takes back a cancellation or an expiry.
EndsForGood ==
    [][\A t \in Txs : status[t] \in Terminal => status'[t] = status[t] /\ at'[t] = 0]_vars

\* "Critical priority - process immediately": whatever its age and its retries,
\* nothing else is started before a Critical transaction that waits.
CriticalFirst ==
    [][\A t, u \in Txs :
           at[t] = 0 /\ at'[t] > 0 /\ u \in ToSet(queue') /\ Priority[u] = 0 => Priority[t] = 0]_vars

\* A pool that goes on running comes to rest: every transaction it accepted has ended.
Settles == <>[]isRunning => <>[](\A t \in Txs : status[t] \in Terminal \cup {"None"})
=============================================================================
