------------------------ MODULE ConfirmationMonitor ------------------------
(***************************************************************************)
(* ConfirmationMonitor (src/trading/core/confirmation-monitor.ts): callers *)
(* wait for signatures; a poll timer asks the RPC node about those that    *)
(* are monitored, without waiting for its earlier questions; every         *)
(* monitoring has a timeout of its own.                                    *)
(*                                                                         *)
(* An entry is one MonitoredSignature object.  A signature has one entry   *)
(* after the other, and the polls and the timer of an earlier entry may    *)
(* outlive it.  cleanupCompleted removes nothing: see Consistent.          *)
(***************************************************************************)
EXTENDS Naturals, Sequences

CONSTANTS Sigs,
          MaxEntries,   \* bound on the monitorings, over all signatures
          Asked,        \* the commitments callers ask for
          MaxPolls,     \* bound on the polls under way of two entries
          MaxRetries    \* config.maxRetries

ASSUME MonitorAssumption ==
    /\ MaxEntries \in Nat /\ MaxPolls \in Nat \ {0} /\ MaxRetries \in Nat \ {0}
    /\ Asked \subseteq {"Processed", "Confirmed", "Finalized"}

VARIABLES isRunning,
          monitored,   \* the entry of each monitored signature, 0 without one
          cache,       \* the status of the cached result of each signature
          entries,     \* MonitoredSignature objects made so far
          status, errors, aborted, waiting,
          polls,       \* how many polls of an entry are under way
          timer,       \* entries whose timeout is still to fire
          outcome,     \* what the callers who wait for an entry were given
          chain        \* the chain's view of each signature

entryVars == <<status, errors, aborted, waiting, outcome>>
vars == <<isRunning, monitored, cache, entries, entryVars, polls, timer, chain>>

Statuses == {"NotFound", "Processed", "Confirmed", "Finalized", "Failed", "TimedOut"}
Terminal == {"Finalized", "Failed", "TimedOut"}
Targets  == {"Processed", "Confirmed", "Finalized"}

\* isTargetReached's levels.
Level == [s \in Statuses |-> CASE s = "NotFound" -> 0 [] s = "Processed" -> 1
                               [] s = "Confirmed" -> 2 [] s = "Finalized" -> 3
                               [] s \in {"Failed", "TimedOut"} -> 4]

Ids == 1..MaxEntries
Made == DOMAIN entries
SigOf(e) == entries[e].sig

Init ==
    /\ isRunning \in BOOLEAN
    /\ monitored = [s \in Sigs |-> 0] /\ cache = [s \in Sigs |-> "NotFound"]
    /\ entries = <<>>
    /\ status = [e \in Ids |-> "NotFound"] /\ errors = [e \in Ids |-> 0]
    /\ aborted = {} /\ waiting = {}
    /\ polls = [e \in Ids |-> 0] /\ timer = {}
    /\ outcome = [e \in Ids |-> "NotFound"]
    /\ chain = [s \in Sigs |-> "NotFound"]

------------------------------------------------------------------------------
(* The caller *)

\* monitor() that makes an entry: the signature is not monitored, and either there
\* is no cached result or this call does not want one.  Starts the poll timer.
Monitor(s, target, enableCache) ==
    /\ enableCache => cache[s] = "NotFound"
    /\ monitored[s] = 0 /\ Len(entries) < MaxEntries
    /\ LET e == Len(entries) + 1 IN
       /\ entries' = Append(entries, [sig |-> s, target |-> target, cached |-> enableCache])
       /\ monitored' = [monitored EXCEPT ![s] = e]
       /\ waiting' = waiting \cup {e} /\ timer' = timer \cup {e}
    /\ isRunning' = TRUE
    /\ UNCHANGED <<cache, status, errors, aborted, outcome, polls, chain>>

\* The entry is given up, and nobody told.
CancelBug(s) ==
    /\ monitored[s] # 0
    /\ monitored' = [monitored EXCEPT ![s] = 0]
    /\ UNCHANGED <<isRunning, cache, entries, entryVars, polls, timer, chain>>

\* cancel(): the callers who wait are told nothing, and keep waiting.
Cancel(s) ==
    /\ monitored[s] # 0
    /\ aborted' = aborted \cup {monitored[s]}
    /\ monitored' = [monitored EXCEPT ![s] = 0]
    /\ UNCHANGED <<isRunning, cache, entries, status, errors, waiting, outcome, polls, timer, chain>>

Start ==
    /\ ~isRunning
    /\ isRunning' = TRUE
    /\ UNCHANGED <<monitored, cache, entries, entryVars, polls, timer, chain>>

Stop ==
    /\ isRunning
    /\ isRunning' = FALSE
    /\ aborted' = aborted \cup {monitored[s] : s \in {s \in Sigs : monitored[s] # 0}}
    /\ monitored' = [s \in Sigs |-> 0]
    /\ UNCHANGED <<cache, entries, status, errors, waiting, outcome, polls, timer, chain>>

\* getCachedResult and clearExpiredCache, once cacheTtlMs is over.
CacheExpires(s) ==
    /\ cache[s] # "NotFound"
    /\ cache' = [cache EXCEPT ![s] = "NotFound"]
    /\ UNCHANGED <<isRunning, monitored, entries, entryVars, polls, timer, chain>>

------------------------------------------------------------------------------
(* Polls and timeouts *)

\* updateStatus.
Report(e, st) == status' = [status EXCEPT ![e] = st]

\* updateStatus and completeMonitoring: the signature is not monitored any more,
\* also when a later entry of it is.
Complete(e, st) ==
    /\ Report(e, st)
    /\ cache' = IF entries[e].cached THEN [cache EXCEPT ![SigOf(e)] = st] ELSE cache
    /\ outcome' = IF e \in waiting THEN [outcome EXCEPT ![e] = st] ELSE outcome
    /\ waiting' = waiting \ {e}
    /\ monitored' = [monitored EXCEPT ![SigOf(e)] = 0]

\* pollAll starts a poll of a monitored signature.
Poll(s) ==
    /\ isRunning /\ monitored[s] # 0
    /\ \A e \in Ids : polls[e] + (IF e = monitored[s] THEN 0 ELSE polls[monitored[s]]) < MaxPolls
    /\ polls' = [polls EXCEPT ![monitored[s]] = @ + 1]
    /\ UNCHANGED <<isRunning, monitored, cache, entries, entryVars, timer, chain>>

PollEnds(e) == polls[e] > 0 /\ polls' = [polls EXCEPT ![e] = @ - 1]

\* What a node may answer: any view up to now, as answers come late and nodes lag.
Views(s) ==
    IF chain[s] = "Failed" THEN {"NotFound", "Failed"}
    ELSE {v \in Targets \cup {"NotFound"} : Level[v] <= Level[chain[s]]}

\* One level below the target is enough.
ReachedBug(e, seen) == seen = "Failed" \/ Level[seen] + 1 >= Level[entries[e].target]

\* An error ends the monitoring, and so does the target commitment.
Reached(e, seen) == seen = "Failed" \/ Level[seen] >= Level[entries[e].target]

\* A poll whose answer ends the monitoring.
PollCompletes(e) ==
    /\ PollEnds(e)
    /\ \E seen \in Views(SigOf(e)) : Reached(e, seen) /\ Complete(e, seen)
    /\ UNCHANGED <<isRunning, entries, errors, aborted, timer, chain>>

\* A poll that tells of progress, or takes it back.
PollReports(e) ==
    /\ PollEnds(e)
    /\ \E seen \in Views(SigOf(e)) : ~Reached(e, seen) /\ Report(e, seen)
    /\ UNCHANGED <<isRunning, monitored, cache, entries, errors, aborted, waiting, outcome, timer, chain>>

\* One failure more than maxRetries is allowed.
PollErrsBug(e) ==
    /\ PollEnds(e)
    /\ errors' = [errors EXCEPT ![e] = @ + 1]
    /\ IF errors'[e] > MaxRetries
       THEN Complete(e, "Failed")
       ELSE UNCHANGED <<status, cache, outcome, waiting, monitored>>
    /\ UNCHANGED <<isRunning, entries, aborted, timer, chain>>

\* A poll that rejects; the last one of maxRetries fails the monitoring.
PollErrs(e) ==
    /\ PollEnds(e)
    /\ errors' = [errors EXCEPT ![e] = @ + 1]
    /\ IF errors'[e] >= MaxRetries
       THEN Complete(e, "Failed")
       ELSE UNCHANGED <<status, cache, outcome, waiting, monitored>>
    /\ UNCHANGED <<isRunning, entries, aborted, timer, chain>>

\* The status says TimedOut, and the callers go on waiting.
TimeoutBug(e) ==
    /\ e \in timer
    /\ timer' = timer \ {e}
    /\ IF monitored[SigOf(e)] # 0 /\ status[e] \notin Terminal
       THEN Report(e, "TimedOut") ELSE UNCHANGED status
    /\ UNCHANGED <<isRunning, monitored, cache, entries, errors, aborted, waiting, outcome, polls, chain>>

\* setupTimeout's timer: it asks for the signature, not for its own entry.
Timeout(e) ==
    /\ e \in timer
    /\ timer' = timer \ {e}
    /\ IF monitored[SigOf(e)] # 0 /\ status[e] \notin Terminal
       THEN Complete(e, "TimedOut")
       ELSE UNCHANGED <<status, cache, outcome, waiting, monitored>>
    /\ UNCHANGED <<isRunning, entries, errors, aborted, polls, chain>>

------------------------------------------------------------------------------
\* The chain.
ChainAdvances(s) ==
    /\ \/ /\ chain[s] = "NotFound"
          /\ \E v \in {"Processed", "Failed"} : chain' = [chain EXCEPT ![s] = v]
       \/ /\ chain[s] \in {"Processed", "Confirmed"}
          /\ \E v \in Targets : /\ Level[v] = Level[chain[s]] + 1
                                /\ chain' = [chain EXCEPT ![s] = v]
    /\ UNCHANGED <<isRunning, monitored, cache, entries, entryVars, polls, timer>>

Next ==
    \/ \E s \in Sigs : \/ Cancel(s) \/ CacheExpires(s) \/ Poll(s) \/ ChainAdvances(s)
                       \/ \E target \in Asked, c \in BOOLEAN : Monitor(s, target, c)
    \/ Start \/ Stop
    \/ \E e \in Made : PollCompletes(e) \/ PollReports(e) \/ PollErrs(e) \/ Timeout(e)

Spec == Init /\ [][Next]_vars

\* Timeouts fire.  The node, the chain and the callers owe nothing.
Fairness == \A e \in Ids : WF_vars(e \in Made /\ Timeout(e))

FairSpec == Spec /\ Fairness

------------------------------------------------------------------------------
(* Properties *)

\* Types of the monitor's state, with the bound on failed polls: once maxRetries
\* failed, only those already under way can.
TypeOK ==
    /\ isRunning \in BOOLEAN
    /\ monitored \in [Sigs -> 0..MaxEntries] /\ cache \in [Sigs -> Statuses]
    /\ entries \in Seq([sig : Sigs, target : Targets, cached : BOOLEAN]) /\ Len(entries) <= MaxEntries
    /\ status \in [Ids -> Statuses] /\ errors \in [Ids -> 0..(MaxRetries + MaxPolls - 1)]
    /\ aborted \subseteq Made /\ waiting \subseteq Made /\ timer \subseteq Made
    /\ polls \in [Ids -> 0..MaxPolls] /\ outcome \in [Ids -> Statuses]
    /\ chain \in [Sigs -> Statuses \ {"TimedOut"}]

Holds(s, st) == st \in Targets => chain[s] # "Failed" /\ Level[chain[s]] >= Level[st]

\* However late, doubled or out of order the answers of the node are: a caller whose
\* wait resolves has the commitment monitored for, a cached success is one, and a
\* failure has an error on the chain or maxRetries failed polls of its own.
AnswersAreTrue ==
    /\ \A s \in Sigs : Holds(s, cache[s])
    /\ \A e \in Made :
        /\ Holds(SigOf(e), outcome[e])
        /\ outcome[e] \in Targets => Level[outcome[e]] >= Level[entries[e].target]
        /\ outcome[e] = "Failed" => chain[SigOf(e)] = "Failed" \/ errors[e] >= MaxRetries

Older(e) == {d \in Made : d < e /\ SigOf(d) = SigOf(e)}

\* A monitored signature's entry is its own, open and not cancelled; an entry with
\* callers that is not monitored any more was cancelled, or an older entry of its
\* signature was in the way.
Consistent ==
    /\ \A s \in Sigs : monitored[s] # 0 =>
         /\ SigOf(monitored[s]) = s /\ monitored[s] \notin aborted
         /\ monitored[s] \in waiting /\ status[monitored[s]] \notin Terminal
    /\ \A e \in waiting : monitored[SigOf(e)] # e => e \in aborted \/ Older(e) # {}

\* A caller who waits for the first entry of a signature is answered, unless that is
\* cancelled, even if the node never answers.
FirstSettles == \A e \in Ids : e \in waiting /\ Older(e) = {} ~> e \notin waiting \/ e \in aborted

\* timeoutMs is the "Maximum time to wait for confirmation": every caller is
\* answered, unless the monitoring is cancelled.
WaitIsBounded == \A e \in Ids : e \in waiting ~> e \notin waiting \/ e \in aborted
=============================================================================
