--------------------------- MODULE AsyncExecutor ---------------------------
(***************************************************************************)
(* AsyncTradeExecutor (src/trading/core/async-executor.ts): one execution  *)
(* of one signed transaction through several SWQoS providers, in one of    *)
(* four submit modes, with a deadline, cancellation and confirmation       *)
(* polling (src/common/deadline.ts).                                       *)
(*                                                                         *)
(* The program is single-threaded; an action is the code that runs between *)
(* two awaits.  A lane is one executeWithProvider call.  Providers send    *)
(* the same bytes, so several may return the same signature: SigOf says    *)
(* which.  The chain and the transports are the environment.               *)
(***************************************************************************)
EXTENDS Naturals, Sequences, FiniteSets

CONSTANTS Providers,      \* SwqosType keys of the client map
          Sigs,           \* transaction signatures
          SigOf,          \* the signature a provider returns when it acknowledges
          NoSig,          \* the empty signature ''
          NoProvider,     \* result.provider left undefined
          Orders,         \* the provider orders getOrderedProviders may give
          MaxRetries      \* config.maxRetries

ASSUME SigAssumption == SigOf \in [Providers -> Sigs] /\ NoSig \notin Sigs
ASSUME ProviderAssumption == NoProvider \notin Providers
ASSUME OrdersAssumption ==
    /\ Orders \subseteq Seq(Providers)
    /\ \A o \in Orders : \A i, j \in 1..Len(o) : o[i] = o[j] => i = j
ASSUME RetriesAssumption == MaxRetries \in Nat \ {0}

VARIABLES cfg,         \* the ExecutionConfig of this call
          pc,          \* where executeInternal is
          cursor,      \* attempt (Single) or index in the order (Fallback)
          lane,        \* where each executeWithProvider call is
          laneRes,     \* what each lane resolved to
          collected,   \* lanes the parallel loop has taken out of `pending`
          laneAborted, \* the per-lane AbortControllers of executeParallel
          firstFailure,\* the failure executeParallel keeps
          aborted,     \* state.abortController
          status,      \* state.currentStatus
          signature,   \* state.signature
          receipt,     \* state.acknowledgedReceipt
          completed,   \* state.completed
          inner,       \* what executeInternal resolved to
          result,      \* what execute() gave the caller
          acks,        \* history: providers whose acknowledgement was handled
          sends,       \* how often each provider's sendTransaction was called
          chain        \* the chain's view of each signature

seqVars  == <<pc, cursor, inner>>
laneVars == <<lane, laneRes>>
parVars  == <<collected, laneAborted, firstFailure>>
ackVars  == <<signature, receipt, acks>>
vars == <<cfg, seqVars, laneVars, parVars, aborted, status, ackVars,
          completed, result, sends, chain>>

Modes    == {"Single", "Parallel", "Fallback", "Redundant"}
Statuses == {"None", "Pending", "Submitted", "Confirmed", "Finalized", "Failed",
             "TimedOut", "Cancelled", "Threw"}

\* waitFor folds waitConfirmation and commitment; retryDelay is retryDelayMs > 0.
Configs == [submitMode : Modes, waitFor : {"nothing", "confirmed", "finalized"},
            abortOnSuccess : BOOLEAN, retryDelay : BOOLEAN, providers : Orders]

Results == [success : BOOLEAN, status : Statuses, sig : Sigs \cup {NoSig},
            provider : Providers \cup {NoProvider}]

NoResult == [success |-> FALSE, status |-> "None", sig |-> NoSig, provider |-> NoProvider]

Lanes == {cfg.providers[i] : i \in DOMAIN cfg.providers}

------------------------------------------------------------------------------
\* updateStatus drops a status that would take back a later one.
Regressions ==
    ({"Cancelled", "TimedOut"} \X Statuses)
        \cup ({"Confirmed", "Finalized"} \X {"Submitted"})
        \cup {<<"Finalized", "Confirmed">>}

StatusAfter(cur, s) == IF completed \/ <<cur, s>> \in Regressions THEN cur ELSE s

\* createErrorResult without a provider, createTimeoutResult, createCancelledResult:
\* all keep the first acknowledgement.
KeepReceipt(st) ==
    [success |-> FALSE, status |-> st, provider |-> receipt.provider,
     sig |-> IF st = "Failed" /\ receipt.sig # NoSig THEN receipt.sig ELSE signature]

\* The failure of a lane: its own provider, and its own signature if it has one.
LaneFailure(p, st, sig) == [success |-> FALSE, status |-> st, sig |-> sig, provider |-> p]

\* The failure of another lane overwrites the provider of the first receipt.
RememberBug(failure) ==
    receipt' = IF receipt.sig # NoSig
               THEN [sig |-> receipt.sig, provider |-> failure.provider]
               ELSE receipt

\* state.acknowledgedReceipt = failure, when it is this lane's signature.
Remember(failure) ==
    receipt' = IF failure.sig # NoSig /\ receipt.sig = failure.sig
               THEN [sig |-> failure.sig, provider |-> failure.provider]
               ELSE receipt

LaneSignalAborted(p) == IF cfg.submitMode = "Parallel" THEN laneAborted[p] ELSE aborted

LaneSig(p) == IF lane[p] = "polling" THEN SigOf[p] ELSE NoSig

Sequential == cfg.submitMode \in {"Single", "Fallback"}
Current    == IF cfg.submitMode = "Single" THEN cfg.providers[1] ELSE cfg.providers[cursor]
LastTryBug == cursor = IF cfg.submitMode = "Single" THEN MaxRetries + 1 ELSE Len(cfg.providers)
LastTry    == cursor = IF cfg.submitMode = "Single" THEN MaxRetries ELSE Len(cfg.providers)

NoReceipt == [sig |-> NoSig, provider |-> NoProvider]

Init ==
    /\ cfg \in Configs
    /\ pc = "idle" /\ cursor = 1 /\ inner = NoResult
    /\ lane = [p \in Providers |-> "idle"]
    /\ laneRes = [p \in Providers |-> NoResult]
    /\ collected = {} /\ laneAborted = [p \in Providers |-> FALSE]
    /\ firstFailure = NoResult
    /\ aborted = FALSE /\ status = "None"
    /\ signature = NoSig /\ receipt = NoReceipt /\ acks = {}
    /\ completed = FALSE /\ result = NoResult
    /\ sends = [p \in Providers |-> 0]
    /\ chain = [s \in Sigs |-> "unseen"]

------------------------------------------------------------------------------
(* The caller *)

SendTo(ps) ==
    /\ lane' = [p \in Providers |-> IF p \in ps THEN "sending" ELSE lane[p]]
    /\ sends' = [p \in Providers |-> IF p \in ps THEN sends[p] + 1 ELSE sends[p]]

\* execute(): Pending, then the chosen mode up to its first await.  Without
\* providers every mode but Redundant answers 'No providers available'
\* (Fallback: 'All fallback providers failed'); Redundant reads the status of
\* an undefined first success and rejects.
Start ==
    /\ pc = "idle"
    /\ status' = StatusAfter(status, "Pending")
    /\ IF Lanes = {}
       THEN /\ pc' = "returned"
            /\ inner' = IF cfg.submitMode = "Redundant"
                        THEN [NoResult EXCEPT !.status = "Threw"]
                        ELSE KeepReceipt("Failed")
            /\ UNCHANGED <<lane, sends>>
       ELSE /\ pc' = "run"
            /\ SendTo(IF Sequential THEN {Current} ELSE Lanes)
            /\ UNCHANGED inner
    /\ UNCHANGED <<cfg, cursor, laneRes, parVars, aborted, ackVars, completed,
                   result, chain>>

\* cancel() and cancelAll(): abort, with the lanes of a running executeParallel,
\* and report Cancelled.
Cancel ==
    /\ pc # "idle" /\ ~completed /\ ~aborted
    /\ aborted' = TRUE
    /\ laneAborted' = [p \in Providers |-> laneAborted[p] \/ pc = "run"]
    /\ status' = StatusAfter(status, "Cancelled")
    /\ UNCHANGED <<cfg, seqVars, laneVars, collected, firstFailure, ackVars, completed,
                   result, sends, chain>>

------------------------------------------------------------------------------
(* A lane: executeWithProvider *)

\* A lane ends with the answer its caller waits for.
LaneSucceeds(p, st) ==
    /\ lane' = [lane EXCEPT ![p] = "done"]
    /\ laneRes' = [laneRes EXCEPT ![p] = [success |-> TRUE, status |-> st,
                                          sig |-> SigOf[p], provider |-> p]]

\* The transport acknowledges: the first receipt is kept, Submitted reported.
SendAcked(p) ==
    /\ lane[p] = "sending" /\ ~LaneSignalAborted(p)
    /\ signature' = IF signature = NoSig THEN SigOf[p] ELSE signature
    /\ receipt' = IF receipt.sig = NoSig THEN [sig |-> SigOf[p], provider |-> p] ELSE receipt
    /\ acks' = acks \cup {p}
    /\ status' = StatusAfter(status, "Submitted")
    /\ IF cfg.waitFor = "nothing"
       THEN LaneSucceeds(p, "Submitted")
       ELSE lane' = [lane EXCEPT ![p] = "polling"] /\ UNCHANGED laneRes
    /\ UNCHANGED <<cfg, seqVars, parVars, aborted, completed, result, sends, chain>>

\* A lane ends without success; `sig` is what it had acknowledged.
LaneFails(p, st) ==
    LET failure == LaneFailure(p, st, LaneSig(p)) IN
    /\ lane' = [lane EXCEPT ![p] = "done"]
    /\ laneRes' = [laneRes EXCEPT ![p] = failure]
    /\ Remember(failure)
    /\ UNCHANGED <<cfg, seqVars, parVars, aborted, status, signature, acks, completed,
                   result, sends, chain>>

\* The transport rejects.
SendRejected(p) ==
    /\ lane[p] = "sending" /\ ~LaneSignalAborted(p)
    /\ LaneFails(p, "Failed")

SendDeadlineBug(p) == FALSE

\* withDeadline's timer in the lane.  The execution's own timer has the same
\* length and started first, so this one fires only once that one is released.
SendDeadline(p) ==
    /\ lane[p] = "sending" /\ ~LaneSignalAborted(p) /\ completed
    /\ LaneFails(p, "Failed")

\* The abort signal interrupts a send or a poll.
LaneAbort(p) ==
    /\ lane[p] \in {"sending", "polling"} /\ LaneSignalAborted(p)
    /\ LaneFails(p, "Cancelled")

\* An RPC node may still answer `confirmed` for a finalized transaction.
Visible(s) == IF chain[s] = "finalized" THEN {"confirmed", "finalized"} ELSE {chain[s]}

\* waitForConfirmation's test: `finalized` accepts only that, anything else
\* also `confirmed`.
AcceptableBug == {"confirmed", "finalized"}
Acceptable == IF cfg.waitFor = "finalized" THEN {"finalized"} ELSE {"confirmed", "finalized"}

\* A poll sees the commitment asked for.
PollConfirmed(p) ==
    /\ lane[p] = "polling" /\ ~LaneSignalAborted(p)
    /\ \E seen \in Visible(SigOf[p]) \cap Acceptable :
         LET st == IF seen = "finalized" THEN "Finalized" ELSE "Confirmed" IN
         /\ LaneSucceeds(p, st)
         /\ status' = StatusAfter(StatusAfter(status, "Confirmed"), st)
    /\ UNCHANGED <<cfg, seqVars, parVars, aborted, ackVars, completed, result, sends, chain>>

\* A poll sees the transaction's error.
PollError(p) ==
    /\ lane[p] = "polling" /\ ~LaneSignalAborted(p)
    /\ chain[SigOf[p]] = "failed"
    /\ LaneFails(p, "Failed")

\* The 30 s of waitForConfirmation run out.
PollExpired(p) ==
    /\ lane[p] = "polling" /\ ~LaneSignalAborted(p)
    /\ LaneFails(p, "Failed")

------------------------------------------------------------------------------
(* executeSingle with executeWithRetry, and executeFallback *)

\* What both loops do after a try that was neither acknowledged nor slept over.
NextTry ==
    IF LastTry
    THEN /\ inner' = KeepReceipt("Failed") /\ pc' = "returned"
         /\ UNCHANGED <<cursor, lane, sends>>
    ELSE IF aborted
    THEN /\ inner' = KeepReceipt("Cancelled") /\ pc' = "returned"
         /\ UNCHANGED <<cursor, lane, sends>>
    ELSE /\ cursor' = cursor + 1 /\ pc' = "run"
         /\ SendTo({IF cfg.submitMode = "Single" THEN cfg.providers[1]
                                                 ELSE cfg.providers[cursor + 1]})
         /\ UNCHANGED inner

\* Neither loop sleeps without a delay; executeWithRetry not after its last attempt.
Sleeps == cfg.retryDelay /\ (cfg.submitMode = "Fallback" \/ ~LastTry)

\* Only a try no provider acknowledged is followed by another.
SettledBug(r) == r.success
Settled(r) == r.success \/ r.sig # NoSig

SeqCollect ==
    /\ Sequential /\ pc = "run" /\ lane[Current] = "done"
    /\ \/ /\ Settled(laneRes[Current])
          /\ inner' = laneRes[Current] /\ pc' = "returned"
          /\ UNCHANGED <<cursor, lane, sends>>
       \/ /\ ~Settled(laneRes[Current]) /\ Sleeps
          /\ pc' = IF aborted THEN "stopped" ELSE "sleep"
          /\ UNCHANGED <<cursor, inner, lane, sends>>
       \/ /\ ~Settled(laneRes[Current]) /\ ~Sleeps
          /\ NextTry
    /\ UNCHANGED <<cfg, laneRes, parVars, aborted, status, ackVars, completed,
                   result, chain>>

SleepDone ==
    /\ pc = "sleep" /\ ~aborted
    /\ NextTry
    /\ UNCHANGED <<cfg, laneRes, parVars, aborted, status, ackVars, completed,
                   result, chain>>

\* The sleep's abort listener rejects; the loop ends without a result.
SleepAborted ==
    /\ pc = "sleep" /\ aborted
    /\ pc' = "stopped"
    /\ UNCHANGED <<cfg, cursor, inner, laneVars, parVars, aborted, status, ackVars,
                   completed, result, sends, chain>>

------------------------------------------------------------------------------
(* executeParallel and executeRedundant *)

KeepFailureBug(r) == IF firstFailure = NoResult THEN r ELSE firstFailure

\* A failure with a signature replaces one without.
KeepFailure(r) ==
    IF firstFailure = NoResult \/ (firstFailure.sig = NoSig /\ r.sig # NoSig)
    THEN r ELSE firstFailure

ParallelCollect(p) ==
    /\ cfg.submitMode = "Parallel" /\ pc = "run"
    /\ p \in Lanes \ collected /\ lane[p] = "done"
    /\ collected' = collected \cup {p}
    /\ LET r == laneRes[p] IN
       IF r.success
       THEN /\ inner' = r /\ pc' = "returned"
            /\ laneAborted' = [q \in Providers |->
                                 laneAborted[q] \/ (cfg.abortOnSuccess /\ q # p)]
            /\ UNCHANGED firstFailure
       ELSE /\ firstFailure' = KeepFailure(r)
            /\ IF collected' = Lanes
               THEN inner' = KeepFailure(r) /\ pc' = "returned"
               ELSE UNCHANGED <<inner, pc>>
            /\ UNCHANGED laneAborted
    /\ UNCHANGED <<cfg, cursor, laneVars, aborted, status, ackVars, completed, result,
                   sends, chain>>

Successes == {i \in DOMAIN cfg.providers : laneRes[cfg.providers[i]].success}

\* minSuccesses is min(2, n).
EnoughSuccesses == Cardinality(Successes) >= 2 \/ Successes = DOMAIN cfg.providers

\* Promise.allSettled; the answer is the first success in provider order.
RedundantCollect ==
    /\ cfg.submitMode = "Redundant" /\ pc = "run"
    /\ \A p \in Lanes : lane[p] = "done"
    /\ pc' = "returned"
    /\ \/ /\ EnoughSuccesses
          /\ \E i \in Successes :
               /\ \A j \in Successes : i <= j
               /\ inner' = laneRes[cfg.providers[i]]
       \/ /\ ~EnoughSuccesses
          /\ inner' = KeepReceipt("Failed")
    /\ UNCHANGED <<cfg, cursor, laneVars, parVars, aborted, status, ackVars, completed,
                   result, sends, chain>>

------------------------------------------------------------------------------
(* executeWithTimeout *)

\* Microtasks that run before any timer can.
Settling ==
    \/ pc = "returned"
    \/ pc = "run" /\ (IF Sequential THEN lane[Current] = "done"
                      ELSE IF cfg.submitMode = "Parallel"
                      THEN \E p \in Lanes \ collected : lane[p] = "done"
                      ELSE \A p \in Lanes : lane[p] = "done")

Finish(r) ==
    /\ result' = r
    /\ completed' = TRUE

\* executeInternal won the race with the deadline and the abort signal.
Return ==
    /\ pc = "returned" /\ ~completed
    /\ Finish(inner)
    /\ UNCHANGED <<cfg, seqVars, laneVars, parVars, aborted, status, ackVars, sends, chain>>

\* The deadline: TimedOut, then the abort of whatever still runs.
Timeout ==
    /\ pc # "idle" /\ ~completed /\ ~aborted /\ ~Settling
    /\ status' = StatusAfter(status, "TimedOut")
    /\ aborted' = TRUE
    /\ laneAborted' = [p \in Providers |-> laneAborted[p] \/ pc = "run"]
    /\ Finish(KeepReceipt("TimedOut"))
    /\ UNCHANGED <<cfg, seqVars, laneVars, collected, firstFailure, ackVars, sends, chain>>

\* The abort signal won it.
AbortReturn ==
    /\ aborted /\ ~completed
    /\ status' = StatusAfter(status, "Cancelled")
    /\ Finish(KeepReceipt("Cancelled"))
    /\ UNCHANGED <<cfg, seqVars, laneVars, parVars, aborted, ackVars, sends, chain>>

------------------------------------------------------------------------------
(* The chain *)

\* A transaction that was sent can land, acknowledged or not, at any time.
Sent(s) == \E p \in Providers : SigOf[p] = s /\ sends[p] > 0

ChainAdvance(s) ==
    /\ \/ chain[s] = "unseen" /\ Sent(s) /\ chain' \in {[chain EXCEPT ![s] = "confirmed"],
                                                       [chain EXCEPT ![s] = "failed"]}
       \/ chain[s] = "confirmed" /\ chain' = [chain EXCEPT ![s] = "finalized"]
    /\ UNCHANGED <<cfg, seqVars, laneVars, parVars, aborted, status, ackVars, completed,
                   result, sends>>

Next ==
    \/ Start \/ Cancel
    \/ \E p \in Providers :
         \/ SendAcked(p) \/ SendRejected(p) \/ SendDeadline(p) \/ LaneAbort(p)
         \/ PollConfirmed(p) \/ PollError(p) \/ PollExpired(p)
         \/ ParallelCollect(p)
    \/ SeqCollect \/ SleepDone \/ SleepAborted \/ RedundantCollect
    \/ Return \/ Timeout \/ AbortReturn
    \/ \E s \in Sigs : ChainAdvance(s)

Spec == Init /\ [][Next]_vars

\* Timers fire and settled promises are resumed; transports, the chain and the
\* caller owe nothing.
Fairness ==
    /\ WF_vars(SeqCollect) /\ WF_vars(SleepDone) /\ WF_vars(SleepAborted)
    /\ WF_vars(RedundantCollect) /\ WF_vars(Return) /\ WF_vars(Timeout)
    /\ WF_vars(AbortReturn)
    /\ \A p \in Providers : /\ WF_vars(LaneAbort(p)) /\ WF_vars(PollExpired(p))
                            /\ WF_vars(SendDeadline(p)) /\ WF_vars(ParallelCollect(p))

FairSpec == Spec /\ Fairness

------------------------------------------------------------------------------
(* Properties *)

\* Type invariant of the execution state, with the retry bound of
\* executeWithRetry: one provider is asked at most MaxRetries times.
TypeOK ==
    /\ cfg \in Configs
    /\ pc \in {"idle", "run", "sleep", "returned", "stopped"} /\ cursor \in Nat \ {0}
    /\ lane \in [Providers -> {"idle", "sending", "polling", "done"}]
    /\ laneRes \in [Providers -> Results]
    /\ collected \subseteq Providers /\ laneAborted \in [Providers -> BOOLEAN]
    /\ {firstFailure, inner, result} \subseteq Results
    /\ aborted \in BOOLEAN /\ completed \in BOOLEAN /\ status \in Statuses
    /\ signature \in Sigs \cup {NoSig} /\ acks \subseteq Providers
    /\ receipt \in [sig : Sigs \cup {NoSig}, provider : Providers \cup {NoProvider}]
    /\ sends \in [Providers -> 0..MaxRetries]
    /\ chain \in [Sigs -> {"unseen", "confirmed", "finalized", "failed"}]

\* A signature and a provider that are reported together belong together: that
\* provider returned that signature, and acknowledged it.
Paired(r) == r.sig # NoSig => r.provider \in acks /\ r.sig = SigOf[r.provider]

\* Whatever the interleaving of lanes, deadlines and cancels, the caller is
\* given the provider that did return the signature it is given.
ReceiptPaired == Paired(result)

\* The answer never drops an acknowledgement a lane had, and names none that
\* was not given: execute() implements ReceiptContract.
Contract == INSTANCE ReceiptContract WITH
    Receipts <- Sigs, NoReceipt <- NoSig,
    acked    <- {SigOf[p] : p \in acks},
    answer   <- [success |-> result.success, receipt |-> result.sig, closed |-> completed]

KeepsReceipts == Contract!Spec

\* With waitConfirmation a success is on the chain at the level asked for: no
\* late or weaker status of another lane makes one.
SuccessIsConfirmed ==
    /\ result.success /\ cfg.waitFor = "finalized" => chain[result.sig] = "finalized"
    /\ result.success /\ cfg.waitFor = "confirmed" =>
           chain[result.sig] \in {"confirmed", "finalized"}

\* A caller told Failed lost every lane, or in Redundant mode all but one of
\* several.
FailureIsHonest ==
    completed /\ result.status = "Failed" =>
        Cardinality(Successes) <=
            IF cfg.submitMode = "Redundant" /\ Len(cfg.providers) > 1 THEN 1 ELSE 0

\* The status listener's last word agrees with a TimedOut or Cancelled answer,
\* whichever of abort, deadline and acknowledgement came first.
LastReportAgrees ==
    completed /\ result.status \in {"TimedOut", "Cancelled"} => status = result.status

\* What the caller is told is so, in each of the three senses above: a confirmed
\* success is on the chain, a failure left no lane that did the job, and the
\* listener heard the same as the caller.
AnswerIsHonest == SuccessIsConfirmed /\ FailureIsHonest /\ LastReportAgrees

\* After the answer nothing is reported and the answer stands, although lanes
\* may still end.
SilentOnceAnswered == [][completed => UNCHANGED <<status, result, completed>>]_vars

\* A retry or a fallback never sends again what a provider took, and nothing is
\* sent after the caller was answered or cancelled.
NoResubmission ==
    [][\A p \in Providers : sends'[p] > sends[p] =>
           ~aborted /\ ~completed /\ (Sequential => acks = {})]_vars

\* An acknowledgement ends the sending and an answer ends everything, although
\* the lanes that were left running still act.
NothingAfterAnswer == SilentOnceAnswered /\ NoResubmission

\* Every call is answered, with transports that never answer too, and every lane's
\* wait is released, also those the answer did not wait for.
EventuallyAnswered ==
    /\ pc # "idle" ~> completed
    /\ completed ~> [](\A p \in Providers : lane[p] \notin {"sending", "polling"})
=============================================================================
