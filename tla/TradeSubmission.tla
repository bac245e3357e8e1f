-------------------------- MODULE TradeSubmission --------------------------
(***************************************************************************)
(* TradingClient.executeTransaction (src/index.ts): which fee lanes a      *)
(* trade is expanded into, their concurrent submission, the answer, and    *)
(* the confirmation polling of src/common/confirm-any-signature.ts.        *)
(*                                                                         *)
(* A task <<i, kind>> is one fee lane of route i: the kind of strategy row *)
(* that pays for it.  Every task is a transaction of its own, with its own *)
(* signature.  The chain and the RPC node are the environment; the program *)
(* edits the strategy table until it trades.                               *)
(***************************************************************************)
EXTENDS GasFeeStrategy, Sequences

CONSTANTS Requests,       \* the trades a caller may ask for
          PollsBeforeTx,  \* polls before a landed transaction is fetched
          MaxPolls,       \* polls that fit in timeoutMs
          MaxRoutes       \* bound: providers a client is configured with

\* A request lists its routes in order, and no more than MaxRoutes.
ASSUME RequestAssumption ==
    MaxRoutes \in Nat /\ \A r \in Requests : DOMAIN r.routes \subseteq 1..MaxRoutes

ASSUME PollsAssumption == PollsBeforeTx \in Nat \ {0} /\ MaxPolls \in Nat /\ PollsBeforeTx < MaxPolls

VARIABLES req,      \* the request, with the client's configuration
          phase,    \* idle, submitting, polling, fetching, answered
          lane,     \* where each submitTask is
          sigs,     \* the signatures collected
          polls,    \* pollCount
          suspect,  \* the landed transaction being fetched
          chain,    \* the chain's view of each task's transaction
          answer

tradeVars == <<req, phase, lane, sigs, polls, suspect, chain, answer>>
vars == <<tradeVars, gasVars>>

------------------------------------------------------------------------------
(* Fee lanes *)

\* A route has a type, the provider's minimum tip and the caller's own limit.
\* gas.rows is FALSE for one flat tip, TRUE for the strategy table.
Task == {<<i, kind>> : i \in 0..MaxRoutes, kind \in Kinds \cup {"Flat"}}
RpcTask == <<0, "Flat">>

Routes == DOMAIN req.routes
IsRelay(i) == i \in Routes /\ req.routes[i].type # "Default"

\* filterSwqosConfigsForWithTip
Tipped == {i \in Routes : req.withTip \/ ~IsRelay(i)}

\* checkMinTip never drops Default.
MeetsMinimum(i, tip) == IsRelay(i) => tip >= req.routes[i].min
Checked == req.checkMinTip /\ req.withTip

\* filterSwqosConfigsByMinTip, for the flat tip only.
Effective == {i \in Tipped : Checked /\ ~req.gas.rows => MeetsMinimum(i, req.gas.flat)}

RowsOfRoute(i) == RowsOf(req.routes[i].type, req.direction)

\* What a task pays: a route without a row takes the defaults of its other
\* direction's Normal row, with no tip.
TipOf(k) ==
    IF k[2] = "Flat" THEN req.gas.flat
    ELSE IF k[2] \in RowsOfRoute(k[1])
    THEN strategies[<<req.routes[k[1]].type, req.direction, k[2]>>]
    ELSE 0

\* expandSwqosGasTasks: the rows of the table are checked one by one, the defaults
\* of the other direction are not.
Expand(i) ==
    IF ~req.gas.rows THEN {<<i, "Flat">>}
    ELSE IF RowsOfRoute(i) # {}
    THEN {<<i, kind>> : kind \in {kind \in RowsOfRoute(i) :
                                      Checked => MeetsMinimum(i, TipOf(<<i, kind>>))}}
    ELSE {<<i, "Normal">> : d \in {d \in Directions : "Normal" \in RowsOf(req.routes[i].type, d)}}

\* cfg.minTipSol against the tip that will really be paid.
WithinLimit(k) == (IF req.withTip THEN TipOf(k) ELSE 0) >= req.routes[k[1]].limit

Tasks ==
    IF Routes = {} THEN {RpcTask}
    ELSE {k \in UNION {Expand(i) : i \in Effective} : WithinLimit(k)}

Relays(T) == {k \in T : IsRelay(k[1])}

NeedsNonceBug == FALSE
\* Several relay transactions on one plain blockhash could all land.
NeedsNonce == Cardinality(Relays(Tasks)) > 1 /\ ~req.nonce

NoAnswer == [given |-> FALSE, success |-> FALSE, sigs |-> {}, code |-> 0]
Told(ok, s, code) == [given |-> TRUE, success |-> ok, sigs |-> s, code |-> code]

Init ==
    /\ req \in Requests /\ InitGas
    /\ phase = "idle" /\ lane = [k \in Task |-> "idle"]
    /\ sigs = {} /\ polls = 0 /\ suspect = RpcTask
    /\ chain = [k \in Task |-> "unseen"]
    /\ answer = NoAnswer

\* A durable nonce brings its own blockhash.
HasBlockhash == req.blockhash \/ req.nonce

Refusal ==
    CASE ~HasBlockhash -> 105
      [] HasBlockhash /\ Routes # {} /\ Tipped = {} -> 102
      [] HasBlockhash /\ Routes # {} /\ Tipped # {} /\ Tasks = {} -> 103
      [] OTHER -> 104

\* Refused before anything is built.
Refuse ==
    /\ phase = "idle"
    /\ ~HasBlockhash \/ Tasks = {} \/ NeedsNonce
    /\ phase' = "answered" /\ answer' = Told(FALSE, {}, Refusal)
    /\ UNCHANGED <<gasVars, req, lane, sigs, polls, suspect, chain>>

\* A simulation runs the first lane's transaction, and submits nothing.
Simulate ==
    /\ phase = "idle" /\ req.simulate
    /\ HasBlockhash /\ Tasks # {} /\ ~NeedsNonce
    /\ phase' = "answered"
    /\ answer' \in {Told(TRUE, {}, 0), Told(FALSE, {}, 101), Told(FALSE, {}, 100)}
    /\ UNCHANGED <<gasVars, req, lane, sigs, polls, suspect, chain>>

Submit ==
    /\ phase = "idle" /\ ~req.simulate
    /\ HasBlockhash /\ Tasks # {} /\ ~NeedsNonce
    /\ phase' = "submitting"
    /\ lane' = [k \in Task |-> IF k \in Tasks THEN "sending" ELSE "idle"]
    /\ UNCHANGED <<gasVars, req, sigs, polls, suspect, chain, answer>>

------------------------------------------------------------------------------
(* submitTask *)

Waits == {k \in Task : lane[k] = "sending"}
Acked == {k \in Task : lane[k] = "ok"}

LaneEnds(k, how) ==
    /\ lane[k] = "sending"
    /\ lane' = [lane EXCEPT ![k] = how]
    /\ UNCHANGED <<gasVars, req, phase, sigs, polls, suspect, chain, answer>>

LaneAcked(k)    == LaneEnds(k, "ok")
LaneRejected(k) == LaneEnds(k, "failed")

\* Without a confirmation to wait for a lane has five seconds; the plain RPC
\* path has none.
LaneDeadlineNone(k) == FALSE
\* The timer outlives the wait it was for.
LaneDeadlineLate(k) ==
    /\ req.wait # "confirmed" /\ lane[k] = "ok" /\ lane' = [lane EXCEPT ![k] = "failed"]
    /\ UNCHANGED <<gasVars, req, phase, sigs, polls, suspect, chain, answer>>
LaneDeadline(k) == req.wait # "confirmed" /\ Routes # {} /\ LaneEnds(k, "failed")

\* Promise.all, or collectUntilFirstSuccess.
Collects == Waits = {} \/ (req.wait = "first" /\ Acked # {})

\* Several lanes may have ended together: the first of them is the result.
Result == IF req.wait = "first" /\ Acked # {} THEN {{k} : k \in Acked} ELSE {Acked}

\* Releases the losing waits; the transports they wait for go on.
Released == [k \in Task |-> IF k \in Waits THEN "failed" ELSE lane[k]]

Collect ==
    /\ phase = "submitting" /\ Collects
    /\ lane' = Released
    /\ \E s \in Result :
         /\ sigs' = s
         /\ \/ /\ s = {}
               /\ phase' = "answered" /\ answer' = Told(FALSE, {}, 100)
               /\ UNCHANGED polls
            \/ /\ s # {} /\ req.wait = "confirmed"
               /\ phase' = "polling" /\ UNCHANGED answer
               /\ polls' = IF Cardinality(s) = 1 THEN 0 ELSE 1
            \/ /\ s # {} /\ req.wait # "confirmed"
               /\ phase' = "answered" /\ answer' = Told(TRUE, s, 0)
               /\ UNCHANGED polls
    /\ UNCHANGED <<gasVars, req, suspect, chain>>

------------------------------------------------------------------------------
(* confirmAnyTransactionSignature: poll 0 is the check a single signature gets *)

Landed == {k \in Task : chain[k] # "unseen"}

Confirmed == {k \in sigs : chain[k] = "confirmed"}

Answers(a) ==
    /\ phase' = "answered" /\ answer' = a
    /\ UNCHANGED <<gasVars, req, lane, sigs, polls, suspect, chain>>

\* executeTransaction's catch: whatever was acknowledged, no signature is given.
PollError == phase = "polling" /\ Answers(Told(FALSE, {}, 100))

PollConfirmed == phase = "polling" /\ Confirmed # {} /\ Answers(Told(TRUE, sigs, 0))

PollAgain ==
    /\ phase = "polling" /\ Confirmed = {} /\ polls < MaxPolls
    /\ sigs \cap Landed = {} \/ polls < PollsBeforeTx
    /\ polls' = polls + 1
    /\ UNCHANGED <<gasVars, req, phase, lane, sigs, suspect, chain, answer>>

\* The first landed signature, in the order of the routes, is looked at closer.
PollLanded ==
    /\ phase = "polling" /\ Confirmed = {} /\ polls >= PollsBeforeTx
    /\ \E k \in sigs \cap Landed :
         /\ \A j \in sigs \cap Landed : k[1] <= j[1]
         /\ suspect' = k
    /\ phase' = "fetching"
    /\ UNCHANGED <<gasVars, req, lane, sigs, polls, chain, answer>>

\* getTransaction fails, or does not know the transaction yet.
FetchUnknown ==
    /\ phase = "fetching" /\ polls < MaxPolls
    /\ phase' = "polling" /\ polls' = polls + 1
    /\ UNCHANGED <<gasVars, req, lane, sigs, suspect, chain, answer>>

FetchConfirmed ==
    phase = "fetching" /\ chain[suspect] = "confirmed" /\ Answers(Told(TRUE, sigs, 0))

FetchFailed ==
    phase = "fetching" /\ chain[suspect] = "failed" /\ Answers(Told(FALSE, {}, 108))

\* timeoutMs is over after a poll or a fetch that decided nothing.
ConfirmTimeout ==
    /\ \/ phase = "polling" /\ polls > 1
       \/ phase = "fetching" /\ polls = MaxPolls
    /\ Answers(Told(FALSE, {}, 107))

------------------------------------------------------------------------------
(* The chain: what was handed to a transport can land whatever became of its   *)
(* lane; of the transactions on one durable nonce, only the first to land.     *)

Sent == {k \in Task : lane[k] # "idle"}

Land(k) ==
    /\ k \in Sent \ Landed
    /\ req.nonce => Landed = {}
    /\ \E to \in {"processed", "failed"} : chain' = [chain EXCEPT ![k] = to]
    /\ UNCHANGED <<gasVars, req, phase, lane, sigs, polls, suspect, answer>>

ChainConfirms(k) ==
    /\ chain[k] = "processed"
    /\ chain' = [chain EXCEPT ![k] = "confirmed"]
    /\ UNCHANGED <<gasVars, req, phase, lane, sigs, polls, suspect, answer>>

\* The program edits the table; a trade that was submitted has copied its rows.
EditGas == phase = "idle" /\ req.gas.rows /\ NextGas /\ UNCHANGED tradeVars

Next ==
    \/ EditGas
    \/ Refuse \/ Simulate \/ Submit \/ Collect
    \/ \E k \in Task : LaneAcked(k) \/ LaneRejected(k) \/ LaneDeadline(k)
    \/ PollError \/ PollConfirmed \/ PollAgain \/ PollLanded \/ ConfirmTimeout
    \/ FetchUnknown \/ FetchConfirmed \/ FetchFailed
    \/ \E k \in Task : Land(k) \/ ChainConfirms(k)

Spec == Init /\ [][Next]_vars

\* Lane timers fire and settled promises are resumed.
Fairness == WF_vars(Collect) /\ \A k \in Task : WF_vars(LaneDeadline(k))

FairSpec == Spec /\ Fairness

------------------------------------------------------------------------------
(* Properties *)

\* Types of the submission state and of the table; only expanded fee lanes are ever
\* started, on a route at most two.
TypeOK ==
    /\ GasTypeOK
    /\ req \in Requests
    /\ phase \in {"idle", "submitting", "polling", "fetching", "answered"}
    /\ lane \in [Task -> {"idle", "sending", "ok", "failed"}]
    /\ Sent \subseteq Tasks /\ sigs \subseteq Acked
    /\ \A i \in Routes : Cardinality({k \in Sent : k[1] = i}) <= 2
    /\ polls \in 0..MaxPolls /\ suspect \in Task
    /\ chain \in [Task -> {"unseen", "processed", "confirmed", "failed"}]
    /\ answer \in [given : BOOLEAN, success : BOOLEAN, sigs : SUBSET Task,
                   code : {0, 100, 101, 102, 103, 104, 105, 107, 108}]

\* Two transactions of one trade land only when the caller gave no durable nonce,
\* and then at most one of them went through a relay.
LandsOnce ==
    Cardinality(Landed) > 1 => ~req.nonce /\ Cardinality(Relays(Landed)) <= 1

\* In a well typed state, a caller that waits for confirmation is told success only
\* when one of the signatures it is given is confirmed without an error; one that
\* does not wait is told failure only when no lane was acknowledged, and gets every
\* acknowledgement when it waits for all.
SubmissionIsHonest ==
    /\ TypeOK
    /\ answer.success /\ ~req.simulate /\ req.wait = "confirmed" =>
           \E k \in answer.sigs : chain[k] = "confirmed"
    /\ answer.given /\ ~req.simulate /\ req.wait # "confirmed" =>
           /\ answer.success <=> Acked # {}
           /\ req.wait = "all" => answer.sigs = Acked

\* A trade through SWQoS that does not wait for confirmation is answered, whatever
\* its transports do, and no wait of a lane outlives the submission.
EventuallyAnswered ==
    /\ phase = "submitting" /\ req.wait # "confirmed" /\ Routes # {} ~> phase = "answered"
    /\ [](phase \in {"polling", "fetching", "answered"} => Waits = {})
=============================================================================
