----------------------------- MODULE Executors -----------------------------
(***************************************************************************)
(* TradeExecutor (src/trading/executor.ts) and HotPathExecutor             *)
(* (src/hotpath/executor.ts): a signed transaction goes to all clients at  *)
(* once, or to one after the other and around again.                       *)
(*                                                                         *)
(* The hot path first looks at the cache of HotPath, gives every request a *)
(* deadline and takes an acknowledgement for a success.  The trade         *)
(* executor waits for every client however long it takes, and can ask the  *)
(* node whether the signature was confirmed.                               *)
(*                                                                         *)
(* A lane is the current request to a client.  What was handed to a client *)
(* may land whatever becomes of the request.  The delay before the clients *)
(* are asked again is left out, and so are the metrics.                    *)
(***************************************************************************)
EXTENDS HotPath, Sequences, SequencesExt

CONSTANTS Clients,
          Jobs,         \* transactions given to the executor
          maxRetries

ASSUME ExecutorsAssumption == IsFiniteSet(Clients) /\ maxRetries \in Nat \ {0}

VARIABLES clients,      \* the executor's clients, in their order
          job, lane,
          chain         \* what has become of the transaction

jobVars == <<clients, job, lane, chain>>
vars == <<hotVars, jobVars>>

NewJob == [path |-> "none", answer |-> "none", parallel |-> FALSE, waits |-> FALSE,
           order |-> <<>>, at |-> 1, retry |-> 1]

Init ==
    /\ InitHot
    /\ clients = SetToSeq(Clients)
    /\ job = [j \in Jobs |-> NewJob]
    /\ lane = [j \in Jobs |-> [c \in Clients |-> "idle"]]
    /\ chain = [j \in Jobs |-> "none"]

Running(j) == job[j].path # "none" /\ job[j].answer = "none"

\* A client that is there keeps its place when it is added again.
AddClient(c) ==
    /\ c \notin ToSet(clients)
    /\ clients' = Append(clients, c)
    /\ UNCHANGED <<hotVars, job, lane, chain>>

RemoveClient(c) ==
    /\ \E i \in DOMAIN clients : clients[i] = c /\ clients' = RemoveAt(clients, i)
    /\ UNCHANGED <<hotVars, job, lane, chain>>

------------------------------------------------------------------------------
\* execute: the clients of this moment.  A hot path of one client is never parallel;
\* it checks the age of the cached blockhash, unless it was asked not to.
Execute(j, path, parallel, waits, skip) ==
    LET apart == parallel /\ (path = "trade" \/ Len(clients) > 1)
        given == [NewJob EXCEPT !.path = path, !.parallel = apart,
                                !.waits = waits, !.order = clients]
    IN
    /\ job[j].path = "none" /\ bounds.executes
    /\ IF (path = "hot" /\ ~skip /\ ~isDataFresh) \/ clients = <<>>
       THEN /\ job' = [job EXCEPT ![j] = [given EXCEPT !.answer = "refused"]]
            /\ UNCHANGED lane
       ELSE /\ job' = [job EXCEPT ![j] = given]
            /\ lane' = [lane EXCEPT ![j] = [c \in Clients |->
                   IF IF apart THEN c \in ToSet(clients) ELSE c = clients[1]
                   THEN "sent" ELSE "idle"]]
    /\ UNCHANGED <<hotVars, clients, chain>>

\* A failure that settles is the answer.
RacedBug(lanes) ==
    IF \E c \in Clients : lanes[c] = "won" THEN "success"
    ELSE IF \E c \in Clients : lanes[c] = "unconfirmed" THEN "unconfirmed"
    ELSE IF \E c \in Clients : lanes[c] \in {"sent", "polling"} THEN "none"
    ELSE "failed"

\* The answer of executeParallel once the lanes are these: the first success, or
\* when all have failed an acknowledgement that was not confirmed.
Raced(lanes) ==
    IF \E c \in Clients : lanes[c] = "won" THEN "success"
    ELSE IF \E c \in Clients : lanes[c] \in {"sent", "polling"} THEN "none"
    ELSE IF \E c \in Clients : lanes[c] = "unconfirmed" THEN "unconfirmed"
    ELSE "failed"

\* A signature that was not confirmed ends nothing.
GoesOnBug(state) == state \in {"failed", "unconfirmed"}

\* executeSequential asks the next client only when this one gave no signature.
GoesOn(state) == state = "failed"

\* Every round is the first.
FollowingBug(b) == IF b.at < Len(b.order) THEN [at |-> b.at + 1, retry |-> b.retry]
                   ELSE [at |-> 1, retry |-> b.retry]

\* The client that follows in executeSequential: [at, retry].
Following(b) == IF b.at < Len(b.order) THEN [at |-> b.at + 1, retry |-> b.retry]
                ELSE [at |-> 1, retry |-> b.retry + 1]

\* The lane of client c has got this far.
Lane(j, c, state) ==
    LET lanes == [lane[j] EXCEPT ![c] = state]
        next  == Following(job[j])
        asked == job[j].order[next.at]
    IN  CASE job[j].parallel ->
               /\ lane' = [lane EXCEPT ![j] = lanes]
               /\ job' = [job EXCEPT ![j].answer = Raced(lanes)]
          [] ~job[j].parallel /\ ~GoesOn(state) ->
               /\ lane' = [lane EXCEPT ![j] = lanes]
               /\ job' = [job EXCEPT ![j].answer =
                      CASE state = "won" -> "success" [] state = "polling" -> "none"
                        [] OTHER -> "unconfirmed"]
          [] OTHER ->
               IF next.retry > maxRetries
               THEN /\ lane' = [lane EXCEPT ![j] = lanes]
                    /\ job' = [job EXCEPT ![j].answer = "failed"]
               ELSE /\ lane' = [lane EXCEPT ![j] = [lanes EXCEPT ![asked] = "sent"]]
                    /\ job' = [job EXCEPT ![j].at = next.at, ![j].retry = next.retry]

\* The client answers with a signature, which a trade may wait to see confirmed.
Acknowledge(j, c) ==
    /\ Running(j) /\ lane[j][c] = "sent"
    /\ Lane(j, c, IF job[j].path = "trade" /\ job[j].waits THEN "polling" ELSE "won")
    /\ UNCHANGED <<hotVars, clients, chain>>

\* It fails, or misses the deadline that the hot path sets it.
Fail(j, c) ==
    /\ Running(j) /\ lane[j][c] = "sent"
    /\ Lane(j, c, "failed")
    /\ UNCHANGED <<hotVars, clients, chain>>

\* waitForConfirmation sees the signature confirmed.
Confirmed(j, c) ==
    /\ Running(j) /\ lane[j][c] = "polling" /\ chain[j] = "confirmed"
    /\ Lane(j, c, "won")
    /\ UNCHANGED <<hotVars, clients, chain>>

\* It sees it failed, or has waited for confirmationTimeoutMs.
NotConfirmed(j, c) ==
    /\ Running(j) /\ lane[j][c] = "polling"
    /\ Lane(j, c, "unconfirmed")
    /\ UNCHANGED <<hotVars, clients, chain>>

\* The transaction is confirmed on the chain, once a client has it; or never.
Land(j) ==
    /\ chain[j] = "none" /\ \E c \in Clients : lane[j][c] # "idle"
    /\ chain' = [chain EXCEPT ![j] = "confirmed"]
    /\ UNCHANGED <<hotVars, clients, job, lane>>

------------------------------------------------------------------------------
Next ==
    \/ NextHot /\ UNCHANGED jobVars
    \/ \E c \in Clients : bounds.executes /\ (AddClient(c) \/ RemoveClient(c))
    \/ \E j \in Jobs :
          \/ \E parallel, waits \in BOOLEAN : Execute(j, "trade", parallel, waits, TRUE)
          \/ \E parallel, skip \in BOOLEAN : Execute(j, "hot", parallel, FALSE, skip)
          \/ \E c \in Clients : \/ Acknowledge(j, c) \/ Fail(j, c)
                                \/ Confirmed(j, c) \/ NotConfirmed(j, c)
          \/ Land(j)

Spec == Init /\ [][Next]_vars

\* Deadlines fire; a client of the trade executor need not answer.
FairSpec ==
    /\ Spec
    /\ \A j \in Jobs, c \in Clients : WF_vars(job[j].path = "hot" /\ Fail(j, c))

------------------------------------------------------------------------------
(* Properties *)

\* Types of both executors' state, with the bounds of the retries.
TypeOK ==
    /\ HotTypeOK
    /\ clients \in Seq(Clients)
    /\ \A j \in Jobs :
          /\ job[j].path \in {"none", "trade", "hot"}
          /\ job[j].answer \in {"none", "refused", "success", "unconfirmed", "failed"}
          /\ job[j].at \in 1..Len(job[j].order) + 1 /\ job[j].retry \in 1..maxRetries
    /\ lane \in [Jobs -> [Clients ->
          {"idle", "sent", "polling", "won", "unconfirmed", "failed"}]]
    /\ chain \in [Jobs -> {"none", "confirmed"}]

Signed(j) == {c \in Clients : lane[j][c] \in {"polling", "won", "unconfirmed"}}

\* The state is well typed, and what the caller is told is what happened.  A success was acknowledged, and a
\* trade that waited was confirmed on the chain.  A failure without a signature
\* means that every client was asked, as often as it may be, and none gave one in
\* time; a failure with one, that no other client can still turn it into a success.
HonestAnswer ==
    /\ TypeOK
    /\ \A j \in Jobs :
         /\ job[j].answer = "success" =>
               /\ Signed(j) # {}
               /\ job[j].waits => chain[j] = "confirmed"
         /\ job[j].answer = "failed" =>
               /\ \A c \in ToSet(job[j].order) : lane[j][c] = "failed"
               /\ ~job[j].parallel => job[j].retry = maxRetries
         /\ job[j].answer = "unconfirmed" =>
               /\ Signed(j) # {}
               /\ \A c \in Clients : lane[j][c] \notin {"sent", "polling", "won"}

\* Once a client has given a signature for a transaction in time, no client is asked
\* to submit it any more: not by a later round either, and also when waiting for the
\* confirmation gave up.
NothingAfterSignature ==
    [][\A j \in Jobs, c \in Clients :
          lane[j][c] # "sent" /\ lane'[j][c] = "sent" => Signed(j) = {}]_vars

\* Every execution of the hot path is answered, whatever its clients do.
HotPathAnswers ==
    \A j \in Jobs : job[j].path = "hot" ~> job[j].answer # "none"
=============================================================================
