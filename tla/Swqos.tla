------------------------------- MODULE Swqos -------------------------------
(***************************************************************************)
(* Submission through the providers of src/swqos.                          *)
(*                                                                         *)
(* A call is made on one client of clients.ts that its owner keeps         *)
(* ("direct", or "cached" through createCachedWireSubmit), or on the       *)
(* SwqosManager of providers.ts, which makes a client for every submission *)
(* ("failover" tries one provider after the other, "all" asks every one).  *)
(* The manager's clients may be added, removed and put in another order    *)
(* while calls run: its failover loop walks the array it began with, and   *)
(* addClient and removeClient change that array in place.                  *)
(*                                                                         *)
(* A submission is a record                                                *)
(*   pc    "none", "ready" to send its next request, "connecting",         *)
(*         "writing", "closing", "won", "lost" or "threw"                  *)
(*   leg   1, or 2 once the client that stands in has taken over           *)
(*   taken, unread   the ids the provider took, and those it refused in    *)
(*         words that its client does not look for; the caller never sees  *)
(*         either                                                          *)
(* The wait of rateLimitCheck is the time between "ready" and the request; *)
(* how long it is, is left out, and so are the statistics.                 *)
(***************************************************************************)
EXTENDS SwqosClients, FiniteSets

CONSTANTS Calls, Providers,
          Setups,       \* [config, kinds, changes]: how the providers are configured, of
                        \* which kinds each call may be, and how often the manager changes
          Batches,      \* the sequences of transactions a call may be given
          MaxDials      \* bound on the connections a kept client opens

Transactions == UNION {ToSet(batch) : batch \in Batches}

ASSUME SwqosAssumption ==
    /\ IsFiniteSet(Providers) /\ MaxDials \in Nat
    /\ Batches \subseteq Seq(Transactions) \ {<<>>}
    /\ \A s \in Setups :
          s.changes \in Nat /\ \A p \in Providers : s.config[p] \in Configurations

VARIABLES setup, installed, arrays, changes, call, sub, quic

vars == <<setup, installed, arrays, changes, call, sub, quic>>

NoConn == 0
NoSub == [pc |-> "none", leg |-> 1, batch |-> <<>>, rest |-> <<>>, sigs |-> <<>>, code |-> 0,
          taken |-> {}, unread |-> {}, tries |-> 1, conn |-> NoConn]
Begun(batch) == [NoSub EXCEPT !.pc = "ready", !.batch = batch, !.rest = batch]
NoCall == [kind |-> "none", pc |-> "idle", batch |-> <<>>, array |-> 1, at |-> 1,
           answer |-> "none", stayed |-> {}, passed |-> {}]
Over == {"won", "lost", "threw"}

Ids(chunk) == {chunk[i].id : i \in DOMAIN chunk}
Kept(c) == call[c].kind \in {"direct", "cached"}
\* What the submission of call c to provider p goes through.
Clients(c, p) ==
    IF Kept(c) THEN createClient(setup.config[p])
    ELSE senderOf(setup.config[p], call[c].kind = "bundle")
Client(c, p) == Clients(c, p)[sub[c][p].leg]
Running(c, kinds) == call[c].pc = "running" /\ call[c].kind \in kinds
Busy(c) == {p \in Providers : sub[c][p].pc \notin Over \cup {"none"}}
getAllClients == {p \in installed : setup.config[p].enabled}

Init ==
    /\ setup \in Setups
    /\ installed = {p \in Providers : Constructible(setup.config[p])}
    /\ \E order \in SetToSeqs(installed) : arrays = <<order>>
    /\ changes = setup.changes
    /\ call = [c \in Calls |-> NoCall]
    /\ sub = [c \in Calls |-> [p \in Providers |-> NoSub]]
    /\ quic = [p \in Providers |-> [client |-> NoConn, pending |-> FALSE, open |-> {}, dials |-> 0]]

-----------------------------------------------------------------------------
(* Requests.  FallbackSwqosClient hands the whole batch to the client that *)
(* stands in, whatever of it the first one had already sent.               *)

StandIn(s) == [s EXCEPT !.leg = 2, !.rest = s.batch, !.sigs = <<>>, !.unread = {},
                       !.pc = "ready"]

Answer(c, p, chunk, fate, answer) ==
    LET s == [sub[c][p] EXCEPT !.taken = @ \cup (IF fate = "taken" THEN Ids(chunk) ELSE {}),
                               !.unread = @ \cup (IF fate = "unread" THEN Ids(chunk) ELSE {}),
                               !.tries = 1, !.conn = NoConn]
        rest == SubSeq(s.rest, Len(chunk) + 1, Len(s.rest))
    IN  CASE answer.ok ->
                [s EXCEPT !.rest = rest, !.sigs = @ \o answer.sigs,
                          !.pc = IF rest = <<>> THEN "won" ELSE "ready"]
          [] ~answer.ok /\ s.leg < Len(Clients(c, p)) /\ shouldFallbackTransport(answer.code) ->
                StandIn(s)
          [] OTHER -> [s EXCEPT !.pc = "lost", !.code = answer.code]

KeepsConnection(c, p) == Kept(c) /\ Client(c, p).via = "kept"

\* A POST, a gRPC or QUIC request, or a stream of a client of its own.
Send(c, p) ==
    LET chunk == NextChunk(Client(c, p), sub[c][p].rest) IN
    /\ sub[c][p].pc = "ready" /\ ~KeepsConnection(c, p)
    /\ \E o \in Exchange(Client(c, p), setup.config[p].key, chunk) :
          sub' = [sub EXCEPT ![c][p] = Answer(c, p, chunk, o.fate, o.answer)]
    /\ UNCHANGED <<setup, installed, arrays, changes, call, quic>>

-----------------------------------------------------------------------------
(* PersistentQuicSender: one connection for all the calls on a client, and *)
(* one promise of it for all that wait.  A call that fails throws the      *)
(* connection of the moment away, waits until it is closed, and tries once *)
(* more.                                                                   *)

invalidate(q) == [q EXCEPT !.client = NoConn]
ToDestroyBug(q) == NoConn
ToDestroy(q) == q.client

\* The first failure: the connection goes.  The second: the answer.
Fails(c, p, chunk, fate) ==
    LET s == sub[c][p] IN
    IF s.tries = 2 THEN
        /\ \E code \in {401, 503} :
              sub' = [sub EXCEPT ![c][p] = Answer(c, p, chunk, fate, Failed(code))]
        /\ UNCHANGED quic
    ELSE /\ sub' = [sub EXCEPT ![c][p] =
                [s EXCEPT !.pc = "closing", !.conn = ToDestroy(quic[p]), !.tries = 2,
                          !.taken = @ \cup (IF fate = "taken" THEN Ids(chunk) ELSE {})]]
         /\ quic' = [quic EXCEPT ![p] = invalidate(@)]

Connect(c, p) ==
    LET q == quic[p]
        chunk == <<Head(sub[c][p].rest)>>
    IN
    /\ sub[c][p].pc = "ready" /\ KeepsConnection(c, p)
    /\ IF Refuses(Client(c, p), setup.config[p].key, chunk) THEN
          /\ sub' = [sub EXCEPT ![c][p] = Answer(c, p, chunk, "refused", Failed(400))]
          /\ UNCHANGED quic
       ELSE IF q.client # NoConn THEN
          /\ sub' = [sub EXCEPT ![c][p].pc = "writing", ![c][p].conn = q.client]
          /\ UNCHANGED quic
       ELSE /\ sub' = [sub EXCEPT ![c][p].pc = "connecting"]
            /\ quic' = [quic EXCEPT ![p].pending = TRUE]
    /\ UNCHANGED <<setup, installed, arrays, changes, call>>

Waiting(p) == {c \in Calls : sub[c][p].pc = "connecting"}

Connected(p) ==
    LET conn == quic[p].dials + 1 IN
    /\ quic[p].pending /\ quic[p].dials < MaxDials
    /\ sub' = [c \in Calls |-> IF c \in Waiting(p)
                               THEN [sub[c] EXCEPT ![p].pc = "writing", ![p].conn = conn]
                               ELSE sub[c]]
    /\ quic' = [quic EXCEPT ![p] = [client |-> conn, pending |-> FALSE,
                                    open |-> @.open \cup {conn}, dials |-> conn]]
    /\ UNCHANGED <<setup, installed, arrays, changes, call>>

\* No connection: all that waited for it fail, each in its own way.
NotConnected(p) ==
    /\ quic[p].pending
    /\ sub' = [c \in Calls |->
          LET s == sub[c][p] IN
          CASE c \notin Waiting(p) -> sub[c]
            [] c \in Waiting(p) /\ s.tries = 1 -> [sub[c] EXCEPT ![p].pc = "closing", ![p].tries = 2]
            [] OTHER -> [sub[c] EXCEPT ![p] =
                            Answer(c, p, <<Head(s.rest)>>, "refused", Failed(503))]]
    /\ quic' = [quic EXCEPT ![p].pending = FALSE]
    /\ UNCHANGED <<setup, installed, arrays, changes, call>>

\* The stream is written, or fails: at the latest when the connection has
\* been closed under it.
Write(c, p) ==
    LET s == sub[c][p]
        chunk == <<Head(s.rest)>>
    IN
    /\ s.pc = "writing"
    /\ \E fate \in {"taken", "refused"} :
          \/ /\ s.conn \in quic[p].open
             /\ sub' = [sub EXCEPT ![c][p] = Answer(c, p, chunk, fate, Own(chunk))]
             /\ UNCHANGED quic
          \/ Fails(c, p, chunk, fate)
    /\ UNCHANGED <<setup, installed, arrays, changes, call>>

Destroyed(c, p) ==
    /\ sub[c][p].pc = "closing"
    /\ quic' = [quic EXCEPT ![p].open = @ \ {sub[c][p].conn}]
    /\ sub' = [sub EXCEPT ![c][p].pc = "ready", ![c][p].conn = NoConn]
    /\ UNCHANGED <<setup, installed, arrays, changes, call>>

-----------------------------------------------------------------------------
(* Calls. *)

Asked(c, kind, batch, stayed) ==
    [NoCall EXCEPT !.kind = kind, !.pc = "running", !.batch = batch, !.array = Len(arrays),
                   !.stayed = stayed]

\* sendTransaction(s) of a client that exists, and createCachedWireSubmit.
SendTransactions(c, p, kind, batch) ==
    /\ call[c].pc = "idle" /\ kind \in setup.kinds[c]
    /\ setup.config[p].made = "factory" /\ createClient(setup.config[p]) # Thrown
    /\ kind = "cached" => Len(batch) = 1 /\ Own(batch).ok
    /\ call' = [call EXCEPT ![c] = Asked(c, kind, batch, {p})]
    /\ sub' = [sub EXCEPT ![c][p] = Begun(batch)]
    /\ UNCHANGED <<setup, installed, arrays, changes, quic>>

Returned(c) ==
    /\ Running(c, {"direct", "cached"}) /\ Busy(c) = {}
    /\ \E p \in call[c].stayed :
          LET s == sub[c][p] IN
          call' = [call EXCEPT ![c].pc = "done",
                               ![c].answer = IF /\ s.pc = "won"
                                                /\ call[c].kind = "cached" => s.sigs = Own(s.batch).sigs
                                             THEN "success" ELSE "failed"]
    /\ UNCHANGED <<setup, installed, arrays, changes, sub, quic>>

submitWithFallback(c, tx) ==
    /\ call[c].pc = "idle" /\ "failover" \in setup.kinds[c]
    /\ call' = [call EXCEPT ![c] =
          Asked(c, "failover", <<tx>>, ToSet(arrays[Len(arrays)]) \cap getAllClients)]
    /\ UNCHANGED <<setup, installed, arrays, changes, sub, quic>>

Succeeded(c) == \E p \in Providers : sub[c][p].pc = "won"
LoopArrayBug(c) == arrays[Len(arrays)]
LoopArray(c) == arrays[call[c].array]
Ahead(c) == {i \in call[c].at .. Len(LoopArray(c)) : LoopArray(c)[i] \in getAllClients}
NextAsked(c) == {i \in Ahead(c) : \A j \in Ahead(c) : i <= j}

\* One turn of the loop, up to its next await.  A client that cannot be made
\* throws out of it.
ContinueFallback(c) ==
    /\ Running(c, {"failover"}) /\ Busy(c) = {}
    /\ \/ /\ Succeeded(c)
          /\ call' = [call EXCEPT ![c].pc = "done", ![c].answer = "success"]
          /\ UNCHANGED sub
       \/ /\ ~Succeeded(c) /\ Ahead(c) = {}
          /\ call' = [call EXCEPT ![c].pc = "done", ![c].answer = "failed"]
          /\ UNCHANGED sub
       \/ /\ ~Succeeded(c)
          /\ \E i \in NextAsked(c) :
                LET p == LoopArray(c)[i] IN
                IF senderOf(setup.config[p], FALSE) = Thrown
                THEN /\ call' = [call EXCEPT ![c].pc = "done", ![c].answer = "threw"]
                     /\ sub' = [sub EXCEPT ![c][p].pc = "threw"]
                ELSE /\ call' = [call EXCEPT ![c].at = i + 1]
                     /\ sub' = [sub EXCEPT ![c][p] = Begun(call[c].batch)]
    /\ UNCHANGED <<setup, installed, arrays, changes, quic>>

\* Every enabled client is asked at once.
AskEveryone(c, kind, batch) ==
    /\ call[c].pc = "idle" /\ kind \in setup.kinds[c]
    /\ call' = [call EXCEPT ![c] = Asked(c, kind, batch, getAllClients)]
    /\ sub' = [sub EXCEPT ![c] = [p \in Providers |->
          CASE p \notin getAllClients -> NoSub
            [] p \in getAllClients /\ senderOf(setup.config[p], kind = "bundle") = Thrown ->
                  [NoSub EXCEPT !.pc = "threw"]
            [] OTHER -> Begun(IF kind = "bundle" /\ PostsBundles(setup.config[p]) THEN batch
                              ELSE <<Head(batch)>>)]]
    /\ UNCHANGED <<setup, installed, arrays, changes, quic>>

submitToAll(c, tx) == AskEveryone(c, "all", <<tx>>)
submitBundleToAll(c, batch) == AskEveryone(c, "bundle", batch)

\* One that throws rejects the whole, and the others go on unheard.
AllReturned(c) ==
    /\ Running(c, {"all", "bundle"})
    /\ \/ /\ \E p \in Providers : sub[c][p].pc = "threw"
          /\ call' = [call EXCEPT ![c].pc = "done", ![c].answer = "threw"]
       \/ /\ \A p \in Providers : sub[c][p].pc # "threw"
          /\ Busy(c) = {}
          /\ call' = [call EXCEPT ![c].pc = "done",
                                  ![c].answer = IF Succeeded(c) THEN "success" ELSE "failed"]
    /\ UNCHANGED <<setup, installed, arrays, changes, sub, quic>>

-----------------------------------------------------------------------------
(* The manager's clients. *)

addClient(p) ==
    /\ changes > 0
    /\ p \notin installed /\ Constructible(setup.config[p])
    /\ installed' = installed \cup {p}
    /\ arrays' = [arrays EXCEPT ![Len(arrays)] =
                     IF p \in ToSet(@) THEN @ ELSE Append(@, p)]
    /\ changes' = changes - 1
    /\ UNCHANGED <<setup, call, sub, quic>>

\* indexOf and splice: i is 0 where the order does not name the provider.  stayed
\* and passed remember what became of a running loop's array: behind an entry it is
\* done with everything moves up, and the next one is now behind it.
removeClient(p) ==
    LET order == arrays[Len(arrays)] IN
    /\ changes > 0
    /\ p \in installed
    /\ installed' = installed \ {p}
    /\ \E i \in 0 .. Len(order) :
          /\ IF i = 0 THEN p \notin ToSet(order)
             ELSE order[i] = p /\ \A j \in 1 .. i - 1 : order[j] # p
          /\ arrays' = IF i = 0 THEN arrays ELSE [arrays EXCEPT ![Len(arrays)] = RemoveAt(@, i)]
          /\ call' = [c \in Calls |->
                IF Running(c, {"failover"})
                THEN [call[c] EXCEPT !.stayed = @ \ {p},
                         !.passed = IF /\ call[c].array = Len(arrays) /\ i \in 1 .. call[c].at - 1
                                       /\ call[c].at \in DOMAIN order
                                    THEN @ \cup {order[call[c].at]} ELSE @]
                ELSE call[c]]
    /\ changes' = changes - 1
    /\ UNCHANGED <<setup, sub, quic>>

\* An order names some of the clients; a name that is not one of them is dropped.
setFallbackOrder(order) ==
    /\ changes > 0
    /\ arrays' = Append(arrays, order)
    /\ changes' = changes - 1
    /\ UNCHANGED <<setup, installed, call, sub, quic>>

-----------------------------------------------------------------------------
Step(c) ==
    \/ \E p \in Providers :
          Send(c, p) \/ Connect(c, p) \/ Write(c, p) \/ Destroyed(c, p)
    \/ Returned(c) \/ ContinueFallback(c) \/ AllReturned(c)

Next ==
    \/ \E c \in Calls :
          \/ Step(c)
          \/ \E batch \in Batches :
                \/ \E p \in Providers, kind \in {"direct", "cached"} :
                      SendTransactions(c, p, kind, batch)
                \/ Len(batch) = 1 /\ (submitWithFallback(c, batch[1]) \/ submitToAll(c, batch[1]))
                \/ submitBundleToAll(c, batch)
    \/ \E p \in Providers :
          \/ Connected(p) \/ NotConnected(p)
          \/ addClient(p) \/ removeClient(p)
    \/ \E order \in SetToAllKPermutations(installed) : setFallbackOrder(order)

Spec == Init /\ [][Next]_vars

-----------------------------------------------------------------------------
(* Properties. *)

Sent == Batches \cup {<<>>} \cup {<<b[1]>> : b \in Batches}
TxIds == {tx.id : tx \in Transactions}
Sub == [pc : {"none", "ready", "connecting", "writing", "closing"} \cup Over,
        leg : 1 .. 2, batch : Sent, rest : Seq(Transactions),
        sigs : Seq(TxIds \cup {FOREIGN, MISSING}),
        code : Nat, taken : SUBSET TxIds, unread : SUBSET TxIds, tries : 1 .. 2, conn : 0 .. MaxDials]
EndsWith(batch, rest) ==
    /\ Len(rest) <= Len(batch)
    /\ \A i \in DOMAIN rest : rest[i] = batch[Len(batch) - Len(rest) + i]

\* The state has the shape the code keeps it in: what a submission has left to
\* send is the end of its batch, and it has no more than one signature for
\* each transaction of the rest.
TypeOK ==
    /\ installed \subseteq Providers /\ changes \in 0 .. setup.changes
    /\ \A i \in DOMAIN arrays : arrays[i] \in Seq(Providers)
    /\ \A c \in Calls :
          /\ call[c].answer \in {"none", "success", "failed", "threw"}
          /\ call[c].array \in DOMAIN arrays
          /\ \A p \in Providers :
                /\ sub[c][p] \in Sub /\ EndsWith(sub[c][p].batch, sub[c][p].rest)
                /\ Len(sub[c][p].sigs) + Len(sub[c][p].rest) <= Len(sub[c][p].batch)
    /\ \A p \in Providers : quic[p].client \in 0 .. MaxDials

\* In a state of the code's shape, a submission that succeeded was taken, whichever
\* client took over from which: every transaction of the batch, but for those that
\* were refused in words its client does not look for (LooksFor), and for a stream,
\* which nobody acknowledges.  The signatures are the transactions' own, one each
\* and in their order, unless the provider's word is taken for them; the word is
\* compared where a cached trade is submitted.
HonestSuccess ==
    /\ TypeOK
    /\ \A c \in Calls, p \in Providers :
         LET s == sub[c][p]
             d == Client(c, p)
         IN  s.pc = "won" =>
               /\ \/ Ids(s.batch) \subseteq s.taken \cup s.unread
                  \/ d.via \in {"stream", "kept"}
               /\ \/ s.sigs = [i \in DOMAIN s.batch |-> s.batch[i].id]
                  \/ /\ d.reply \notin {"own", "exact"}
                     /\ call[c].kind = "cached" => call[c].answer # "success"

\* A failover that reports that all providers failed has asked every one that was
\* enabled, in its order and stayed there, and each failed: also while clients are
\* added or removed or the order is replaced.  The one exception: when an entry that
\* the loop is done with is removed, whoever is next in the array it walks is passed over.
FailoverAsksAll ==
    \A c \in Calls :
        call[c].kind = "failover" /\ call[c].answer = "failed" =>
            \A p \in call[c].stayed \ call[c].passed : sub[c][p].pc = "lost"

\* However calls on one kept client interleave, fail and try again, every
\* connection it has open is its current one or is being closed by a call.
ConnectionsOwned ==
    \A p \in Providers :
        quic[p].open \subseteq
            {quic[p].client} \cup {sub[c][p].conn : c \in {c \in Calls : sub[c][p].pc = "closing"}}
=============================================================================
