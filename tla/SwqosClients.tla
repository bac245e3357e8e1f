---------------------------- MODULE SwqosClients ----------------------------
(***************************************************************************)
(* The clients of src/swqos: how each hands a transaction to its provider, *)
(* how it reads the answer, and which client a configuration gets.         *)
(*                                                                         *)
(* A client is a record:                                                   *)
(*   via    "http"    a POST that is answered, or whose answer is lost     *)
(*          "acked"   a QUIC or gRPC request that is answered              *)
(*          "stream"  one QUIC stream, opened for this transaction and     *)
(*                    never answered                                       *)
(*          "kept"    a QUIC stream of a connection that is kept           *)
(*   limit  TRUE if 1232 bytes are the most it takes                       *)
(*   reply  "signature"  the answer must carry a signature, and that one   *)
(*                       is returned                                       *)
(*          "either"     the answer's signature, or the transaction's own  *)
(*          "own"        the transaction's own: only the status is read    *)
(*          "exact"      the answer's, which must be the transaction's own *)
(*          "checked", "reason", "unchecked"                               *)
(*                       what the classes of providers.ts that post        *)
(*                       themselves look at before they call it a success  *)
(*   batch  "each", or one request for the "whole" batch, or a "bundle"    *)
(*   keyed  TRUE if a key of the wrong form is found out when it sends     *)
(* batch is what one call of sendTransactions or submitBundle makes of a   *)
(* batch; submitBundle only posts it whole in the JitoClient of providers.ts. *)
(*                                                                         *)
(* A transaction is [id, single, fits]: whether it has one signature, and  *)
(* whether 1232 bytes hold it (a V1 transaction may have 4096).            *)
(***************************************************************************)
EXTENDS Integers, Sequences, SequencesExt

NETWORK == 0      \* a socket error, a TypeError of fetch, gRPC UNAVAILABLE
FOREIGN == "another id"
MISSING == "no signature"

-----------------------------------------------------------------------------
(* The classes of clients.ts. *)

Posts(reply) == [via |-> "http", limit |-> FALSE, reply |-> reply, batch |-> "each", keyed |-> FALSE]
Streams(limit) == [via |-> "stream", limit |-> limit, reply |-> "own", batch |-> "each", keyed |-> FALSE]

JitoClient == [Posts("signature") EXCEPT !.batch = "bundle"]
BloxrouteClient == Posts("signature")
ZeroSlotClient == Posts("signature")
TemporalClient == [Posts("own") EXCEPT !.limit = TRUE, !.batch = "whole"]
TemporalQuicClient == [TemporalClient EXCEPT !.via = "acked"]
FlashBlockClient == Posts("either")
HeliusClient == Posts("signature")
Node1Client == Posts("signature")
Node1QuicClient == [Streams(TRUE) EXCEPT !.via = "acked", !.keyed = TRUE]
BlockRazorClient == Posts("either")
BlockRazorGrpcClient == [Posts("signature") EXCEPT !.via = "acked"]
AstralaneClient == Posts("either")
AstralaneQuicClient == [Streams(TRUE) EXCEPT !.via = "kept"]
StelliumClient == Posts("signature")
LightspeedClient == Posts("signature")
NextBlockClient == Posts("signature")
DefaultClient == Posts("signature")
SoyasClient == Streams(FALSE)
SpeedlandingClient == Streams(FALSE)
SolamiClient == [Streams(FALSE) EXCEPT !.keyed = TRUE]
LunarLanderClient == Posts("own")
LunarLanderQuicClient == Streams(TRUE)
GlaiveClient == Posts("exact")
GlaiveQuicClient == Streams(TRUE)

-----------------------------------------------------------------------------
(* The classes of providers.ts that post themselves.  The factory of that  *)
(* file makes none of them: it makes clients of clients.ts, and for Default *)
(* one that it gives no URL to post to.                                    *)

JitoProvider == Posts("checked")
JitoBundleProvider == [Posts("unchecked") EXCEPT !.batch = "bundle"]
ZeroSlotProvider == Posts("checked")
TemporalProvider == Posts("checked")
Node1Provider == Posts("checked")
FlashBlockProvider == Posts("checked")
HeliusProvider == Posts("checked")
BloxrouteProvider == Posts("reason")
NextBlockProvider == Posts("unchecked")
StelliumProvider == Posts("unchecked")
LightspeedProvider == Posts("unchecked")
SoyasProvider == Posts("unchecked")
TritonProvider == Posts("unchecked")
QuickNodeProvider == Posts("unchecked")
SyndicaProvider == Posts("unchecked")
FigmentProvider == Posts("unchecked")
AlchemyProvider == Posts("unchecked")
ProviderClass(type) ==
    CASE type = "Jito" -> JitoProvider [] type = "ZeroSlot" -> ZeroSlotProvider
      [] type = "Temporal" -> TemporalProvider [] type = "Node1" -> Node1Provider
      [] type = "FlashBlock" -> FlashBlockProvider [] type = "Helius" -> HeliusProvider
      [] type = "Bloxroute" -> BloxrouteProvider [] type = "NextBlock" -> NextBlockProvider
      [] type = "Stellium" -> StelliumProvider [] type = "Lightspeed" -> LightspeedProvider
      [] type = "Soyas" -> SoyasProvider [] type = "Triton" -> TritonProvider
      [] type = "QuickNode" -> QuickNodeProvider [] type = "Syndica" -> SyndicaProvider
      [] type = "Figment" -> FigmentProvider [] type = "Alchemy" -> AlchemyProvider
NowhereToPost == [Posts("checked") EXCEPT !.via = "nowhere"]

-----------------------------------------------------------------------------
(* ClientFactory.createClient: no client if it throws, two if the second   *)
(* stands in for the first (FallbackSwqosClient).  A configuration is      *)
(* [made, type, transport, custom, key, enabled]: custom is TRUE with a    *)
(* URL of the caller's, key if the key has the form the provider wants.    *)

Blacklisted == {"NextBlock"}
Unsupported == {"Triton", "QuickNode", "Syndica", "Figment", "Alchemy"}
Classes == {"Jito", "ZeroSlot", "Temporal", "Node1", "FlashBlock", "Helius", "Bloxroute",
            "NextBlock", "Stellium", "Lightspeed", "Soyas", "Triton", "QuickNode", "Syndica",
            "Figment", "Alchemy"}
Types == {"Jito", "Bloxroute", "ZeroSlot", "FlashBlock", "Helius", "Stellium", "Soyas",
          "Speedlanding", "Solami", "Default", "Temporal", "BlockRazor", "Astralane", "Node1",
          "Lightspeed", "LunarLander", "Glaive", "NextBlock"} \cup Unsupported
ConfiguredAs(by, types) ==
    [made : {by}, type : types, transport : {"unset", "Http", "Quic", "Grpc"},
     custom : BOOLEAN, key : BOOLEAN, enabled : BOOLEAN]
Configurations == ConfiguredAs("class", Classes) \cup ConfiguredAs("factory", Types)

Thrown == <<>>

Plain(type) ==
    CASE type = "Jito" -> JitoClient            [] type = "Bloxroute" -> BloxrouteClient
      [] type = "ZeroSlot" -> ZeroSlotClient    [] type = "FlashBlock" -> FlashBlockClient
      [] type = "Helius" -> HeliusClient        [] type = "Stellium" -> StelliumClient
      [] type = "Soyas" -> SoyasClient          [] type = "Speedlanding" -> SpeedlandingClient
      [] type = "Solami" -> SolamiClient        [] type = "Default" -> DefaultClient

\* A QUIC or gRPC client first, and the HTTP one for its failures.
QuicFirst(cfg, quic, http, unsupported) ==
    CASE cfg.transport = unsupported -> Thrown
      [] cfg.transport = "Http" \/ (cfg.custom /\ cfg.transport = "unset") -> <<http>>
      [] cfg.transport = "unset" /\ ~cfg.custom -> <<quic, http>>
      [] OTHER -> <<quic>>

HttpOrQuic(cfg, http, quic) ==
    CASE cfg.transport = "Grpc" -> Thrown
      [] cfg.transport = "Http" -> <<http>>
      [] OTHER -> <<quic>>

createClient(cfg) ==
    CASE cfg.type \in Blacklisted \cup Unsupported -> Thrown
      [] cfg.type = "Temporal" -> QuicFirst(cfg, TemporalQuicClient, TemporalClient, "Grpc")
      [] cfg.type = "BlockRazor" -> QuicFirst(cfg, BlockRazorGrpcClient, BlockRazorClient, "Quic")
      [] cfg.type = "Astralane" -> QuicFirst(cfg, AstralaneQuicClient, AstralaneClient, "none")
      [] cfg.type = "Node1" ->
            IF cfg.transport = "Quic" THEN <<Node1QuicClient>> ELSE <<Node1Client>>
      [] cfg.type = "Lightspeed" -> IF cfg.custom THEN <<LightspeedClient>> ELSE Thrown
      [] cfg.type = "LunarLander" -> HttpOrQuic(cfg, LunarLanderClient, LunarLanderQuicClient)
      [] cfg.type = "Glaive" ->
            IF cfg.key THEN HttpOrQuic(cfg, GlaiveClient, GlaiveQuicClient) ELSE Thrown
      [] OTHER -> <<Plain(cfg.type)>>

\* SwqosClientFactory: whether there is an SwqosClient for a manager to have.
Constructible(cfg) == cfg.made = "class" \/ cfg.type \notin Blacklisted \cup Unsupported

\* What a submission through it uses; only one client has a submitBundle of its own.
PostsBundles(cfg) == cfg.made = "class" /\ cfg.type = "Jito"
senderOf(cfg, bundle) ==
    IF bundle /\ PostsBundles(cfg) THEN <<JitoBundleProvider>>
    ELSE IF cfg.made = "class" THEN <<ProviderClass(cfg.type)>>
    ELSE IF cfg.type = "Default" THEN <<NowhereToPost>>
    ELSE createClient(cfg)

shouldFallbackTransport(code) == code = NETWORK \/ code >= 500 \/ code \in {408, 425}

-----------------------------------------------------------------------------
(* Answers to a request with a chunk of transactions.  A provider that took *)
(* it says so with the signature, another id (always, of a bundle), a bare *)
(* success or nothing; one that refuses it with an error and its code, a   *)
(* reason elsewhere, bare words, or nothing.                               *)

Acceptances == {"signature", "foreign", "success", "nothing"}
Refusals == {"error", "reason", "words", "nothing"}
Bodies == Acceptances \cup Refusals
Failed(code) == [ok |-> FALSE, code |-> code]
Signed(sigs) == [ok |-> TRUE, sigs |-> sigs]

\* What a gRPC or QUIC answer has room for.
MayAnswer(client, body) == client.via = "acked" => body \in {"signature", "foreign", "nothing"}

\* The refusals that a client which reads answers so does not take for a success.
LooksFor(reply) ==
    CASE reply = "signature" -> {"error", "reason", "nothing"}
      [] reply \in {"either", "checked"} -> {"error"}
      [] reply = "reason" -> {"reason"}
      [] reply = "exact" -> Refusals
      [] OTHER -> {}

signatureFromSerializedTransaction(tx) == tx.id
Own(chunk) ==
    IF \A i \in DOMAIN chunk : chunk[i].single
    THEN Signed([i \in DOMAIN chunk |-> signatureFromSerializedTransaction(chunk[i])])
    ELSE Failed(400)
Named(body, chunk) ==
    IF body = "signature" /\ Len(chunk) = 1 THEN <<chunk[1].id>> ELSE <<FOREIGN>>

extractSubmitSignatureBug(body, chunk, fallback) ==
    CASE body \in {"signature", "foreign", "words"} -> Signed(Named(body, chunk))
      [] OTHER -> IF fallback THEN Own(chunk) ELSE Failed(500)
extractSubmitSignature(body, chunk, fallback) ==
    CASE body \in {"signature", "foreign", "words"} -> Signed(Named(body, chunk))
      [] body = "error" -> Failed(429)
      [] OTHER -> IF fallback THEN Own(chunk) ELSE Failed(500)

\* What a client makes of the body it was answered with.
Reading(reply, body, chunk) ==
    CASE reply = "signature" -> extractSubmitSignature(body, chunk, FALSE)
      [] reply = "either" ->
            IF Own(chunk).ok THEN extractSubmitSignature(body, chunk, TRUE) ELSE Own(chunk)
      [] reply = "own" -> Own(chunk)
      [] reply = "exact" ->
            CASE body = "signature" -> Own(chunk)
              [] body = "error" -> Failed(429)
              [] OTHER -> Failed(500)
      [] \/ reply = "checked" /\ body = "error"
         \/ reply = "reason" /\ body = "reason" -> Failed(500)
      [] OTHER -> Signed(IF body \in {"signature", "foreign"} THEN Named(body, chunk) ELSE <<MISSING>>)

Refuses(client, key, chunk) ==
    \/ client.limit /\ \E i \in DOMAIN chunk : ~chunk[i].fits
    \/ client.reply = "exact" /\ ~Own(chunk).ok
    \/ client.keyed /\ ~key

(***************************************************************************)
(* All that can come of one request: what became of the chunk (the provider *)
(* took it, refused it, or refused it in words the client does not look    *)
(* for), and what the client answers.  It may have been taken when the     *)
(* answer is lost, and what goes down a stream may be lost without a word. *)
(***************************************************************************)
Fate(client, body) == IF body \in LooksFor(client.reply) THEN "refused" ELSE "unread"
Exchange(client, key, chunk) ==
    LET Lost == [fate : {"taken", "refused"}, answer : {Failed(NETWORK)}]
        Refused == [fate : {"refused"}, answer : {Failed(401), Failed(503)}]
        Accepted == {[fate |-> "taken", answer |-> Reading(client.reply, b, chunk)] :
                        b \in {b \in Acceptances : MayAnswer(client, b)}}
        Declined == {[fate |-> Fate(client, b), answer |-> Reading(client.reply, b, chunk)] :
                        b \in {b \in Refusals : MayAnswer(client, b)}}
        Unanswered == [fate : {"taken", "refused"}, answer : {Own(chunk)}]
    IN  IF client.via = "nowhere" THEN {[fate |-> "refused", answer |-> Failed(NETWORK)]}
        ELSE IF Refuses(client, key, chunk) THEN {[fate |-> "refused", answer |-> Failed(400)]}
        ELSE CASE client.via = "stream" -> Lost \cup Unanswered
               [] client.via = "kept" -> Lost \cup Unanswered \cup Refused
               [] OTHER -> Lost \cup Refused \cup Accepted \cup Declined

\* sendTransactions: what the next request of a batch carries.
NextChunk(client, batch) == IF client.batch = "each" THEN <<Head(batch)>> ELSE batch
=============================================================================
