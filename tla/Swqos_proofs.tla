---------------------------- MODULE Swqos_proofs ----------------------------
(***************************************************************************)
(* Proofs about Swqos, for any calls, providers, configurations and        *)
(* batches: a success was taken, a failover that failed asked everyone,    *)
(* and no connection is forgotten.                                         *)
(***************************************************************************)
EXTENDS Swqos, FiniteSetTheorems, SequenceTheorems, TLAPS

ClientRecs ==
    [via : {"http", "acked", "stream", "kept", "nowhere"}, limit : BOOLEAN,
     reply : {"signature", "either", "own", "exact", "checked", "reason", "unchecked"},
     batch : {"each", "whole", "bundle"}, keyed : BOOLEAN]
CallRecs ==
    [kind : {"none", "direct", "cached", "failover", "all", "bundle"}, pc : {"idle", "running", "done"},
     batch : Sent, array : Nat, at : Nat \ {0},
     answer : {"none", "success", "failed", "threw"}, stayed : SUBSET Providers,
     passed : SUBSET Providers]
Conns == [client : 0 .. MaxDials, pending : BOOLEAN, open : SUBSET (1 .. MaxDials),
          dials : 0 .. MaxDials]
Signatures == TxIds \cup {FOREIGN, MISSING}
Sending == {"ready", "connecting", "writing", "closing"}

Shape ==
    /\ setup \in Setups /\ installed \subseteq Providers /\ changes \in 0 .. setup.changes
    /\ arrays \in Seq(Seq(Providers)) /\ arrays # <<>>
    /\ call \in [Calls -> CallRecs] /\ \A c \in Calls : call[c].array \in DOMAIN arrays
    /\ sub \in [Calls -> [Providers -> Sub]]
    /\ quic \in [Providers -> Conns]

\* A client that is not told whether the provider took a transaction.
Silent(d) == d.via \in {"stream", "kept"}
Fates == {"taken", "refused", "unread"}
Firsts(batch, n) == [i \in 1 .. n |-> batch[i].id]

\* What a submission through the clients ds has sent, the provider took, or refused in
\* words that the client does not look for.
PartOf(s, ds) ==
    LET sent == Len(s.batch) - Len(s.rest)
        d == ds[s.leg]
    IN  /\ EndsWith(s.batch, s.rest)
        /\ Len(s.sigs) + Len(s.rest) <= Len(s.batch)
        /\ s.pc \in Sending => s.rest # <<>>
        /\ s.pc = "won" => s.rest = <<>>
        /\ s.pc \notin {"none", "threw"} =>
              /\ s.leg \in DOMAIN ds
              /\ Silent(d) \/ \A i \in 1 .. sent : s.batch[i].id \in s.taken \cup s.unread
              /\ d.reply \in {"own", "exact"} => s.sigs = Firsts(s.batch, sent)
        /\ s.pc \in {"connecting", "writing", "closing"} => ds[s.leg].via = "kept"
Parts == \A c \in Calls, p \in Providers : PartOf(sub[c][p], Clients(c, p))

\* A call submits nothing before it begins; one on a client of its own, through that
\* client only, and it returns when that is over.
InOrder(c) ==
    /\ call[c].pc = "idle" => /\ call[c].kind = "none" /\ call[c].answer = "none"
                              /\ \A p \in Providers : sub[c][p].pc = "none"
    /\ call[c].pc = "running" => call[c].answer = "none"
    /\ Kept(c) =>
          /\ \E p \in Providers :
                /\ call[c].stayed = {p} /\ setup.config[p].made = "factory"
                /\ \A q \in Providers \ {p} : sub[c][q].pc = "none"
          /\ call[c].pc = "done" => \A p \in Providers : sub[c][p].pc \notin Sending
    /\ call[c].kind = "cached" => \A p \in Providers :
          /\ sub[c][p].pc # "none" => Own(sub[c][p].batch).ok
          /\ call[c].answer = "success" /\ sub[c][p].pc = "won" =>
                sub[c][p].sigs = Firsts(sub[c][p].batch, Len(sub[c][p].batch))
Called == \A c \in Calls : InOrder(c)

\* While a failover runs, whoever stayed in its order was asked or is still ahead, or
\* was passed over.
Asks(c) ==
    Running(c, {"failover"}) =>
        /\ call[c].stayed \subseteq getAllClients /\ call[c].batch # <<>>
        /\ \A p \in Providers : sub[c][p].pc # "threw"
        /\ \A p \in call[c].stayed \ call[c].passed :
              \/ sub[c][p].pc # "none"
              \/ \E i \in call[c].at .. Len(LoopArray(c)) : LoopArray(c)[i] = p
Asking == \A c \in Calls : Asks(c)

\* While a connection is made there is none.
Connecting == \A p \in Providers : quic[p].pending => quic[p].client = NoConn

IInv == /\ Shape /\ Parts /\ Called /\ Asking /\ FailoverAsksAll
        /\ Connecting /\ ConnectionsOwned

-----------------------------------------------------------------------------
(* The clients and what they answer. *)

\* Every client of clients.ts is described.
LEMMA WireClients ==
    /\ {JitoClient, BloxrouteClient, ZeroSlotClient, FlashBlockClient, HeliusClient} \subseteq ClientRecs
    /\ {TemporalClient, TemporalQuicClient, Node1Client, Node1QuicClient} \subseteq ClientRecs
    /\ {BlockRazorClient, BlockRazorGrpcClient, AstralaneClient, AstralaneQuicClient}
            \subseteq ClientRecs
    /\ {StelliumClient, LightspeedClient, DefaultClient, SoyasClient, SpeedlandingClient}
            \subseteq ClientRecs
    /\ {SolamiClient, LunarLanderClient, LunarLanderQuicClient, GlaiveClient, GlaiveQuicClient}
            \subseteq ClientRecs
<1>1. \A reply \in {"signature", "either", "own", "exact"} : Posts(reply) \in ClientRecs
  BY DEF Posts, ClientRecs
<1>2. \A limit \in BOOLEAN : Streams(limit) \in ClientRecs
  BY DEF Streams, ClientRecs
<1>3. {JitoClient, TemporalClient, TemporalQuicClient, BlockRazorGrpcClient} \subseteq ClientRecs
  BY <1>1, ZenonT(30) DEF JitoClient, TemporalClient, TemporalQuicClient, BlockRazorGrpcClient, ClientRecs
<1>4. {Node1QuicClient, AstralaneQuicClient, SolamiClient} \subseteq ClientRecs
  BY <1>2 DEF Node1QuicClient, AstralaneQuicClient, SolamiClient, ClientRecs
<1> QED BY <1>1, <1>2, <1>3, <1>4
        DEF BloxrouteClient, ZeroSlotClient, FlashBlockClient, HeliusClient, Node1Client,
            BlockRazorClient, AstralaneClient, StelliumClient, LightspeedClient, DefaultClient,
            SoyasClient, SpeedlandingClient, LunarLanderClient, LunarLanderQuicClient,
            GlaiveClient, GlaiveQuicClient

\* The classes of providers.ts that post themselves too.
LEMMA PostingClasses ==
    (\A type \in Classes : ProviderClass(type) \in ClientRecs) /\ JitoBundleProvider \in ClientRecs
<1>1. \A reply \in {"checked", "reason", "unchecked"} : Posts(reply) \in ClientRecs
  BY DEF Posts, ClientRecs
<1>2. {JitoProvider, ZeroSlotProvider, TemporalProvider, Node1Provider, FlashBlockProvider,
       HeliusProvider, BloxrouteProvider, NextBlockProvider, StelliumProvider,
       LightspeedProvider, SoyasProvider, TritonProvider, QuickNodeProvider, SyndicaProvider,
       FigmentProvider, AlchemyProvider} \subseteq ClientRecs
  BY <1>1 DEF JitoProvider, ZeroSlotProvider, TemporalProvider, Node1Provider,
              FlashBlockProvider, HeliusProvider, BloxrouteProvider, NextBlockProvider,
              StelliumProvider, LightspeedProvider, SoyasProvider, TritonProvider,
              QuickNodeProvider, SyndicaProvider, FigmentProvider, AlchemyProvider
<1>3. JitoBundleProvider \in ClientRecs
  BY DEF JitoBundleProvider, Posts, ClientRecs
<1> QED BY <1>2, <1>3 DEF ProviderClass, Classes

\* Whatever the configuration, a submission has at most two clients, each of a kind
\* that is described.
LEMMA ClientsAreRecords ==
    ASSUME NEW cfg \in Configurations, NEW bundle \in BOOLEAN
    PROVE  /\ cfg.made = "factory" => createClient(cfg) \in Seq(ClientRecs) /\ Len(createClient(cfg)) <= 2
           /\ senderOf(cfg, bundle) \in Seq(ClientRecs) /\ Len(senderOf(cfg, bundle)) <= 2
<1> DEFINE Fine(ds) == ds \in Seq(ClientRecs) /\ Len(ds) <= 2
<1>1. ASSUME NEW d \in ClientRecs PROVE Fine(<<d>>)
  BY <1>1
<1>2. ASSUME NEW d \in ClientRecs, NEW e \in ClientRecs PROVE Fine(<<d, e>>)
  BY <1>2
<1>3. Fine(Thrown)
  BY DEF Thrown
<1> HIDE DEF Fine
<1>4. ASSUME NEW d \in ClientRecs, NEW e \in ClientRecs,
             NEW unsupported \in {"Grpc", "Quic", "none"}
      PROVE  Fine(QuicFirst(cfg, d, e, unsupported))
  <2>1. CASE cfg.transport = unsupported
    BY <1>3, <2>1 DEF QuicFirst
  <2>2. CASE cfg.transport # unsupported
    BY <1>1, <1>2, <2>2 DEF QuicFirst
  <2> QED BY <2>1, <2>2
<1>5. ASSUME NEW d \in ClientRecs, NEW e \in ClientRecs
      PROVE  Fine(HttpOrQuic(cfg, d, e))
  BY <1>1, <1>3 DEF HttpOrQuic
<1>6. cfg.made = "factory" => Fine(createClient(cfg))
  <2> SUFFICES ASSUME cfg.made = "factory" PROVE Fine(createClient(cfg))
    OBVIOUS
  <2>1. cfg.type \in Types
    BY DEF Configurations, ConfiguredAs
  <2>2. CASE cfg.type \in {"Temporal", "BlockRazor", "Astralane"}
    BY <1>4, <2>2, WireClients DEF createClient, Blacklisted, Unsupported
  <2>3. CASE cfg.type \in {"Node1", "Lightspeed", "NextBlock"} \cup Unsupported
    BY <1>1, <1>3, <2>3, WireClients DEF createClient, Blacklisted, Unsupported
  <2>4. CASE cfg.type \in {"LunarLander", "Glaive"}
    BY <1>3, <1>5, <2>4, WireClients DEF createClient, Blacklisted, Unsupported
  <2>5. CASE cfg.type \in {"Jito", "Bloxroute", "ZeroSlot", "FlashBlock", "Helius", "Stellium",
                           "Soyas", "Speedlanding", "Solami", "Default"}
    <3>1. Plain(cfg.type) \in ClientRecs
      BY <2>5, WireClients DEF Plain
    <3>2. createClient(cfg) = <<Plain(cfg.type)>>
      BY <2>5 DEF createClient, Blacklisted, Unsupported
    <3> QED BY <1>1, <3>1, <3>2
  <2> QED BY <2>1, <2>2, <2>3, <2>4, <2>5 DEF Types, Unsupported
<1>7. Fine(senderOf(cfg, bundle))
  <2>1. CASE cfg.made = "class"
    <3>1. cfg.type \in Classes
      BY <2>1 DEF Configurations, ConfiguredAs
    <3> QED BY <1>1, <2>1, <3>1, PostingClasses DEF senderOf
  <2>2. CASE cfg.made = "factory"
    <3>1. NowhereToPost \in ClientRecs
      BY DEF NowhereToPost, Posts, ClientRecs
    <3> QED BY <1>1, <1>6, <2>2, <3>1 DEF senderOf, PostsBundles
  <2> QED BY <2>1, <2>2 DEF Configurations, ConfiguredAs
<1> QED BY <1>6, <1>7 DEF Fine

\* The transaction's own signatures, where each has one.
LEMMA OwnSignatures ==
    ASSUME NEW chunk \in Seq(Transactions)
    PROVE  \/ Own(chunk).ok /\ Own(chunk).sigs = Firsts(chunk, Len(chunk))
           \/ ~Own(chunk).ok /\ Own(chunk).code \in Nat
<1>1. Firsts(chunk, Len(chunk)) = [i \in DOMAIN chunk |-> chunk[i].id]
  BY DEF Firsts
<1> QED BY <1>1 DEF Own, Signed, Failed, signatureFromSerializedTransaction

\* An answer that the client may give: after a success the provider has not refused the
\* chunk in words that the client looks for, unless it is not told, and its signatures
\* are the chunk's own unless the provider's word is taken.
Plausible(d, chunk, fate, answer) ==
    \/ /\ answer.ok
       /\ answer.sigs \in Seq(Signatures) /\ Len(answer.sigs) <= Len(chunk)
       /\ fate # "refused" \/ Silent(d)
       /\ d.reply \in {"own", "exact"} => answer.sigs = Firsts(chunk, Len(chunk))
    \/ ~answer.ok /\ answer.code \in Nat

\* The signatures of a chunk are as many as its transactions.
LEMMA FirstsTypes ==
    ASSUME NEW chunk \in Seq(Transactions), NEW n \in 0 .. Len(chunk)
    PROVE  Firsts(chunk, n) \in Seq(Signatures) /\ Len(Firsts(chunk, n)) = n
<1>1. \A i \in 1 .. n : chunk[i] \in Transactions
  OBVIOUS
<1>2. \A i \in 1 .. n : chunk[i].id \in Signatures
  BY <1>1 DEF Signatures, TxIds
<1>3. Firsts(chunk, n) \in [1 .. n -> Signatures]
  BY <1>2 DEF Firsts
<1>4. n \in Nat
  OBVIOUS
<1> QED BY <1>3, <1>4

\* What a client reads out of a body is plausible: no success where it looks for the
\* refusal.
LEMMA ReadingIsPlausible ==
    ASSUME NEW d \in ClientRecs, NEW chunk \in Seq(Transactions), chunk # <<>>,
           NEW b \in Bodies, NEW fate, fate = "refused" => b \in LooksFor(d.reply)
    PROVE  Plausible(d, chunk, fate, Reading(d.reply, b, chunk))
<1> DEFINE own == Firsts(chunk, Len(chunk))
<1>0. Len(chunk) \in Nat /\ Len(chunk) >= 1 /\ own \in Seq(Signatures) /\ Len(own) = Len(chunk)
  BY FirstsTypes
<1>1. Named(b, chunk) \in Seq(Signatures) /\ Len(Named(b, chunk)) = 1
  <2>1. chunk[1].id \in Signatures
    BY <1>0 DEF Signatures, TxIds
  <2>2. <<chunk[1].id>> \in Seq(Signatures) /\ <<FOREIGN>> \in Seq(Signatures)
    BY <2>1 DEF Signatures
  <2> QED BY <2>2 DEF Named
<1>2. <<MISSING>> \in Seq(Signatures) /\ Len(<<MISSING>>) = 1
  BY DEF Signatures
<1>3. \/ Own(chunk).ok /\ Own(chunk).sigs = own
      \/ ~Own(chunk).ok /\ Own(chunk).code \in Nat
  BY OwnSignatures
<1> HIDE DEF own
<1>4. CASE d.reply = "signature"
  <2>1. Reading(d.reply, b, chunk) = extractSubmitSignature(b, chunk, FALSE)
    BY <1>4 DEF Reading
  <2>2. CASE b \in {"signature", "foreign", "words"}
    <3>1. Reading(d.reply, b, chunk) = Signed(Named(b, chunk))
      BY <2>1, <2>2 DEF extractSubmitSignature
    <3>2. fate # "refused"
      BY <1>4, <2>2 DEF LooksFor
    <3> QED BY <1>0, <1>1, <1>4, <3>1, <3>2 DEF Plausible, Signed
  <2>3. CASE b \notin {"signature", "foreign", "words"}
    BY <2>1, <2>3 DEF extractSubmitSignature, Plausible, Failed
  <2> QED BY <2>2, <2>3
<1>5. CASE d.reply = "either"
  <2>1. CASE ~Own(chunk).ok
    BY <1>3, <1>5, <2>1 DEF Reading, Plausible
  <2>2. CASE Own(chunk).ok
    <3>1. Reading(d.reply, b, chunk) = extractSubmitSignature(b, chunk, TRUE)
      BY <1>5, <2>2 DEF Reading
    <3>2. CASE b = "error"
      BY <3>1, <3>2 DEF extractSubmitSignature, Plausible, Failed
    <3>3. b # "error" => fate # "refused"
      BY <1>5 DEF LooksFor
    <3>4. CASE b \in {"signature", "foreign", "words"}
      <4>1. Reading(d.reply, b, chunk) = Signed(Named(b, chunk))
        BY <3>1, <3>4 DEF extractSubmitSignature
      <4> QED BY <1>0, <1>1, <1>5, <3>3, <3>4, <4>1 DEF Plausible, Signed
    <3>5. CASE b \notin {"signature", "foreign", "words", "error"}
      <4>1. Reading(d.reply, b, chunk) = Own(chunk)
        BY <3>1, <3>5 DEF extractSubmitSignature
      <4> QED BY <1>0, <1>3, <1>5, <2>2, <3>3, <3>5, <4>1 DEF Plausible
    <3> QED BY <3>2, <3>4, <3>5
  <2> QED BY <2>1, <2>2
<1>6. CASE d.reply = "own"
  <2>1. Reading(d.reply, b, chunk) = Own(chunk) /\ fate # "refused"
    BY <1>6 DEF Reading, LooksFor
  <2> QED BY <1>0, <1>3, <2>1 DEF Plausible, own
<1>7. CASE d.reply = "exact"
  <2>1. CASE b = "signature"
    <3>1. Reading(d.reply, b, chunk) = Own(chunk) /\ fate # "refused"
      BY <1>7, <2>1 DEF Reading, LooksFor, Refusals
    <3> QED BY <1>0, <1>3, <3>1 DEF Plausible, own
  <2>2. CASE b # "signature"
    BY <1>7, <2>2 DEF Reading, Failed, Plausible
  <2> QED BY <2>1, <2>2
<1>8. CASE d.reply \in {"checked", "reason", "unchecked"}
  <2>1. CASE (d.reply = "checked" /\ b = "error") \/ (d.reply = "reason" /\ b = "reason")
    BY <1>8, <2>1 DEF Reading, Failed, Plausible
  <2>2. CASE ~((d.reply = "checked" /\ b = "error") \/ (d.reply = "reason" /\ b = "reason"))
    <3> DEFINE sigs == IF b \in {"signature", "foreign"} THEN Named(b, chunk) ELSE <<MISSING>>
    <3>1. Reading(d.reply, b, chunk) = Signed(sigs)
      BY <1>8, <2>2 DEF Reading
    <3>2. sigs \in Seq(Signatures) /\ Len(sigs) = 1
      BY <1>1, <1>2
    <3> HIDE DEF sigs
    <3>3. fate # "refused"
      BY <1>8, <2>2 DEF LooksFor
    <3> QED BY <1>0, <1>8, <3>1, <3>2, <3>3 DEF Plausible, Signed
  <2> QED BY <2>1, <2>2
<1> QED BY <1>4, <1>5, <1>6, <1>7, <1>8 DEF ClientRecs

\* All that can come of a request is plausible.
LEMMA ExchangeIsPlausible ==
    ASSUME NEW d \in ClientRecs, NEW key, NEW chunk \in Seq(Transactions), chunk # <<>>,
           NEW o \in Exchange(d, key, chunk)
    PROVE  o.fate \in Fates /\ Plausible(d, chunk, o.fate, o.answer)
<1> DEFINE Lost == [fate : {"taken", "refused"}, answer : {Failed(NETWORK)}]
           Refused == [fate : {"refused"}, answer : {Failed(401), Failed(503)}]
           Accepted == {[fate |-> "taken", answer |-> Reading(d.reply, b, chunk)] :
                           b \in {b \in Acceptances : MayAnswer(d, b)}}
           Declined == {[fate |-> Fate(d, b), answer |-> Reading(d.reply, b, chunk)] :
                           b \in {b \in Refusals : MayAnswer(d, b)}}
           Unanswered == [fate : {"taken", "refused"}, answer : {Own(chunk)}]
           Fine == o.fate \in Fates /\ Plausible(d, chunk, o.fate, o.answer)
<1>1. ASSUME NEW code \in Nat, o.answer = Failed(code), o.fate \in Fates PROVE Fine
  BY <1>1 DEF Failed, Plausible
<1>2. o \in Lost \cup Refused => Fine
  <2>1. o \in Lost => o.answer = Failed(0) /\ o.fate \in Fates
    BY DEF NETWORK, Fates
  <2>2. o \in Refused => o.fate \in {"refused"} /\ o.answer \in {Failed(401), Failed(503)}
    OBVIOUS
  <2>3. "refused" \in Fates
    BY DEF Fates
  <2> HIDE DEF Lost, Refused, Fine
  <2> QED BY <1>1, <2>1, <2>2, <2>3
<1>3. o \in Accepted \cup Declined => Fine
  <2>1. ASSUME o \in Accepted PROVE Fine
    <3>1. PICK b \in Acceptances : o = [fate |-> "taken", answer |-> Reading(d.reply, b, chunk)]
      BY <2>1
    <3>2. o.fate = "taken" /\ o.answer = Reading(d.reply, b, chunk) /\ b \in Bodies
      BY <3>1 DEF Bodies
    <3> QED BY <3>2, ReadingIsPlausible DEF Fates
  <2>2. ASSUME o \in Declined PROVE Fine
    <3>1. PICK b \in Refusals : o = [fate |-> Fate(d, b), answer |-> Reading(d.reply, b, chunk)]
      BY <2>2
    <3>2. o.fate = Fate(d, b) /\ o.answer = Reading(d.reply, b, chunk) /\ b \in Bodies
      BY <3>1 DEF Bodies
    <3>3. o.fate \in {"refused", "unread"} /\ (o.fate = "refused" => b \in LooksFor(d.reply))
      BY <3>2 DEF Fate
    <3> QED BY <3>2, <3>3, ReadingIsPlausible DEF Fates
  <2> HIDE DEF Accepted, Declined, Fine
  <2> QED BY <2>1, <2>2
<1>4. o \in Unanswered /\ Silent(d) => Fine
  <2>1. /\ Firsts(chunk, Len(chunk)) \in Seq(Signatures)
        /\ Len(Firsts(chunk, Len(chunk))) = Len(chunk) /\ Len(chunk) \in Nat
    BY FirstsTypes
  <2>2. o \in Unanswered => o.fate \in Fates /\ o.answer = Own(chunk)
    BY DEF Fates
  <2> HIDE DEF Unanswered
  <2> QED BY <2>1, <2>2, OwnSignatures DEF Plausible
<1> SUFFICES Fine
  OBVIOUS
<1> HIDE DEF Fine
<1>5. CASE d.via = "nowhere"
  <2>1. o = [fate |-> "refused", answer |-> Failed(0)]
    BY <1>5 DEF Exchange, NETWORK
  <2>2. o.fate \in Fates /\ o.answer = Failed(0)
    BY <2>1 DEF Fates
  <2> QED BY <1>1, <2>2
<1>6. CASE d.via # "nowhere" /\ Refuses(d, key, chunk)
  <2>1. o = [fate |-> "refused", answer |-> Failed(400)]
    BY <1>6 DEF Exchange
  <2>2. o.fate \in Fates /\ o.answer = Failed(400)
    BY <2>1 DEF Fates
  <2> QED BY <1>1, <2>2
<1>7. CASE d.via # "nowhere" /\ ~Refuses(d, key, chunk)
  <2>1. CASE d.via = "stream"
    <3>1. o \in Lost \cup Unanswered
      BY <1>7, <2>1 DEF Exchange
    <3>2. Silent(d)
      BY <2>1 DEF Silent
    <3> HIDE DEF Lost, Refused, Unanswered
    <3> QED BY <1>2, <1>4, <3>1, <3>2
  <2>2. CASE d.via = "kept"
    <3>0. Exchange(d, key, chunk) = Lost \cup Unanswered \cup Refused
      BY <1>7, <2>2, ZenonT(30) DEF Exchange
    <3>1. Silent(d)
      BY <2>2 DEF Silent
    <3> HIDE DEF Lost, Refused, Unanswered
    <3>2. o \in Lost \cup Unanswered \cup Refused
      BY <3>0
    <3> QED BY <1>2, <1>4, <3>1, <3>2
  <2>3. CASE d.via \notin {"stream", "kept"}
    <3>0. Exchange(d, key, chunk) = Lost \cup Refused \cup Accepted \cup Declined
      BY <1>7, <2>3, ZenonT(30) DEF Exchange
    <3> HIDE DEF Lost, Refused, Accepted, Declined
    <3>1. o \in Lost \cup Refused \cup Accepted \cup Declined
      BY <3>0
    <3> QED BY <1>2, <1>3, <3>1
  <2> QED BY <2>1, <2>2, <2>3
<1> QED BY <1>5, <1>6, <1>7

-----------------------------------------------------------------------------
(* Submissions. *)

\* The end of a batch without its first transactions is an end of it.
LEMMA Shorter ==
    ASSUME NEW rest \in Seq(Transactions), NEW n \in 1 .. Len(rest)
    PROVE  LET left == SubSeq(rest, n + 1, Len(rest)) IN
           /\ left \in Seq(Transactions) /\ Len(left) = Len(rest) - n
           /\ \A i \in 1 .. Len(rest) - n : left[i] = rest[n + i]
<1>1. n \in Nat /\ Len(rest) \in Nat /\ n + 1 \in Int /\ Len(rest) \in Int /\ n <= Len(rest)
  OBVIOUS
<1>2. \A i \in n + 1 .. Len(rest) : rest[i] \in Transactions
  BY <1>1
<1>3. /\ SubSeq(rest, n + 1, Len(rest)) \in Seq(Transactions)
      /\ Len(SubSeq(rest, n + 1, Len(rest))) =
            IF n + 1 <= Len(rest) THEN Len(rest) - (n + 1) + 1 ELSE 0
      /\ \A i \in 1 .. Len(rest) - (n + 1) + 1 :
            SubSeq(rest, n + 1, Len(rest))[i] = rest[n + 1 + i - 1]
  BY <1>1, <1>2, SubSeqProperties
<1> QED BY <1>1, <1>3

\* Two sequences of signatures, one after the other.
LEMMA Joined ==
    ASSUME NEW x \in Seq(Signatures), NEW y \in Seq(Signatures)
    PROVE  /\ x \o y \in Seq(Signatures) /\ Len(x \o y) = Len(x) + Len(y)
           /\ \A i \in 1 .. Len(x) + Len(y) :
                 (x \o y)[i] = IF i <= Len(x) THEN x[i] ELSE y[i - Len(x)]
BY ConcatProperties

\* A batch that may be sent is one of transactions.
LEMMA SentTypes == Sent \subseteq Seq(Transactions)
<1>1. \A b \in Batches : b \in Seq(Transactions) /\ Len(b) >= 1
  BY SwqosAssumption
<1>2. \A b \in Batches : b[1] \in Transactions
  BY <1>1
<1>3. \A b \in Batches : <<b[1]>> \in Seq(Transactions)
  BY <1>2
<1>4. <<>> \in Seq(Transactions)
  OBVIOUS
<1> QED BY <1>1, <1>3, <1>4 DEF Sent

\* A request that is answered plausibly leaves its submission in order: what it counts
\* as sent was taken, and is signed with its own signatures.
LEMMA AnswerKeeps ==
    ASSUME NEW c \in Calls, NEW p \in Providers, NEW ds, ds = Clients(c, p),
           ds \in Seq(ClientRecs), Len(ds) <= 2,
           sub[c][p] \in Sub, sub[c][p].batch # <<>>, PartOf(sub[c][p], ds),
           sub[c][p].pc \in Sending,
           NEW chunk \in Seq(Transactions), chunk # <<>>,
           Len(chunk) <= Len(sub[c][p].rest),
           \A i \in DOMAIN chunk : chunk[i] = sub[c][p].rest[i],
           NEW fate \in Fates, NEW answer,
           Plausible(ds[sub[c][p].leg], chunk, fate, answer)
    PROVE  LET s == Answer(c, p, chunk, fate, answer) IN
           /\ s \in Sub /\ s.batch = sub[c][p].batch /\ s.pc \in {"ready", "won", "lost"}
           /\ PartOf(s, ds)
<1> DEFINE s == sub[c][p]
           t == [s EXCEPT !.taken = @ \cup (IF fate = "taken" THEN Ids(chunk) ELSE {}),
                          !.unread = @ \cup (IF fate = "unread" THEN Ids(chunk) ELSE {}),
                          !.tries = 1, !.conn = NoConn]
           left == SubSeq(s.rest, Len(chunk) + 1, Len(s.rest))
           d == ds[s.leg]
           sent == Len(s.batch) - Len(s.rest)
<1>1. /\ s.batch \in Seq(Transactions) /\ s.rest \in Seq(Transactions)
      /\ s.sigs \in Seq(Signatures) /\ s.taken \subseteq TxIds /\ s.unread \subseteq TxIds
      /\ s.leg \in 1 .. 2
      /\ s.code \in Nat
  BY SentTypes DEF Sub, Signatures
<1>2. Len(chunk) \in 1 .. Len(s.rest) /\ Len(s.rest) \in Nat /\ Len(s.batch) \in Nat
      /\ Len(s.sigs) \in Nat
  <2>1. Len(chunk) \in Nat /\ Len(chunk) >= 1 /\ Len(s.rest) \in Nat /\ Len(s.batch) \in Nat
    <3> HIDE DEF s
    <3> QED BY <1>1, EmptySeq, LenProperties
  <2>2. Len(s.sigs) \in Nat
    <3> HIDE DEF s
    <3> QED BY <1>1, LenProperties
  <2> QED BY <2>1, <2>2
<1>3. /\ left \in Seq(Transactions) /\ Len(left) = Len(s.rest) - Len(chunk)
      /\ \A i \in 1 .. Len(s.rest) - Len(chunk) : left[i] = s.rest[Len(chunk) + i]
  BY <1>1, <1>2, Shorter
<1>4. /\ EndsWith(s.batch, s.rest) /\ Len(s.sigs) + Len(s.rest) <= Len(s.batch)
      /\ s.leg \in DOMAIN ds
      /\ Silent(d) \/ \A i \in 1 .. sent : s.batch[i].id \in s.taken \cup s.unread
      /\ d.reply \in {"own", "exact"} => s.sigs = Firsts(s.batch, sent)
  BY DEF PartOf, Sending
<1>5. Ids(chunk) \subseteq TxIds
  BY DEF Ids, TxIds
<1>6. /\ t \in Sub /\ t.batch = s.batch /\ t.leg = s.leg /\ t.sigs = s.sigs /\ t.rest = s.rest
      /\ t.taken = s.taken \cup (IF fate = "taken" THEN Ids(chunk) ELSE {})
      /\ t.unread = s.unread \cup (IF fate = "unread" THEN Ids(chunk) ELSE {})
      /\ t.pc = s.pc /\ t.code = s.code
  <2> DEFINE tk == s.taken \cup (IF fate = "taken" THEN Ids(chunk) ELSE {})
             un == s.unread \cup (IF fate = "unread" THEN Ids(chunk) ELSE {})
  <2>1. tk \in SUBSET TxIds /\ un \in SUBSET TxIds
    BY <1>1, <1>5
  <2>2. NoConn \in 0 .. MaxDials /\ 1 \in 1 .. 2
    BY SwqosAssumption DEF NoConn
  <2>3. t = [s EXCEPT !.taken = tk, !.unread = un, !.tries = 1, !.conn = NoConn] /\ s \in Sub
    BY DEF Sub
  <2> HIDE DEF tk, un, t, s
  <2>4. /\ t \in Sub /\ t.batch = s.batch /\ t.leg = s.leg /\ t.sigs = s.sigs
        /\ t.rest = s.rest /\ t.taken = tk /\ t.unread = un /\ t.pc = s.pc /\ t.code = s.code
    BY <2>1, <2>2, <2>3 DEF Sub
  <2> QED BY <2>4 DEF tk, un
<1>7. Answer(c, p, chunk, fate, answer) =
         CASE answer.ok -> [t EXCEPT !.rest = left, !.sigs = @ \o answer.sigs,
                                     !.pc = IF left = <<>> THEN "won" ELSE "ready"]
           [] ~answer.ok /\ t.leg < Len(ds) /\ shouldFallbackTransport(answer.code) -> StandIn(t)
           [] OTHER -> [t EXCEPT !.pc = "lost", !.code = answer.code]
  BY <1>6 DEF Answer
<1> DEFINE u == Answer(c, p, chunk, fate, answer)
           Fine == /\ u \in Sub /\ u.batch = s.batch /\ u.pc \in {"ready", "won", "lost"}
                   /\ PartOf(u, ds)
<1> SUFFICES Fine
  OBVIOUS
<1> HIDE DEF Fine
<1>8. CASE answer.ok
  <2> DEFINE sigs == s.sigs \o answer.sigs
             k == Len(chunk)
             r == Len(s.rest)
             b == Len(s.batch)
             g == Len(s.sigs)
             h == Len(answer.sigs)
  <2>1. /\ answer.sigs \in Seq(Signatures) /\ h <= k
        /\ fate # "refused" \/ Silent(d)
        /\ d.reply \in {"own", "exact"} => answer.sigs = Firsts(chunk, k)
    BY <1>8 DEF Plausible
  <2>2. /\ sigs \in Seq(Signatures) /\ Len(sigs) = g + h
        /\ \A i \in 1 .. g + h : sigs[i] = IF i <= g THEN s.sigs[i] ELSE answer.sigs[i - g]
    <3>1. s.sigs \in Seq(Signatures) /\ answer.sigs \in Seq(Signatures)
      BY <1>1, <2>1
    <3> HIDE DEF s
    <3> QED BY <3>1, Joined
  <2>3. /\ k \in Nat /\ r \in Nat /\ b \in Nat /\ g \in Nat /\ h \in Nat
        /\ 1 <= k /\ k <= r /\ r <= b /\ g + r <= b /\ h <= k
        /\ sent = b - r /\ Len(left) = r - k
    <3>1. k \in Nat /\ 1 <= k /\ k <= r
      BY <1>2
    <3>2. h \in Nat
      BY <2>1
    <3>3. r <= b /\ g + r <= b
      BY <1>4 DEF EndsWith
    <3>4. sent = b - r
      BY DEF sent
    <3> QED BY <1>2, <1>3, <2>1, <3>1, <3>2, <3>3, <3>4
  <2>4. DOMAIN s.rest = 1 .. r /\ DOMAIN left = 1 .. r - k /\ DOMAIN chunk = 1 .. k
    BY <1>1, <1>3, <2>3
  <2>5. u = [t EXCEPT !.rest = left, !.sigs = sigs,
                      !.pc = IF left = <<>> THEN "won" ELSE "ready"]
    BY <1>6, <1>7, <1>8, SMTT(20)
  <2>6. /\ \A i \in 1 .. r : s.rest[i] = s.batch[b - r + i]
        /\ \A i \in 1 .. k : chunk[i] = s.rest[i]
        /\ \A i \in 1 .. r - k : left[i] = s.rest[k + i]
    BY <1>3, <1>4, <2>4 DEF EndsWith
  <2>7. /\ Silent(d) \/ \A i \in 1 .. sent : s.batch[i].id \in s.taken \cup s.unread
        /\ d.reply \in {"own", "exact"} => s.sigs = Firsts(s.batch, sent)
        /\ s.leg \in DOMAIN ds
    BY <1>4
  <2> HIDE DEF s, t, left, u, d, sent, sigs, k, r, b, g, h
  <2>8. /\ u \in Sub /\ u.batch = s.batch /\ u.leg = s.leg /\ u.sigs = sigs /\ u.rest = left
        /\ u.taken = t.taken /\ u.unread = t.unread
        /\ u.pc = IF left = <<>> THEN "won" ELSE "ready"
    BY <1>3, <1>6, <2>2, <2>5 DEF Sub, Signatures, Over
  <2>9. /\ EndsWith(s.batch, left)
        /\ Len(sigs) + Len(left) <= Len(s.batch)
        /\ Len(s.batch) - Len(left) = sent + k
    <3>1. Len(s.batch) = b
      BY DEF b
    <3>2. ASSUME NEW i \in 1 .. r - k PROVE left[i] = s.batch[b - (r - k) + i]
      <4>1. k + i \in 1 .. r /\ b - r + (k + i) = b - (r - k) + i
        BY <2>3
      <4> QED BY <2>6, <4>1
    <3>3. \A i \in DOMAIN left : left[i] = s.batch[Len(s.batch) - Len(left) + i]
      BY <2>3, <2>4, <3>1, <3>2
    <3> QED BY <2>2, <2>3, <3>1, <3>3 DEF EndsWith
  <2>10. ASSUME NEW i \in 1 .. sent + k, ~(i <= sent)
         PROVE  i - sent \in 1 .. k /\ s.batch[i] = chunk[i - sent]
    <3>1. i - sent \in 1 .. k /\ i - sent \in 1 .. r /\ b - r + (i - sent) = i
      BY <2>3, <2>10
    <3> QED BY <2>6, <3>1
  <2>11. Silent(d) \/ \A i \in 1 .. sent + k : s.batch[i].id \in t.taken \cup t.unread
    <3> SUFFICES ASSUME ~Silent(d), NEW i \in 1 .. sent + k
                 PROVE  s.batch[i].id \in t.taken \cup t.unread
      OBVIOUS
    <3>1. t.taken \cup t.unread = s.taken \cup s.unread \cup Ids(chunk)
      BY <1>6, <2>1 DEF Fates
    <3>2. CASE i <= sent
      <4>1. i \in 1 .. sent
        BY <2>3, <3>2
      <4> QED BY <2>7, <3>1, <4>1
    <3>3. CASE ~(i <= sent)
      <4>1. i - sent \in DOMAIN chunk /\ s.batch[i] = chunk[i - sent]
        BY <2>4, <2>10, <3>3
      <4> QED BY <3>1, <4>1 DEF Ids
    <3> QED BY <3>2, <3>3
  <2>12. d.reply \in {"own", "exact"} => sigs = Firsts(s.batch, sent + k)
    <3> SUFFICES ASSUME d.reply \in {"own", "exact"} PROVE sigs = Firsts(s.batch, sent + k)
      OBVIOUS
    <3>1. s.sigs = Firsts(s.batch, sent) /\ answer.sigs = Firsts(chunk, k)
      BY <2>1, <2>7
    <3>2. sent \in 0 .. b /\ sent + k \in 0 .. b /\ k \in 0 .. k
      BY <2>3
    <3>3. g = sent /\ h = k
      BY <1>1, <3>1, <3>2, FirstsTypes DEF g, h, b, k
    <3>4. Firsts(s.batch, sent + k) \in Seq(Signatures) /\ Len(Firsts(s.batch, sent + k)) = sent + k
      BY <1>1, <3>2, FirstsTypes DEF b
    <3>5. ASSUME NEW i \in 1 .. sent + k PROVE sigs[i] = Firsts(s.batch, sent + k)[i]
      <4>1. Firsts(s.batch, sent + k)[i] = s.batch[i].id
        BY DEF Firsts
      <4>2. CASE i <= sent
        <5>1. i \in 1 .. sent /\ i \in 1 .. g + h
          BY <2>3, <3>3, <4>2
        <5>2. s.sigs[i] = s.batch[i].id
          BY <3>1, <5>1 DEF Firsts
        <5> QED BY <2>2, <3>3, <4>1, <4>2, <5>1, <5>2
      <4>3. CASE ~(i <= sent)
        <5>1. i - sent \in 1 .. k /\ s.batch[i] = chunk[i - sent]
          BY <2>10, <4>3
        <5>2. answer.sigs[i - sent] = chunk[i - sent].id
          BY <3>1, <5>1 DEF Firsts
        <5> QED BY <2>2, <3>3, <4>1, <4>3, <5>1, <5>2
      <4> QED BY <4>2, <4>3
    <3>6. Len(sigs) = Len(Firsts(s.batch, sent + k))
          /\ \A i \in 1 .. Len(sigs) : sigs[i] = Firsts(s.batch, sent + k)[i]
      BY <2>2, <3>3, <3>4, <3>5
    <3> QED BY <2>2, <3>4, <3>6, SeqEqual
  <2>13. PartOf(u, ds)
    <3>1. u.pc \in {"won", "ready"} /\ (u.pc = "won" <=> u.rest = <<>>)
      BY <2>8
    <3>2. ds[u.leg] = d /\ u.leg \in DOMAIN ds
      BY <2>7, <2>8 DEF d
    <3> QED BY <2>8, <2>9, <2>11, <2>12, <3>1, <3>2 DEF PartOf, Sending
  <2> QED BY <2>8, <2>13 DEF Fine
<1>9. CASE ~answer.ok /\ t.leg < Len(ds) /\ shouldFallbackTransport(answer.code)
  <2>1. u = [t EXCEPT !.leg = 2, !.rest = t.batch, !.sigs = <<>>, !.unread = {},
                      !.pc = "ready"]
    BY <1>7, <1>9 DEF StandIn
  <2>2. 2 \in DOMAIN ds /\ 2 \in 1 .. 2 /\ {} \in SUBSET TxIds
    BY <1>1, <1>6, <1>9
  <2>3. t.batch \in Seq(Transactions) /\ <<>> \in Seq(Signatures) /\ Len(<<>>) = 0
        /\ t.batch # <<>> /\ Len(t.batch) \in Nat
    BY <1>1, <1>6, SMTT(20)
  <2> HIDE DEF s, t, u
  <2>4. /\ u \in Sub /\ u.batch = t.batch /\ u.leg = 2 /\ u.sigs = <<>> /\ u.rest = t.batch
        /\ u.pc = "ready"
    BY <1>6, <2>1, <2>2, <2>3 DEF Sub, Signatures
  <2>5. Firsts(u.batch, 0) = <<>>
    BY DEF Firsts
  <2>6. Len(u.batch) - Len(u.rest) = 0 /\ EndsWith(u.batch, u.rest)
    BY <2>3, <2>4 DEF EndsWith
  <2>7. PartOf(u, ds)
    <3>1. u.leg \in DOMAIN ds /\ u.rest # <<>>
      BY <2>2, <2>3, <2>4
    <3>2. \A i \in 1 .. 0 : u.batch[i].id \in u.taken \cup u.unread
      OBVIOUS
    <3>3. Len(u.sigs) + Len(u.rest) <= Len(u.batch)
      BY <2>3, <2>4
    <3> QED BY <2>4, <2>5, <2>6, <3>1, <3>2, <3>3 DEF PartOf
  <2> QED BY <1>6, <2>4, <2>7 DEF Fine
<1>10. CASE ~answer.ok /\ ~(t.leg < Len(ds) /\ shouldFallbackTransport(answer.code))
  <2>1. u = [t EXCEPT !.pc = "lost", !.code = answer.code] /\ answer.code \in Nat
    BY <1>7, <1>10 DEF Plausible
  <2> HIDE DEF s, t, u
  <2>2. /\ u \in Sub /\ u.batch = s.batch /\ u.leg = s.leg /\ u.sigs = s.sigs
        /\ u.rest = s.rest /\ u.pc = "lost" /\ u.taken = t.taken /\ u.unread = t.unread
        /\ s.taken \cup s.unread \subseteq t.taken \cup t.unread
    BY <1>6, <2>1 DEF Sub, Over
  <2>3. PartOf(u, ds)
    BY <1>4, <2>2 DEF PartOf, Sending, sent, d
  <2> QED BY <2>2, <2>3 DEF Fine
<1> QED BY <1>8, <1>9, <1>10

\* What a submission that is under way is made of.
LEMMA UnderWay ==
    ASSUME IInv, NEW c \in Calls, NEW p \in Providers, sub[c][p].pc \in Sending
    PROVE  /\ Clients(c, p) \in Seq(ClientRecs) /\ Len(Clients(c, p)) <= 2
           /\ Client(c, p) \in ClientRecs
           /\ sub[c][p] \in Sub /\ PartOf(sub[c][p], Clients(c, p))
           /\ sub[c][p].rest \in Seq(Transactions) /\ sub[c][p].rest # <<>>
           /\ sub[c][p].batch # <<>>
<1>1. sub[c][p] \in Sub /\ PartOf(sub[c][p], Clients(c, p))
  BY DEF IInv, Shape, Parts
<1>2. setup.config[p] \in Configurations
  BY SwqosAssumption DEF IInv, Shape
<1>3. Clients(c, p) \in Seq(ClientRecs) /\ Len(Clients(c, p)) <= 2
  <2>1. CASE Kept(c)
    <3>1. setup.config[p].made = "factory"
      BY <2>1 DEF IInv, Called, InOrder, Sending
    <3> QED BY <1>2, <2>1, <3>1, ClientsAreRecords DEF Clients
  <2>2. CASE ~Kept(c)
    BY <1>2, <2>2, ClientsAreRecords DEF Clients
  <2> QED BY <2>1, <2>2
<1>4. sub[c][p].rest \in Seq(Transactions) /\ sub[c][p].rest # <<>>
  BY <1>1 DEF Sub, PartOf
<1>5. sub[c][p].batch # <<>>
  <2>1. Len(sub[c][p].rest) <= Len(sub[c][p].batch) /\ Len(sub[c][p].rest) \in Nat \ {0}
    BY <1>1, <1>4 DEF PartOf, EndsWith
  <2> QED BY <2>1
<1>6. Client(c, p) \in ClientRecs
  <2>1. sub[c][p].leg \in DOMAIN Clients(c, p)
    BY <1>1 DEF PartOf, Sending
  <2> QED BY <1>3, <2>1 DEF Client
<1> QED BY <1>1, <1>3, <1>4, <1>5, <1>6

\* What the next request carries is the beginning of what is left.
LEMMA NextChunkTypes ==
    ASSUME NEW rest \in Seq(Transactions), rest # <<>>, NEW d
    PROVE  \A chunk \in {<<Head(rest)>>, NextChunk(d, rest)} :
              /\ chunk \in Seq(Transactions) /\ chunk # <<>> /\ Len(chunk) <= Len(rest)
              /\ \A i \in DOMAIN chunk : chunk[i] = rest[i]
<1>1. Head(rest) = rest[1] /\ rest[1] \in Transactions /\ Len(rest) \in Nat \ {0}
  OBVIOUS
<1>2. /\ <<Head(rest)>> \in Seq(Transactions) /\ <<Head(rest)>> # <<>>
      /\ Len(<<Head(rest)>>) <= Len(rest)
      /\ \A i \in DOMAIN <<Head(rest)>> : <<Head(rest)>>[i] = rest[i]
  BY <1>1
<1>3. NextChunk(d, rest) \in {<<Head(rest)>>, rest}
  BY DEF NextChunk
<1>4. /\ rest # <<>> /\ Len(rest) <= Len(rest)
      /\ \A i \in DOMAIN rest : rest[i] = rest[i]
  BY <1>1
<1>5. \A chunk \in {<<Head(rest)>>, NextChunk(d, rest)} : chunk = <<Head(rest)>> \/ chunk = rest
  BY <1>3
<1> HIDE DEF NextChunk
<1> QED BY <1>2, <1>4, <1>5

\* A step of a submission.
Advanced(c, p) ==
    /\ sub[c][p].pc \in Sending /\ sub'[c][p].pc \in Sending \cup {"won", "lost"}
    /\ sub'[c][p].batch = sub[c][p].batch
    /\ PartOf(sub'[c][p], Clients(c, p))
Progress ==
    /\ sub' \in [Calls -> [Providers -> Sub]]
    /\ \A c \in Calls, p \in Providers : sub'[c][p] = sub[c][p] \/ Advanced(c, p)
    /\ UNCHANGED <<setup, installed, arrays, changes, call>>

\* While submissions go on, the calls they belong to stay in order.
LEMMA ProgressKeeps ==
    ASSUME IInv, Progress
    PROVE  Parts' /\ Called' /\ Asking' /\ FailoverAsksAll'
<1>1. \A c \in Calls, p \in Providers : sub'[c][p] = sub[c][p] \/ Advanced(c, p)
  BY DEF Progress
<1>2. /\ call' = call /\ setup' = setup /\ arrays' = arrays /\ installed' = installed
      /\ \A c \in Calls : Kept(c)' = Kept(c)
      /\ \A c \in Calls, p \in Providers : Clients(c, p)' = Clients(c, p)
  BY DEF Progress, Kept, Clients
<1>3. Parts'
  BY <1>1, <1>2 DEF IInv, Parts, Advanced
<1>4. Called'
  <2> SUFFICES ASSUME NEW c \in Calls
               PROVE  /\ call[c].pc = "idle" => /\ call[c].kind = "none" /\ call[c].answer = "none"
                                                /\ \A p \in Providers : sub'[c][p].pc = "none"
                      /\ call[c].pc = "running" => call[c].answer = "none"
                      /\ Kept(c) =>
                            /\ \E p \in Providers :
                                  /\ call[c].stayed = {p} /\ setup.config[p].made = "factory"
                                  /\ \A q \in Providers \ {p} : sub'[c][q].pc = "none"
                            /\ call[c].pc = "done" =>
                                  \A p \in Providers : sub'[c][p].pc \notin Sending
                      /\ call[c].kind = "cached" => \A p \in Providers :
                            /\ sub'[c][p].pc # "none" => Own(sub'[c][p].batch).ok
                            /\ call[c].answer = "success" /\ sub'[c][p].pc = "won" =>
                                  sub'[c][p].sigs = Firsts(sub'[c][p].batch, Len(sub'[c][p].batch))
    BY <1>2 DEF Called, InOrder
  <2>1. /\ call[c].pc = "idle" => /\ call[c].kind = "none" /\ call[c].answer = "none"
                                  /\ \A p \in Providers : sub'[c][p].pc = "none"
        /\ call[c].pc = "running" => call[c].answer = "none"
    BY <1>1 DEF IInv, Called, InOrder, Advanced, Sending
  <2>2. ASSUME Kept(c)
        PROVE  /\ \E p \in Providers :
                     /\ call[c].stayed = {p} /\ setup.config[p].made = "factory"
                     /\ \A q \in Providers \ {p} : sub'[c][q].pc = "none"
               /\ call[c].pc = "done" => \A p \in Providers : sub'[c][p].pc \notin Sending
    BY <1>1, <2>2 DEF IInv, Called, InOrder, Advanced, Sending
  <2>3. ASSUME call[c].kind = "cached", NEW p \in Providers
        PROVE  /\ sub'[c][p].pc # "none" => Own(sub'[c][p].batch).ok
               /\ call[c].answer = "success" /\ sub'[c][p].pc = "won" =>
                     sub'[c][p].sigs = Firsts(sub'[c][p].batch, Len(sub'[c][p].batch))
    <3>1. Kept(c) /\ call[c].pc \in {"idle", "running", "done"}
      BY <2>3 DEF Kept, IInv, Shape, CallRecs
    <3>2. CASE sub'[c][p] = sub[c][p]
      BY <2>3, <3>2 DEF IInv, Called, InOrder
    <3>3. CASE Advanced(c, p)
      <4>1. call[c].answer # "success"
        BY <3>1, <3>3 DEF IInv, Called, InOrder, Advanced
      <4>2. Own(sub[c][p].batch).ok
        BY <2>3, <3>3 DEF IInv, Called, InOrder, Advanced, Sending
      <4> QED BY <3>3, <4>1, <4>2 DEF Advanced
    <3> QED BY <1>1, <3>2, <3>3
  <2> QED BY <2>1, <2>2, <2>3
<1>5. Asking'
  <2>1. /\ \A c \in Calls, p \in Providers : /\ sub[c][p].pc # "threw" => sub'[c][p].pc # "threw"
                                             /\ sub[c][p].pc # "none" => sub'[c][p].pc # "none"
        /\ \A c \in Calls : LoopArray(c)' = LoopArray(c)
        /\ \A c \in Calls : Running(c, {"failover"})' = Running(c, {"failover"})
    BY <1>1, <1>2 DEF Advanced, Sending, LoopArray, Running
  <2> SUFFICES ASSUME NEW c \in Calls, Running(c, {"failover"})
               PROVE  /\ call[c].stayed \subseteq getAllClients /\ call[c].batch # <<>>
                      /\ \A p \in Providers : sub'[c][p].pc # "threw"
                      /\ \A p \in call[c].stayed \ call[c].passed :
                            \/ sub'[c][p].pc # "none"
                            \/ \E i \in call[c].at .. Len(LoopArray(c)) : LoopArray(c)[i] = p
    BY <1>2, <2>1 DEF Asking, Asks, getAllClients
  <2>2. call[c].stayed \subseteq Providers
    BY DEF IInv, Shape, CallRecs
  <2> QED BY <2>1, <2>2 DEF IInv, Asking, Asks
<1>6. FailoverAsksAll'
  <2>1. \A c \in Calls, p \in Providers : sub[c][p].pc = "lost" => sub'[c][p].pc = "lost"
    BY <1>1 DEF Advanced, Sending
  <2> QED BY <1>2, <2>1 DEF IInv, FailoverAsksAll, Shape, CallRecs
<1> QED BY <1>3, <1>4, <1>5, <1>6

-----------------------------------------------------------------------------
(* The steps of submissions and connections. *)

\* One submission makes a step.
LEMMA OneAdvances ==
    ASSUME IInv, NEW c \in Calls, NEW p \in Providers, sub[c][p].pc \in Sending,
           NEW v \in Sub, v.pc \in Sending \cup {"won", "lost"},
           v.batch = sub[c][p].batch, PartOf(v, Clients(c, p)),
           sub' = [sub EXCEPT ![c][p] = v],
           UNCHANGED <<setup, installed, arrays, changes, call>>
    PROVE  /\ Progress
           /\ \A d \in Calls, q \in Providers : <<d, q>> # <<c, p>> => sub'[d][q] = sub[d][q]
           /\ sub'[c][p] = v
<1>1. sub \in [Calls -> [Providers -> Sub]]
  BY DEF IInv, Shape
<1>2. /\ sub' \in [Calls -> [Providers -> Sub]] /\ sub'[c][p] = v
      /\ \A d \in Calls, q \in Providers : <<d, q>> # <<c, p>> => sub'[d][q] = sub[d][q]
  BY <1>1
<1>3. Advanced(c, p)
  BY <1>2 DEF Advanced
<1> QED BY <1>2, <1>3 DEF Progress

\* What it waits for may change, and a transaction may have been taken meanwhile.
LEMMA WaitsElsewhere ==
    ASSUME NEW s, NEW v, NEW ds, PartOf(s, ds), s.pc \in Sending, v.pc \in Sending,
           v.batch = s.batch, v.rest = s.rest, v.sigs = s.sigs, v.leg = s.leg,
           s.taken \subseteq v.taken, v.unread = s.unread, v.pc = "ready" \/ ds[s.leg].via = "kept"
    PROVE  PartOf(v, ds)
BY DEF PartOf, Sending

\* Who closes a connection goes on doing so while others make their steps.
LEMMA NoneForgotten ==
    ASSUME IInv, UNCHANGED quic,
           \A c \in Calls, p \in Providers : sub[c][p].pc = "closing" => sub'[c][p] = sub[c][p]
    PROVE  Connecting' /\ ConnectionsOwned'
BY DEF IInv, Connecting, ConnectionsOwned

\* A POST, a request or a stream of one submission.
LEMMA SendStep ==
    ASSUME IInv, NEW c \in Calls, NEW p \in Providers, Send(c, p)
    PROVE  Progress /\ Connecting' /\ ConnectionsOwned' /\ UNCHANGED quic
<1> DEFINE d == Client(c, p)
           chunk == NextChunk(d, sub[c][p].rest)
<1>1. sub[c][p].pc = "ready" /\ sub[c][p].pc \in Sending
  BY DEF Send, Sending
<1>2. PICK o \in Exchange(d, setup.config[p].key, chunk) :
         sub' = [sub EXCEPT ![c][p] = Answer(c, p, chunk, o.fate, o.answer)]
  BY DEF Send
<1>3. /\ chunk \in Seq(Transactions) /\ chunk # <<>> /\ Len(chunk) <= Len(sub[c][p].rest)
      /\ \A i \in DOMAIN chunk : chunk[i] = sub[c][p].rest[i]
  <2>1. sub[c][p].rest \in Seq(Transactions) /\ sub[c][p].rest # <<>>
    BY <1>1, UnderWay
  <2>2. chunk \in {<<Head(sub[c][p].rest)>>, NextChunk(d, sub[c][p].rest)}
    OBVIOUS
  <2> HIDE DEF chunk, d
  <2> QED BY <2>1, <2>2, NextChunkTypes
<1> HIDE DEF chunk
<1>4. o.fate \in Fates /\ Plausible(d, chunk, o.fate, o.answer)
  BY <1>1, <1>3, UnderWay, ExchangeIsPlausible
<1> DEFINE v == Answer(c, p, chunk, o.fate, o.answer)
<1>5. /\ v \in Sub /\ v.batch = sub[c][p].batch /\ v.pc \in {"ready", "won", "lost"}
      /\ PartOf(v, Clients(c, p))
  <2>1. Clients(c, p)[sub[c][p].leg] = d
    BY DEF Client
  <2> HIDE DEF d
  <2> QED BY <1>1, <1>3, <1>4, <2>1, UnderWay, AnswerKeeps, ZenonT(30)
<1> HIDE DEF v
<1>6. /\ sub' = [sub EXCEPT ![c][p] = v]
      /\ UNCHANGED <<setup, installed, arrays, changes, call, quic>>
  BY <1>2 DEF Send, v
<1>7. /\ Progress
      /\ \A e \in Calls, q \in Providers : <<e, q>> # <<c, p>> => sub'[e][q] = sub[e][q]
  <2>1. v.pc \in Sending \cup {"won", "lost"}
    BY <1>5 DEF Sending
  <2> QED BY <1>1, <1>5, <1>6, <2>1, OneAdvances, ZenonT(30)
<1> QED BY <1>1, <1>6, <1>7, NoneForgotten

\* A submission whose request failed, and which it knows was not taken, is in order.
LEMMA FailureIsKept ==
    ASSUME IInv, NEW c \in Calls, NEW p \in Providers, sub[c][p].pc \in Sending,
           NEW fate \in Fates, NEW code \in Nat
    PROVE  LET v == Answer(c, p, <<Head(sub[c][p].rest)>>, fate, Failed(code)) IN
           /\ v \in Sub /\ v.batch = sub[c][p].batch /\ v.pc \in {"ready", "won", "lost"}
           /\ PartOf(v, Clients(c, p))
<1> DEFINE chunk == <<Head(sub[c][p].rest)>>
           answer == Failed(code)
           ds == Clients(c, p)
<1>1. /\ chunk \in Seq(Transactions) /\ chunk # <<>> /\ Len(chunk) <= Len(sub[c][p].rest)
      /\ \A i \in DOMAIN chunk : chunk[i] = sub[c][p].rest[i]
  <2>1. sub[c][p].rest \in Seq(Transactions) /\ sub[c][p].rest # <<>>
    BY UnderWay
  <2>2. chunk \in {<<Head(sub[c][p].rest)>>, NextChunk(0, sub[c][p].rest)}
    OBVIOUS
  <2> HIDE DEF chunk
  <2> QED BY <2>1, <2>2, NextChunkTypes
<1>2. Plausible(ds[sub[c][p].leg], chunk, fate, answer)
  BY DEF Plausible, Failed
<1>3. /\ ds = Clients(c, p) /\ ds \in Seq(ClientRecs) /\ Len(ds) <= 2
      /\ sub[c][p] \in Sub /\ sub[c][p].batch # <<>> /\ PartOf(sub[c][p], ds)
  BY UnderWay
<1> HIDE DEF chunk, answer, ds
<1>4. LET v == Answer(c, p, chunk, fate, answer) IN
      /\ v \in Sub /\ v.batch = sub[c][p].batch /\ v.pc \in {"ready", "won", "lost"}
      /\ PartOf(v, ds)
  BY <1>1, <1>2, <1>3, AnswerKeeps
<1> QED BY <1>4 DEF chunk, answer, ds

\* What a submission is after a request that was not even sent.
Refused(c, p, code) == Answer(c, p, <<Head(sub[c][p].rest)>>, "refused", Failed(code))
\* It too is still a submission of its batch.
LEMMA RefusedIsKept ==
    ASSUME IInv, NEW c \in Calls, NEW p \in Providers, sub[c][p].pc \in Sending,
           NEW code \in Nat
    PROVE  /\ Refused(c, p, code) \in Sub /\ Refused(c, p, code).batch = sub[c][p].batch
           /\ Refused(c, p, code).pc \in {"ready", "won", "lost"}
           /\ PartOf(Refused(c, p, code), Clients(c, p))
<1>1. PICK fate \in Fates : fate = "refused"
  BY DEF Fates
<1>2. Refused(c, p, code) = Answer(c, p, <<Head(sub[c][p].rest)>>, fate, Failed(code))
  BY <1>1 DEF Refused
<1> QED BY <1>2, FailureIsKept

\* A call on a kept connection finds one, or waits for one, or is refused.
LEMMA ConnectStep ==
    ASSUME IInv, NEW c \in Calls, NEW p \in Providers, Connect(c, p)
    PROVE  /\ Progress /\ Connecting' /\ ConnectionsOwned'
           /\ quic' \in [Providers -> Conns]
<1> DEFINE s == sub[c][p]
           q == quic[p]
           chunk == <<Head(s.rest)>>
<1>1. s.pc = "ready" /\ s.pc \in Sending /\ Client(c, p).via = "kept"
  BY DEF Connect, Sending, KeepsConnection
<1>2. /\ quic \in [Providers -> Conns] /\ q.client \in 0 .. MaxDials
      /\ UNCHANGED <<setup, installed, arrays, changes, call>>
  BY DEF IInv, Shape, Conns, Connect
<1>3. CASE sub' = [sub EXCEPT ![c][p] = Refused(c, p, 400)] /\ UNCHANGED quic
  <2> DEFINE v == Refused(c, p, 400)
  <2>1. /\ v \in Sub /\ v.batch = sub[c][p].batch /\ v.pc \in {"ready", "won", "lost"}
        /\ PartOf(v, Clients(c, p))
    BY <1>1, RefusedIsKept
  <2>2. sub' = [sub EXCEPT ![c][p] = v]
    BY <1>3
  <2> HIDE DEF v
  <2>3. v.pc \in Sending \cup {"won", "lost"} /\ v.batch = sub[c][p].batch
    BY <2>1 DEF Sending
  <2>4. /\ sub[c][p].pc \in Sending /\ v \in Sub /\ PartOf(v, Clients(c, p))
        /\ UNCHANGED <<setup, installed, arrays, changes, call>>
    BY <1>1, <1>2, <2>1
  <2>5. /\ Progress
        /\ \A e \in Calls, r \in Providers : <<e, r>> # <<c, p>> => sub'[e][r] = sub[e][r]
    BY <2>2, <2>3, <2>4, OneAdvances
  <2> QED BY <1>1, <1>2, <1>3, <2>5, NoneForgotten
<1>4. CASE /\ q.client # NoConn
           /\ sub' = [sub EXCEPT ![c][p].pc = "writing", ![c][p].conn = q.client]
           /\ UNCHANGED quic
  <2> DEFINE v == [s EXCEPT !.pc = "writing", !.conn = q.client]
  <2>1. /\ v \in Sub /\ v.pc = "writing" /\ v.batch = s.batch /\ v.rest = s.rest
        /\ v.sigs = s.sigs /\ v.leg = s.leg /\ v.taken = s.taken /\ v.unread = s.unread
    <3>1. s \in Sub /\ q.client \in 0 .. MaxDials
      BY <1>1, <1>2, UnderWay
    <3> HIDE DEF s, q
    <3> QED BY <3>1 DEF Sub
  <2>2. sub' = [sub EXCEPT ![c][p] = v]
    BY <1>4 DEF IInv, Shape
  <2> HIDE DEF v
  <2>3. PartOf(v, Clients(c, p))
    BY <1>1, <2>1, UnderWay, WaitsElsewhere DEF Client, Sending
  <2>4. /\ Progress
        /\ \A e \in Calls, r \in Providers : <<e, r>> # <<c, p>> => sub'[e][r] = sub[e][r]
    BY <1>1, <1>2, <2>1, <2>2, <2>3, OneAdvances DEF Sending
  <2> QED BY <1>1, <1>2, <1>4, <2>4, NoneForgotten
<1>5. CASE /\ q.client = NoConn
           /\ sub' = [sub EXCEPT ![c][p].pc = "connecting"]
           /\ quic' = [quic EXCEPT ![p].pending = TRUE]
  <2> DEFINE v == [s EXCEPT !.pc = "connecting"]
  <2>1. /\ v \in Sub /\ v.pc = "connecting" /\ v.batch = s.batch /\ v.rest = s.rest
        /\ v.sigs = s.sigs /\ v.leg = s.leg /\ v.taken = s.taken /\ v.unread = s.unread
    <3>1. s \in Sub
      BY <1>1, UnderWay
    <3> HIDE DEF s
    <3> QED BY <3>1 DEF Sub
  <2>2. sub' = [sub EXCEPT ![c][p] = v]
    BY <1>5 DEF IInv, Shape
  <2> HIDE DEF v
  <2>3. PartOf(v, Clients(c, p))
    BY <1>1, <2>1, UnderWay, WaitsElsewhere DEF Client, Sending
  <2>4. /\ Progress
        /\ \A e \in Calls, r \in Providers : <<e, r>> # <<c, p>> => sub'[e][r] = sub[e][r]
    BY <1>1, <1>2, <2>1, <2>2, <2>3, OneAdvances DEF Sending
  <2>5. /\ quic' \in [Providers -> Conns]
        /\ \A r \in Providers : quic'[r].open = quic[r].open /\ quic'[r].client = quic[r].client
        /\ \A r \in Providers : quic'[r].pending => quic[r].pending \/ quic[r].client = NoConn
    BY <1>2, <1>5 DEF Conns
  <2>6. Connecting'
    BY <2>5 DEF IInv, Connecting
  <2>7. ConnectionsOwned'
    BY <1>1, <2>4, <2>5 DEF IInv, ConnectionsOwned
  <2> QED BY <2>4, <2>5, <2>6, <2>7
<1> QED BY <1>3, <1>4, <1>5 DEF Connect, Refused

\* A stream is written or fails; the first failure throws the connection of the moment
\* away, and whoever did so closes it.
LEMMA WriteStep ==
    ASSUME IInv, NEW c \in Calls, NEW p \in Providers, Write(c, p)
    PROVE  /\ Progress /\ Connecting' /\ ConnectionsOwned'
           /\ quic' \in [Providers -> Conns]
<1> DEFINE s == sub[c][p]
           q == quic[p]
           chunk == <<Head(s.rest)>>
<1>1. s.pc = "writing" /\ s.pc \in Sending
  BY DEF Write, Sending
<1>2. /\ quic \in [Providers -> Conns] /\ q.client \in 0 .. MaxDials
      /\ UNCHANGED <<setup, installed, arrays, changes, call>>
  BY DEF IInv, Shape, Conns, Write
<1>3. PICK fate \in {"taken", "refused"} :
         \/ /\ sub' = [sub EXCEPT ![c][p] = Answer(c, p, chunk, fate, Own(chunk))]
            /\ UNCHANGED quic
         \/ Fails(c, p, chunk, fate)
  BY DEF Write
<1>0. fate \in Fates
  BY DEF Fates
<1>4. /\ chunk \in Seq(Transactions) /\ chunk # <<>> /\ Len(chunk) <= Len(s.rest)
      /\ \A i \in DOMAIN chunk : chunk[i] = s.rest[i]
  <2>1. s.rest \in Seq(Transactions) /\ s.rest # <<>>
    BY <1>1, UnderWay
  <2>2. chunk \in {<<Head(s.rest)>>, NextChunk(0, s.rest)}
    OBVIOUS
  <2> HIDE DEF chunk, s
  <2> QED BY <2>1, <2>2, NextChunkTypes
<1>5. CASE /\ sub' = [sub EXCEPT ![c][p] = Answer(c, p, chunk, fate, Own(chunk))]
           /\ UNCHANGED quic
  <2> DEFINE v == Answer(c, p, chunk, fate, Own(chunk))
  <2>1. Plausible(Clients(c, p)[s.leg], chunk, fate, Own(chunk))
    <3>1. Silent(Clients(c, p)[s.leg])
      BY <1>1, UnderWay DEF PartOf, Silent
    <3> HIDE DEF chunk, s
    <3>2. /\ Firsts(chunk, Len(chunk)) \in Seq(Signatures)
          /\ Len(Firsts(chunk, Len(chunk))) = Len(chunk) /\ Len(chunk) \in Nat
      BY <1>4, FirstsTypes
    <3> QED BY <1>4, <3>1, <3>2, OwnSignatures DEF Plausible
  <2>2. /\ Clients(c, p) \in Seq(ClientRecs) /\ Len(Clients(c, p)) <= 2
        /\ sub[c][p] \in Sub /\ sub[c][p].batch # <<>> /\ PartOf(sub[c][p], Clients(c, p))
    BY <1>1, UnderWay
  <2> HIDE DEF chunk
  <2>3. /\ v \in Sub /\ v.batch = s.batch /\ v.pc \in {"ready", "won", "lost"}
        /\ PartOf(v, Clients(c, p))
    BY <1>0, <1>1, <1>4, <2>1, <2>2, AnswerKeeps
  <2>4. sub' = [sub EXCEPT ![c][p] = v]
    BY <1>5
  <2> HIDE DEF v
  <2>5. /\ Progress
        /\ \A e \in Calls, r \in Providers : <<e, r>> # <<c, p>> => sub'[e][r] = sub[e][r]
    BY <1>1, <1>2, <2>3, <2>4, OneAdvances, ZenonT(30) DEF Sending
  <2> QED BY <1>1, <1>2, <1>5, <2>5, NoneForgotten
<1>6. CASE s.tries = 2 /\ Fails(c, p, chunk, fate)
  <2>1. PICK code \in Nat :
           /\ sub' = [sub EXCEPT ![c][p] = Answer(c, p, chunk, fate, Failed(code))]
           /\ UNCHANGED quic
    BY <1>6 DEF Fails
  <2> DEFINE v == Answer(c, p, chunk, fate, Failed(code))
  <2>2. /\ v \in Sub /\ v.batch = s.batch /\ v.pc \in {"ready", "won", "lost"}
        /\ PartOf(v, Clients(c, p))
    BY <1>0, <1>1, FailureIsKept
  <2> HIDE DEF chunk
  <2>3. sub' = [sub EXCEPT ![c][p] = v]
    BY <2>1
  <2> HIDE DEF v
  <2>4. /\ Progress
        /\ \A e \in Calls, r \in Providers : <<e, r>> # <<c, p>> => sub'[e][r] = sub[e][r]
    BY <1>1, <1>2, <2>2, <2>3, OneAdvances, ZenonT(30) DEF Sending
  <2> QED BY <1>1, <1>2, <2>1, <2>4, NoneForgotten
<1>7. CASE s.tries # 2 /\ Fails(c, p, chunk, fate)
  <2> DEFINE tk == s.taken \cup (IF fate = "taken" THEN Ids(chunk) ELSE {})
             v == [s EXCEPT !.pc = "closing", !.conn = q.client, !.tries = 2, !.taken = tk]
  <2>1. tk \subseteq TxIds /\ s.taken \subseteq tk
    <3>1. Ids(chunk) \subseteq TxIds
      <4> HIDE DEF chunk
      <4> QED BY <1>4 DEF Ids, TxIds
    <3>2. s.taken \subseteq TxIds
      BY <1>1, UnderWay DEF Sub
    <3> QED BY <3>1, <3>2
  <2>2. sub' = [sub EXCEPT ![c][p] = v] /\ quic' = [quic EXCEPT ![p].client = NoConn]
    BY <1>7 DEF Fails, ToDestroy, invalidate
  <2>3. /\ v \in Sub /\ v.pc = "closing" /\ v.batch = s.batch /\ v.rest = s.rest
        /\ v.sigs = s.sigs /\ v.leg = s.leg /\ v.taken = tk /\ v.conn = q.client
        /\ v.unread = s.unread
    <3>1. s \in Sub /\ tk \in SUBSET TxIds /\ 2 \in 1 .. 2 /\ q.client \in 0 .. MaxDials
      BY <1>1, <1>2, <2>1, UnderWay
    <3> HIDE DEF s, tk, q
    <3> QED BY <3>1 DEF Sub
  <2> HIDE DEF v, tk
  <2>4. PartOf(v, Clients(c, p))
    <3>1. PartOf(s, Clients(c, p)) /\ Clients(c, p)[s.leg].via = "kept"
      BY <1>1, UnderWay DEF PartOf
    <3> HIDE DEF s
    <3> QED BY <1>1, <2>1, <2>3, <3>1, WaitsElsewhere DEF Sending
  <2>5. /\ Progress
        /\ \A e \in Calls, r \in Providers : <<e, r>> # <<c, p>> => sub'[e][r] = sub[e][r]
        /\ sub'[c][p] = v
    BY <1>1, <1>2, <2>2, <2>3, <2>4, OneAdvances DEF Sending
  <2>6. /\ quic' \in [Providers -> Conns]
        /\ \A r \in Providers : quic'[r].open = quic[r].open /\ quic'[r].pending = quic[r].pending
        /\ \A r \in Providers : quic'[r].client = IF r = p THEN NoConn ELSE quic[r].client
    <3>1. NoConn \in 0 .. MaxDials
      BY SwqosAssumption DEF NoConn
    <3> QED BY <1>2, <2>2, <3>1 DEF Conns
  <2>7. Connecting'
    BY <2>6 DEF IInv, Connecting
  <2>8. ConnectionsOwned'
    <3> SUFFICES ASSUME NEW r \in Providers, NEW n \in quic[r].open, n # quic'[r].client
                 PROVE  \E e \in Calls : sub'[e][r].pc = "closing" /\ sub'[e][r].conn = n
      BY <2>6 DEF ConnectionsOwned
    <3>1. CASE \E e \in Calls : sub[e][r].pc = "closing" /\ sub[e][r].conn = n
      BY <1>1, <2>5, <3>1
    <3>2. CASE n = quic[r].client
      BY <2>3, <2>5, <2>6, <3>2
    <3> QED BY <3>1, <3>2 DEF IInv, ConnectionsOwned
  <2> QED BY <2>5, <2>6, <2>7, <2>8
<1> QED BY <1>3, <1>5, <1>6, <1>7

\* The connection of a call is closed, and the call tries again.
LEMMA DestroyedStep ==
    ASSUME IInv, NEW c \in Calls, NEW p \in Providers, Destroyed(c, p)
    PROVE  /\ Progress /\ Connecting' /\ ConnectionsOwned'
           /\ quic' \in [Providers -> Conns]
<1> DEFINE s == sub[c][p]
           v == [s EXCEPT !.pc = "ready", !.conn = NoConn]
<1>1. s.pc = "closing" /\ s.pc \in Sending
  BY DEF Destroyed, Sending
<1>2. /\ quic \in [Providers -> Conns]
      /\ UNCHANGED <<setup, installed, arrays, changes, call>>
  BY DEF IInv, Shape, Destroyed
<1>3. /\ v \in Sub /\ v.pc = "ready" /\ v.batch = s.batch /\ v.rest = s.rest
      /\ v.sigs = s.sigs /\ v.leg = s.leg /\ v.taken = s.taken /\ v.unread = s.unread
  <2>1. NoConn \in 0 .. MaxDials
    BY SwqosAssumption DEF NoConn
  <2>2. s \in Sub
    BY <1>1, UnderWay
  <2> HIDE DEF s
  <2> QED BY <2>1, <2>2 DEF Sub
<1>4. sub' = [sub EXCEPT ![c][p] = v]
  BY DEF Destroyed, IInv, Shape
<1> HIDE DEF v
<1>5. PartOf(v, Clients(c, p))
  BY <1>1, <1>3, UnderWay, WaitsElsewhere DEF Sending
<1>6. /\ Progress
      /\ \A e \in Calls, r \in Providers : <<e, r>> # <<c, p>> => sub'[e][r] = sub[e][r]
  BY <1>1, <1>2, <1>3, <1>4, <1>5, OneAdvances DEF Sending
<1>7. /\ quic' \in [Providers -> Conns]
      /\ \A r \in Providers : quic'[r].client = quic[r].client /\ quic'[r].pending = quic[r].pending
      /\ \A r \in Providers :
            quic'[r].open = IF r = p THEN quic[r].open \ {s.conn} ELSE quic[r].open
  BY <1>2 DEF Conns, Destroyed
<1>8. Connecting'
  BY <1>7 DEF IInv, Connecting
<1>9. ConnectionsOwned'
  <2> SUFFICES ASSUME NEW r \in Providers, NEW n \in quic'[r].open, n # quic[r].client
               PROVE  \E e \in Calls : sub'[e][r].pc = "closing" /\ sub'[e][r].conn = n
    BY <1>7 DEF ConnectionsOwned
  <2>0. n \in quic[r].open /\ (r = p => n # s.conn)
    BY <1>7
  <2>1. PICK e \in Calls : sub[e][r].pc = "closing" /\ sub[e][r].conn = n
    BY <2>0 DEF IInv, ConnectionsOwned
  <2>2. <<e, r>> # <<c, p>>
    BY <2>0, <2>1
  <2> QED BY <1>6, <2>1, <2>2
<1> QED BY <1>6, <1>7, <1>8, <1>9

\* The connection is there, for all that wait for it.
LEMMA ConnectedStep ==
    ASSUME IInv, NEW p \in Providers, Connected(p)
    PROVE  /\ Progress /\ Connecting' /\ ConnectionsOwned'
           /\ quic' \in [Providers -> Conns]
<1> DEFINE conn == quic[p].dials + 1
           v(c) == [sub[c][p] EXCEPT !.pc = "writing", !.conn = conn]
<1>1. /\ quic \in [Providers -> Conns] /\ sub \in [Calls -> [Providers -> Sub]]
      /\ quic[p].client = NoConn /\ quic[p].pending
      /\ UNCHANGED <<setup, installed, arrays, changes, call>>
  BY DEF IInv, Shape, Connecting, Connected
<1>2. conn \in 1 .. MaxDials /\ conn \in 0 .. MaxDials
  <2>1. quic[p].dials \in 0 .. MaxDials /\ quic[p].dials < MaxDials /\ MaxDials \in Nat
    BY <1>1, SwqosAssumption DEF Conns, Connected
  <2> QED BY <2>1
<1>3. /\ sub' = [c \in Calls |-> IF c \in Waiting(p) THEN [sub[c] EXCEPT ![p] = v(c)] ELSE sub[c]]
      /\ quic' = [quic EXCEPT ![p] = [client |-> conn, pending |-> FALSE,
                                      open |-> quic[p].open \cup {conn}, dials |-> conn]]
  BY <1>1 DEF Connected
<1> HIDE DEF conn
<1>4. ASSUME NEW c \in Waiting(p)
      PROVE  /\ v(c) \in Sub /\ v(c).pc = "writing" /\ v(c).batch = sub[c][p].batch
             /\ PartOf(v(c), Clients(c, p)) /\ sub[c][p].pc = "connecting"
  <2>1. c \in Calls /\ sub[c][p].pc = "connecting" /\ sub[c][p].pc \in Sending
    BY DEF Waiting, Sending
  <2>2. /\ v(c) \in Sub /\ v(c).pc = "writing" /\ v(c).batch = sub[c][p].batch
        /\ v(c).rest = sub[c][p].rest /\ v(c).sigs = sub[c][p].sigs
        /\ v(c).leg = sub[c][p].leg /\ v(c).taken = sub[c][p].taken
        /\ v(c).unread = sub[c][p].unread
    BY <1>2, <2>1, UnderWay, ZenonT(30) DEF Sub
  <2>3. PartOf(sub[c][p], Clients(c, p)) /\ Clients(c, p)[sub[c][p].leg].via = "kept"
    BY <2>1, UnderWay DEF PartOf
  <2> HIDE DEF v
  <2> QED BY <2>1, <2>2, <2>3, WaitsElsewhere DEF Sending
<1> HIDE DEF v
<1>5. ASSUME NEW c \in Calls, NEW r \in Providers
      PROVE  sub'[c][r] = IF r = p /\ c \in Waiting(p) THEN v(c) ELSE sub[c][r]
  BY <1>1, <1>3
<1>6. Progress
  <2>1. sub' \in [Calls -> [Providers -> Sub]]
    BY <1>1, <1>3, <1>4
  <2>2. ASSUME NEW c \in Calls, NEW r \in Providers
        PROVE  sub'[c][r] = sub[c][r] \/ Advanced(c, r)
    BY <1>4, <1>5 DEF Advanced, Sending
  <2> QED BY <1>1, <2>1, <2>2 DEF Progress
<1>7. /\ quic' \in [Providers -> Conns]
      /\ quic'[p].client = conn /\ ~quic'[p].pending /\ quic'[p].open = quic[p].open \cup {conn}
      /\ \A r \in Providers \ {p} : quic'[r] = quic[r]
  <2>1. [client |-> conn, pending |-> FALSE, open |-> quic[p].open \cup {conn}, dials |-> conn]
           \in Conns
    BY <1>1, <1>2 DEF Conns
  <2> QED BY <1>1, <1>3, <2>1
<1>8. Connecting'
  BY <1>7 DEF IInv, Connecting
<1>9. ConnectionsOwned'
  <2> SUFFICES ASSUME NEW r \in Providers, NEW n \in quic'[r].open, n # quic'[r].client
               PROVE  \E e \in Calls : sub'[e][r].pc = "closing" /\ sub'[e][r].conn = n
    BY DEF ConnectionsOwned
  <2>1. n \in quic[r].open /\ n # quic[r].client
    <3>1. quic[p].open \subseteq 1 .. MaxDials /\ quic[p].client \notin 1 .. MaxDials
      BY <1>1 DEF Conns, NoConn
    <3> QED BY <1>7, <3>1
  <2>2. PICK e \in Calls : sub[e][r].pc = "closing" /\ sub[e][r].conn = n
    BY <2>1 DEF IInv, ConnectionsOwned
  <2> QED BY <1>4, <1>5, <2>2
<1> QED BY <1>6, <1>7, <1>8, <1>9

\* There is no connection: each that waited fails, for good or to try once more.
LEMMA NotConnectedStep ==
    ASSUME IInv, NEW p \in Providers, NotConnected(p)
    PROVE  /\ Progress /\ Connecting' /\ ConnectionsOwned'
           /\ quic' \in [Providers -> Conns]
<1> DEFINE w(c) == [sub[c][p] EXCEPT !.pc = "closing", !.tries = 2]
           v(c) == IF sub[c][p].tries = 1 THEN w(c) ELSE Refused(c, p, 503)
<1>1. /\ quic \in [Providers -> Conns] /\ sub \in [Calls -> [Providers -> Sub]]
      /\ UNCHANGED <<setup, installed, arrays, changes, call>>
  BY DEF IInv, Shape, NotConnected
<1>2. ASSUME NEW c \in Waiting(p)
      PROVE  /\ v(c) \in Sub /\ v(c).pc \in Sending \cup {"won", "lost"}
             /\ v(c).batch = sub[c][p].batch
             /\ PartOf(v(c), Clients(c, p)) /\ sub[c][p].pc = "connecting"
  <2>1. c \in Calls /\ sub[c][p].pc = "connecting" /\ sub[c][p].pc \in Sending
    BY DEF Waiting, Sending
  <2>2. CASE sub[c][p].tries = 1
    <3>1. /\ w(c) \in Sub /\ w(c).pc = "closing" /\ w(c).batch = sub[c][p].batch
          /\ w(c).rest = sub[c][p].rest /\ w(c).sigs = sub[c][p].sigs
          /\ w(c).leg = sub[c][p].leg /\ w(c).taken = sub[c][p].taken
          /\ w(c).unread = sub[c][p].unread
      <4>1. sub[c][p] \in Sub /\ 2 \in 1 .. 2
        BY <2>1, UnderWay
      <4> QED BY <4>1 DEF Sub
    <3>2. PartOf(sub[c][p], Clients(c, p)) /\ Clients(c, p)[sub[c][p].leg].via = "kept"
      BY <2>1, UnderWay DEF PartOf
    <3>3. v(c) = w(c)
      BY <2>2
    <3> HIDE DEF v, w
    <3> QED BY <2>1, <3>1, <3>2, <3>3, WaitsElsewhere DEF Sending
  <2>3. CASE sub[c][p].tries # 1
    <3>1. v(c) = Refused(c, p, 503)
      BY <2>3
    <3> HIDE DEF v, w
    <3> QED BY <2>1, <3>1, RefusedIsKept DEF Sending
  <2> QED BY <2>2, <2>3
<1>3. sub' = [c \in Calls |-> IF c \in Waiting(p) THEN [sub[c] EXCEPT ![p] = v(c)] ELSE sub[c]]
  <2>1. sub' = [c \in Calls |->
          CASE c \notin Waiting(p) -> sub[c]
            [] c \in Waiting(p) /\ sub[c][p].tries = 1 ->
                  [sub[c] EXCEPT ![p].pc = "closing", ![p].tries = 2]
            [] OTHER -> [sub[c] EXCEPT ![p] = Refused(c, p, 503)]]
    BY DEF NotConnected, Refused
  <2>2. ASSUME NEW c \in Calls
        PROVE  (CASE c \notin Waiting(p) -> sub[c]
                  [] c \in Waiting(p) /\ sub[c][p].tries = 1 ->
                        [sub[c] EXCEPT ![p].pc = "closing", ![p].tries = 2]
                  [] OTHER -> [sub[c] EXCEPT ![p] = Refused(c, p, 503)])
               = IF c \in Waiting(p) THEN [sub[c] EXCEPT ![p] = v(c)] ELSE sub[c]
    <3>1. sub[c] \in [Providers -> Sub]
      BY <1>1
    <3>2. CASE c \in Waiting(p) /\ sub[c][p].tries = 1
      <4>1. [sub[c] EXCEPT ![p].pc = "closing", ![p].tries = 2] = [sub[c] EXCEPT ![p] = w(c)]
        BY <3>1
      <4> QED BY <3>2, <4>1
    <3>3. CASE c \in Waiting(p) /\ sub[c][p].tries # 1
      BY <3>3
    <3>4. CASE c \notin Waiting(p)
      BY <3>4
    <3> QED BY <3>2, <3>3, <3>4
  <2> HIDE DEF v, w
  <2> QED BY <2>1, <2>2
<1> HIDE DEF v, w
<1>4. ASSUME NEW c \in Calls, NEW r \in Providers
      PROVE  sub'[c][r] = IF r = p /\ c \in Waiting(p) THEN v(c) ELSE sub[c][r]
  BY <1>1, <1>3
<1>5. Progress
  <2>1. sub' \in [Calls -> [Providers -> Sub]]
    BY <1>1, <1>2, <1>3
  <2>2. ASSUME NEW c \in Calls, NEW r \in Providers
        PROVE  sub'[c][r] = sub[c][r] \/ Advanced(c, r)
    BY <1>2, <1>4 DEF Advanced, Sending
  <2> QED BY <1>1, <2>1, <2>2 DEF Progress
<1>6. /\ quic' \in [Providers -> Conns]
      /\ \A r \in Providers : quic'[r].client = quic[r].client /\ quic'[r].open = quic[r].open
      /\ \A r \in Providers : quic'[r].pending => quic[r].pending
  BY <1>1 DEF Conns, NotConnected
<1>7. Connecting'
  BY <1>6 DEF IInv, Connecting
<1>8. ConnectionsOwned'
  <2>1. \A c \in Calls, r \in Providers : sub[c][r].pc = "closing" => sub'[c][r] = sub[c][r]
    BY <1>2, <1>4
  <2> QED BY <1>6, <2>1 DEF IInv, ConnectionsOwned
<1> QED BY <1>5, <1>6, <1>7, <1>8

\* A step of submissions and their connections leaves everything in order.
LEMMA ProgressIsKept ==
    ASSUME IInv, Progress, Connecting', ConnectionsOwned', quic' \in [Providers -> Conns]
    PROVE  IInv'
<1>1. Shape'
  BY DEF IInv, Shape, Progress
<1> QED BY <1>1, ProgressKeeps DEF IInv

-----------------------------------------------------------------------------
(* The steps of calls. *)

AskedAll(c) ==
    call[c].kind = "failover" /\ call[c].answer = "failed" =>
        \A p \in call[c].stayed \ call[c].passed : sub[c][p].pc = "lost"

\* A step of one call does not disturb the others.
LEMMA OneCallSteps ==
    ASSUME IInv, NEW c \in Calls, NEW w \in CallRecs, NEW u \in [Providers -> Sub],
           call' = [call EXCEPT ![c] = w], sub' = [sub EXCEPT ![c] = u],
           w.array \in DOMAIN arrays,
           UNCHANGED <<setup, installed, arrays, changes, quic>>,
           \A p \in Providers : sub[c][p].pc = "closing" => u[p] = sub[c][p],
           \A p \in Providers : PartOf(u[p], Clients(c, p)'),
           InOrder(c)', Asks(c)', AskedAll(c)'
    PROVE  IInv'
<1>1. /\ call \in [Calls -> CallRecs] /\ sub \in [Calls -> [Providers -> Sub]]
      /\ call'[c] = w /\ sub'[c] = u
      /\ \A d \in Calls \ {c} : call'[d] = call[d] /\ sub'[d] = sub[d]
      /\ setup' = setup /\ installed' = installed /\ arrays' = arrays /\ changes' = changes
      /\ quic' = quic /\ getAllClients' = getAllClients
  BY DEF IInv, Shape, getAllClients
<1>2. Shape'
  BY <1>1 DEF IInv, Shape
<1>3. \A d \in Calls \ {c} : /\ Kept(d)' = Kept(d) /\ LoopArray(d)' = LoopArray(d)
                             /\ Running(d, {"failover"})' = Running(d, {"failover"})
                             /\ \A p \in Providers : Clients(d, p)' = Clients(d, p)
  BY <1>1 DEF Kept, LoopArray, Running, Clients
<1>4. Parts'
  BY <1>1, <1>3 DEF IInv, Parts
<1>5. Called'
  <2>1. ASSUME NEW d \in Calls \ {c} PROVE InOrder(d)'
    <3>1. InOrder(d)
      BY DEF IInv, Called
    <3> QED BY <1>1, <1>3, <3>1 DEF InOrder
  <2> QED BY <2>1 DEF Called
<1>6. Asking'
  <2>1. ASSUME NEW d \in Calls \ {c} PROVE Asks(d)'
    <3>1. Asks(d)
      BY DEF IInv, Asking
    <3> QED BY <1>1, <1>3, <3>1 DEF Asks
  <2> QED BY <2>1 DEF Asking
<1>7. FailoverAsksAll'
  BY <1>1 DEF IInv, FailoverAsksAll, AskedAll
<1>8. Connecting' /\ ConnectionsOwned'
  BY <1>1 DEF IInv, Connecting, ConnectionsOwned
<1> QED BY <1>2, <1>4, <1>5, <1>6, <1>7, <1>8 DEF IInv

\* What is not begun has its type.
LEMMA NoSubType ==
    /\ NoSub \in Sub /\ NoSub.leg = 1 /\ NoSub.batch = <<>> /\ NoSub.rest = <<>>
    /\ NoSub.sigs = <<>> /\ NoSub.taken = {} /\ NoSub.unread = {} /\ NoSub.pc = "none"
<1>1. /\ 0 \in Nat /\ {} \in SUBSET TxIds /\ 1 \in 1 .. 2 /\ NoConn \in 0 .. MaxDials
      /\ <<>> \in Seq(TxIds \cup {FOREIGN, MISSING}) /\ <<>> \in Seq(Transactions)
      /\ <<>> \in Sent
  BY SwqosAssumption DEF Sent, NoConn
<1>2. NoSub \in Sub
  BY <1>1 DEF Sub, NoSub
<1> QED BY <1>2 DEF NoSub

\* A batch that no one has begun to send is in order.
LEMMA Beginning ==
    ASSUME NEW batch \in Sent, batch # <<>>, NEW ds, 1 \in DOMAIN ds
    PROVE  /\ Begun(batch) \in Sub /\ PartOf(Begun(batch), ds)
           /\ Begun(batch).pc = "ready" /\ Begun(batch).batch = batch
<1> DEFINE s == Begun(batch)
<1>1. batch \in Seq(Transactions)
  BY SentTypes
<1>2. s \in Sub
  BY <1>1, NoSubType DEF Begun, Sub
<1>3. /\ s.pc = "ready" /\ s.leg = 1 /\ s.batch = batch /\ s.rest = batch /\ s.sigs = <<>>
  BY NoSubType DEF Begun, Sub
<1>4. Firsts(batch, 0) = <<>> /\ Len(batch) \in Nat /\ Len(<<>>) = 0
  BY <1>1 DEF Firsts
<1>5. EndsWith(batch, batch)
  BY <1>1, <1>4 DEF EndsWith
<1> HIDE DEF s
<1>6. PartOf(s, ds)
  <2>1. Len(batch) - Len(batch) = 0 /\ \A n \in 1 .. 0 : batch[n].id \in s.taken \cup s.unread
    BY <1>4
  <2> QED BY <1>3, <1>4, <1>5, <2>1 DEF PartOf, Sending
<1> QED BY <1>2, <1>3, <1>6 DEF s

\* So is one that there is not, and one whose client cannot be made.
LEMMA NotBegun ==
    ASSUME NEW pc \in {"none", "threw"}, NEW ds
    PROVE  /\ [NoSub EXCEPT !.pc = pc] \in Sub /\ [NoSub EXCEPT !.pc = pc].pc = pc
           /\ PartOf([NoSub EXCEPT !.pc = pc], ds)
<1> DEFINE s == [NoSub EXCEPT !.pc = pc]
<1>1. /\ s \in Sub /\ s.pc = pc /\ s.leg = 1 /\ s.batch = <<>> /\ s.rest = <<>> /\ s.sigs = <<>>
  BY NoSubType DEF Sub, Over
<1>2. Len(<<>>) = 0 /\ EndsWith(<<>>, <<>>)
  BY DEF EndsWith
<1> HIDE DEF s
<1>3. PartOf(s, ds)
  BY <1>1, <1>2 DEF PartOf, Sending
<1> QED BY <1>1, <1>3 DEF s

\* The last of the arrays is the one a call begins with.
LEMMA LastArray ==
    ASSUME IInv
    PROVE  /\ Len(arrays) \in DOMAIN arrays /\ Len(arrays) \in Nat \ {0}
           /\ arrays[Len(arrays)] \in Seq(Providers)
BY DEF IInv, Shape

\* A call that is made has its type.
LEMMA AskedType ==
    ASSUME IInv, NEW c \in Calls, NEW kind \in {"direct", "cached", "failover", "all", "bundle"},
           NEW batch \in Sent, NEW stayed \in SUBSET Providers, NEW w, w = Asked(c, kind, batch, stayed)
    PROVE  /\ w \in CallRecs /\ w.array \in DOMAIN arrays /\ w.array = Len(arrays) /\ w.at = 1
           /\ w.kind = kind /\ w.pc = "running" /\ w.answer = "none" /\ w.stayed = stayed
           /\ w.batch = batch
<1>1. NoCall \in CallRecs /\ NoCall.answer = "none" /\ NoCall.at = 1
  BY DEF NoCall, CallRecs, Sent
<1>2. Len(arrays) \in Nat /\ Len(arrays) \in DOMAIN arrays
  BY LastArray
<1> QED BY <1>1, <1>2 DEF Asked, CallRecs

\* A call is made on a client of its own.
LEMMA SendTransactionsStep ==
    ASSUME IInv, NEW c \in Calls, NEW p \in Providers, NEW kind \in {"direct", "cached"},
           NEW batch \in Batches, SendTransactions(c, p, kind, batch)
    PROVE  IInv'
<1> DEFINE w == Asked(c, kind, batch, {p})
           u == [sub[c] EXCEPT ![p] = Begun(batch)]
<1>1. /\ call \in [Calls -> CallRecs] /\ sub \in [Calls -> [Providers -> Sub]]
      /\ call[c].pc = "idle" /\ \A q \in Providers : sub[c][q].pc = "none"
  BY DEF IInv, Shape, Called, InOrder, SendTransactions
<1>2. batch \in Sent /\ batch # <<>>
  BY SwqosAssumption DEF Sent
<1>3. /\ w \in CallRecs /\ w.array \in DOMAIN arrays
      /\ w.kind = kind /\ w.pc = "running" /\ w.answer = "none" /\ w.stayed = {p}
  <2>1. /\ kind \in {"direct", "cached", "failover", "all", "bundle"} /\ {p} \in SUBSET Providers
        /\ w = Asked(c, kind, batch, {p})
    OBVIOUS
  <2> HIDE DEF w
  <2> QED BY <1>2, <2>1, AskedType
<1>4. call' = [call EXCEPT ![c] = w] /\ sub' = [sub EXCEPT ![c] = u]
  BY <1>1 DEF SendTransactions
<1>5. UNCHANGED <<setup, installed, arrays, changes, quic>>
  BY DEF SendTransactions
<1> HIDE DEF w
<1>6. /\ Kept(c)' /\ call'[c] = w /\ sub'[c] = u /\ setup' = setup
      /\ setup.config[p].made = "factory" /\ createClient(setup.config[p]) # <<>>
      /\ Clients(c, p)' = createClient(setup.config[p])
  BY <1>1, <1>3, <1>4, <1>5 DEF SendTransactions, Kept, Thrown, Clients
<1>7. 1 \in DOMAIN Clients(c, p)'
  <2>1. setup.config[p] \in Configurations
    BY SwqosAssumption DEF IInv, Shape
  <2>2. createClient(setup.config[p]) \in Seq(ClientRecs)
    BY <1>6, <2>1, ClientsAreRecords
  <2> QED BY <1>6, <2>2
<1>8. /\ Begun(batch) \in Sub /\ PartOf(Begun(batch), Clients(c, p)')
      /\ Begun(batch).pc = "ready" /\ Begun(batch).batch = batch
  BY <1>2, <1>7, Beginning
<1>9. u \in [Providers -> Sub] /\ u[p] = Begun(batch) /\ \A q \in Providers \ {p} : u[q] = sub[c][q]
  BY <1>1, <1>8
<1> HIDE DEF u
<1>10. \A q \in Providers : PartOf(u[q], Clients(c, q)')
  <2>1. \A q \in Providers \ {p} : PartOf(sub[c][q], Clients(c, q))
    BY DEF IInv, Parts
  <2> QED BY <1>1, <1>8, <1>9, <2>1, ZenonT(30) DEF PartOf, Sending
<1>11. InOrder(c)'
  <2>1. kind = "cached" => Own(batch).ok
    BY DEF SendTransactions
  <2>2. /\ call'[c] = w /\ sub'[c][p] = Begun(batch)
        /\ \A q \in Providers \ {p} : sub'[c][q].pc = "none"
    BY <1>1, <1>6, <1>9
  <2> QED BY <1>3, <1>6, <1>8, <2>1, <2>2 DEF InOrder
<1>12. Asks(c)' /\ AskedAll(c)'
  BY <1>3, <1>6 DEF Asks, AskedAll, Running
<1> QED BY <1>1, <1>3, <1>4, <1>5, <1>9, <1>10, <1>11, <1>12, OneCallSteps

\* It returns what its submission came to.
LEMMA ReturnedStep ==
    ASSUME IInv, NEW c \in Calls, Returned(c)
    PROVE  IInv'
<1>1. /\ call \in [Calls -> CallRecs] /\ sub \in [Calls -> [Providers -> Sub]]
      /\ call[c].pc = "running" /\ call[c].kind \in {"direct", "cached"} /\ Kept(c)
      /\ \A q \in Providers : sub[c][q].pc \notin Sending
  BY DEF IInv, Shape, Returned, Running, Kept, Busy, Sub, Sending, Over
<1>2. PICK p \in call[c].stayed :
         call' = [call EXCEPT ![c].pc = "done",
                     ![c].answer = IF /\ sub[c][p].pc = "won"
                                      /\ call[c].kind = "cached" =>
                                            sub[c][p].sigs = Own(sub[c][p].batch).sigs
                                   THEN "success" ELSE "failed"]
  BY DEF Returned
<1>3. /\ call[c].stayed = {p} /\ p \in Providers /\ setup.config[p].made = "factory"
      /\ \A q \in Providers \ {p} : sub[c][q].pc = "none"
  BY <1>1, <1>2 DEF IInv, Called, InOrder
<1> DEFINE won == /\ sub[c][p].pc = "won"
                  /\ call[c].kind = "cached" => sub[c][p].sigs = Own(sub[c][p].batch).sigs
           answer == IF won THEN "success" ELSE "failed"
           w == [call[c] EXCEPT !.pc = "done", !.answer = answer]
<1>4. answer \in {"success", "failed"} /\ (answer = "success" => won)
  OBVIOUS
<1>5. call' = [call EXCEPT ![c] = w]
  BY <1>1, <1>2
<1> HIDE DEF answer, won
<1>6. /\ w \in CallRecs /\ w.array \in DOMAIN arrays /\ w.kind = call[c].kind /\ w.pc = "done"
      /\ w.answer = answer /\ w.stayed = {p}
  BY <1>1, <1>3, <1>4, ZenonT(30) DEF CallRecs, IInv, Shape
<1>7. UNCHANGED <<setup, installed, arrays, changes, sub, quic>>
  BY DEF Returned
<1> HIDE DEF w
<1>8. /\ call'[c] = w /\ Kept(c)' /\ sub' = [sub EXCEPT ![c] = sub[c]] /\ sub' = sub
      /\ setup' = setup
      /\ \A q \in Providers : Clients(c, q)' = Clients(c, q)
  BY <1>1, <1>5, <1>6, <1>7 DEF Kept, Clients
<1>9. \A q \in Providers : PartOf(sub[c][q], Clients(c, q)')
  BY <1>8 DEF IInv, Parts
<1>10. InOrder(c)'
  <2>1. ASSUME call[c].kind = "cached", NEW q \in Providers
        PROVE  /\ sub[c][q].pc # "none" => Own(sub[c][q].batch).ok
               /\ answer = "success" /\ sub[c][q].pc = "won" =>
                     sub[c][q].sigs = Firsts(sub[c][q].batch, Len(sub[c][q].batch))
    <3>1. sub[c][q].pc # "none" => Own(sub[c][q].batch).ok
      BY <2>1 DEF IInv, Called, InOrder
    <3>2. ASSUME answer = "success", sub[c][q].pc = "won"
          PROVE  sub[c][q].sigs = Firsts(sub[c][q].batch, Len(sub[c][q].batch))
      <4>1. q = p
        BY <1>3, <3>2
      <4>2. sub[c][p].sigs = Own(sub[c][p].batch).sigs
        BY <1>4, <2>1, <3>2 DEF won
      <4>3. sub[c][p].batch \in Seq(Transactions)
        BY <1>1, <1>3, SentTypes DEF Sub
      <4>4. Own(sub[c][p].batch).ok
        BY <3>1, <3>2, <4>1
      <4> QED BY <4>1, <4>2, <4>3, <4>4, OwnSignatures
    <3> QED BY <3>1, <3>2
  <2> QED BY <1>1, <1>3, <1>6, <1>8, <2>1 DEF InOrder
<1>11. Asks(c)' /\ AskedAll(c)'
  BY <1>1, <1>6, <1>8 DEF Asks, AskedAll, Running
<1> QED BY <1>1, <1>5, <1>6, <1>7, <1>8, <1>9, <1>10, <1>11, OneCallSteps

\* A failover begins with the order of the moment.
LEMMA FailoverBegins ==
    ASSUME IInv, NEW c \in Calls, NEW batch \in Batches, Len(batch) = 1,
           submitWithFallback(c, batch[1])
    PROVE  IInv'
<1> DEFINE order == arrays[Len(arrays)]
           stayed == ToSet(order) \cap getAllClients
           w == Asked(c, "failover", <<batch[1]>>, stayed)
<1>1. /\ call \in [Calls -> CallRecs] /\ sub \in [Calls -> [Providers -> Sub]]
      /\ getAllClients \subseteq Providers
      /\ call[c].pc = "idle" /\ \A q \in Providers : sub[c][q].pc = "none"
  BY DEF IInv, Shape, Called, InOrder, submitWithFallback, getAllClients
<1>2. <<batch[1]>> \in Sent /\ <<batch[1]>> # <<>>
  BY DEF Sent
<1>3. stayed \in SUBSET Providers /\ order \in Seq(Providers)
  BY <1>1, LastArray
<1>4. /\ call' = [call EXCEPT ![c] = w]
      /\ UNCHANGED <<setup, installed, arrays, changes, sub, quic>>
  BY DEF submitWithFallback
<1>5. /\ w \in CallRecs /\ w.array \in DOMAIN arrays /\ w.array = Len(arrays) /\ w.at = 1
      /\ w.kind = "failover" /\ w.pc = "running" /\ w.answer = "none" /\ w.stayed = stayed
      /\ w.batch = <<batch[1]>>
  <2>1. /\ "failover" \in {"direct", "cached", "failover", "all", "bundle"}
        /\ w = Asked(c, "failover", <<batch[1]>>, stayed)
    OBVIOUS
  <2> HIDE DEF w, stayed, order
  <2> QED BY <1>2, <1>3, <2>1, AskedType
<1> HIDE DEF w
<1>6. /\ call'[c] = w /\ sub' = [sub EXCEPT ![c] = sub[c]] /\ sub' = sub /\ ~Kept(c)'
      /\ getAllClients' = getAllClients /\ LoopArray(c)' = order
  BY <1>1, <1>4, <1>5 DEF Kept, LoopArray, getAllClients
<1>7. \A q \in Providers : PartOf(sub[c][q], Clients(c, q)')
  <2>1. \A q \in Providers : PartOf(sub[c][q], Clients(c, q)) /\ sub[c][q].pc = "none"
    BY <1>1 DEF IInv, Parts
  <2> QED BY <2>1 DEF PartOf, Sending
<1>8. InOrder(c)'
  BY <1>1, <1>5, <1>6 DEF InOrder
<1>9. Asks(c)'
  <2>1. \A p \in stayed : \E i \in 1 .. Len(order) : order[i] = p
    BY <1>3 DEF ToSet
  <2> HIDE DEF order
  <2>2. stayed \subseteq getAllClients
    OBVIOUS
  <2>3. /\ call'[c].stayed = stayed /\ call'[c].at = 1 /\ call'[c].batch # <<>>
        /\ \A q \in Providers : sub'[c][q].pc = "none"
    BY <1>1, <1>2, <1>5, <1>6
  <2>4. \A q \in Providers : sub'[c][q].pc # "threw"
    BY <2>3
  <2> HIDE DEF stayed
  <2> QED BY <1>6, <2>1, <2>2, <2>3, <2>4 DEF Asks
<1>10. AskedAll(c)'
  BY <1>5, <1>6 DEF AskedAll
<1> QED BY <1>1, <1>4, <1>5, <1>6, <1>7, <1>8, <1>9, <1>10, OneCallSteps

\* A turn of a failover: it is over, or the next provider that is still there is asked.
LEMMA FailoverTurns ==
    ASSUME IInv, NEW c \in Calls, ContinueFallback(c)
    PROVE  IInv'
<1>1. /\ call \in [Calls -> CallRecs] /\ sub \in [Calls -> [Providers -> Sub]]
      /\ getAllClients \subseteq Providers /\ arrays \in Seq(Seq(Providers))
      /\ call[c].array \in DOMAIN arrays /\ call[c].at \in Nat \ {0}
      /\ call[c].pc = "running" /\ call[c].kind = "failover" /\ call[c].answer = "none"
      /\ Running(c, {"failover"}) /\ ~Kept(c)
      /\ \A q \in Providers : sub[c][q].pc \notin Sending
  BY DEF IInv, Shape, Called, InOrder, ContinueFallback, Running, Kept, Busy, Sub, Sending, Over,
         CallRecs, getAllClients
<1>2. /\ call[c].stayed \subseteq getAllClients /\ call[c].batch # <<>>
      /\ \A p \in Providers : sub[c][p].pc # "threw"
      /\ \A p \in call[c].stayed \ call[c].passed :
             \/ sub[c][p].pc # "none"
             \/ \E i \in call[c].at .. Len(LoopArray(c)) : LoopArray(c)[i] = p
  BY <1>1 DEF IInv, Asking, Asks
<1>3. UNCHANGED <<setup, installed, arrays, changes, quic>>
  BY DEF ContinueFallback
<1>4. LoopArray(c) \in Seq(Providers) /\ Len(LoopArray(c)) \in Nat
  BY <1>1 DEF LoopArray
<1>5. ASSUME NEW answer \in {"success", "failed", "threw"}, NEW u \in [Providers -> Sub],
             call' = [call EXCEPT ![c].pc = "done", ![c].answer = answer],
             sub' = [sub EXCEPT ![c] = u],
             \A q \in Providers : PartOf(u[q], Clients(c, q)),
             answer = "failed" =>
                \A p \in call[c].stayed \ call[c].passed : u[p].pc = "lost"
      PROVE  IInv'
  <2> DEFINE w == [call[c] EXCEPT !.pc = "done", !.answer = answer]
  <2>1. /\ w \in CallRecs /\ w.array \in DOMAIN arrays /\ w.kind = "failover" /\ w.pc = "done"
        /\ w.answer = answer /\ w.stayed = call[c].stayed /\ w.passed = call[c].passed
    BY <1>1, ZenonT(30) DEF CallRecs
  <2>2. call' = [call EXCEPT ![c] = w]
    BY <1>1, <1>5
  <2> HIDE DEF w
  <2>3. /\ call'[c] = w /\ sub'[c] = u /\ setup' = setup /\ ~Kept(c)'
        /\ \A q \in Providers : Clients(c, q)' = Clients(c, q)
        /\ ~(Running(c, {"failover"})')
    BY <1>1, <1>3, <1>5, <2>1, <2>2 DEF Kept, Clients, Running
  <2>4. InOrder(c)'
    BY <2>1, <2>3 DEF InOrder
  <2>5. Asks(c)' /\ AskedAll(c)'
    BY <1>5, <2>1, <2>3 DEF Asks, AskedAll
  <2>6. \A q \in Providers : /\ PartOf(u[q], Clients(c, q)')
                             /\ sub[c][q].pc = "closing" => u[q] = sub[c][q]
    BY <1>1, <1>5, <2>3 DEF Sending
  <2> QED BY <1>3, <1>5, <2>1, <2>2, <2>4, <2>5, <2>6, OneCallSteps
<1>6. /\ sub[c] \in [Providers -> Sub] /\ sub = [sub EXCEPT ![c] = sub[c]]
      /\ \A q \in Providers : PartOf(sub[c][q], Clients(c, q))
  BY <1>1 DEF IInv, Parts
<1>7. CASE /\ call' = [call EXCEPT ![c].pc = "done", ![c].answer = "success"]
           /\ UNCHANGED sub
  BY <1>5, <1>6, <1>7
<1>8. CASE /\ ~Succeeded(c) /\ Ahead(c) = {}
           /\ call' = [call EXCEPT ![c].pc = "done", ![c].answer = "failed"]
           /\ UNCHANGED sub
  <2>1. ASSUME NEW p \in call[c].stayed \ call[c].passed PROVE sub[c][p].pc = "lost"
    <3>1. p \in getAllClients /\ p \in Providers
      BY <1>1, <1>2
    <3>2. sub[c][p].pc # "none"
      BY <1>2, <1>8, <2>1, <3>1 DEF Ahead
    <3>3. sub[c][p].pc \notin {"won", "threw"}
      BY <1>2, <1>8, <3>1 DEF Succeeded
    <3>4. sub[c][p].pc \in {"none"} \cup Sending \cup Over
      BY <1>1, <3>1 DEF Sub, Sending
    <3> QED BY <1>1, <3>1, <3>2, <3>3, <3>4 DEF Over
  <2> QED BY <1>5, <1>6, <1>8, <2>1
<1> DEFINE single == FALSE
<1>9. CASE \E i \in NextAsked(c) :
              LET p == LoopArray(c)[i] IN
              IF senderOf(setup.config[p], single) = Thrown
              THEN /\ call' = [call EXCEPT ![c].pc = "done", ![c].answer = "threw"]
                   /\ sub' = [sub EXCEPT ![c][p].pc = "threw"]
              ELSE /\ call' = [call EXCEPT ![c].at = i + 1]
                   /\ sub' = [sub EXCEPT ![c][p] = Begun(call[c].batch)]
  <2>1. PICK i \in NextAsked(c) :
           LET p == LoopArray(c)[i] IN
           IF senderOf(setup.config[p], single) = Thrown
           THEN /\ call' = [call EXCEPT ![c].pc = "done", ![c].answer = "threw"]
                /\ sub' = [sub EXCEPT ![c][p].pc = "threw"]
           ELSE /\ call' = [call EXCEPT ![c].at = i + 1]
                /\ sub' = [sub EXCEPT ![c][p] = Begun(call[c].batch)]
    BY <1>9
  <2>0. single \in BOOLEAN /\ \A q \in Providers : Clients(c, q) = senderOf(setup.config[q], single)
    BY <1>1 DEF Clients
  <2> HIDE DEF single
  <2> DEFINE p == LoopArray(c)[i]
  <2>2. /\ i \in call[c].at .. Len(LoopArray(c)) /\ i \in Nat \ {0} /\ p \in Providers
        /\ \A j \in Ahead(c) : i <= j
    <3>1. i \in call[c].at .. Len(LoopArray(c)) /\ \A j \in Ahead(c) : i <= j
      BY DEF NextAsked, Ahead
    <3>2. i \in 1 .. Len(LoopArray(c))
      BY <1>1, <1>4, <3>1
    <3> QED BY <1>4, <3>1, <3>2
  <2>3. CASE senderOf(setup.config[p], single) = Thrown
    <3> DEFINE v == [sub[c][p] EXCEPT !.pc = "threw"]
               u == [sub[c] EXCEPT ![p] = v]
    <3>1. /\ call' = [call EXCEPT ![c].pc = "done", ![c].answer = "threw"]
          /\ sub' = [sub EXCEPT ![c] = u]
      BY <1>1, <2>1, <2>3
    <3>2. /\ v \in Sub /\ v.pc = "threw" /\ v.batch = sub[c][p].batch /\ v.rest = sub[c][p].rest
          /\ v.sigs = sub[c][p].sigs
      <4>1. sub[c][p] \in Sub
        BY <1>1, <2>2
      <4> HIDE DEF p
      <4> QED BY <4>1 DEF Sub, Over
    <3> HIDE DEF v, p
    <3>3. u \in [Providers -> Sub] /\ u[p] = v /\ \A q \in Providers \ {p} : u[q] = sub[c][q]
      BY <1>1, <2>2, <3>2
    <3> HIDE DEF u
    <3>4. \A q \in Providers : PartOf(u[q], Clients(c, q))
      <4>1. PartOf(v, Clients(c, p))
        BY <1>6, <2>2, <3>2 DEF PartOf, Sending
      <4> QED BY <1>6, <3>3, <4>1
    <3> QED BY <1>5, <3>1, <3>3, <3>4
  <2>4. CASE senderOf(setup.config[p], single) # Thrown
    <3> DEFINE v == Begun(call[c].batch)
               u == [sub[c] EXCEPT ![p] = v]
               w == [call[c] EXCEPT !.at = i + 1]
    <3>1. call' = [call EXCEPT ![c] = w] /\ sub' = [sub EXCEPT ![c] = u]
      BY <1>1, <2>1, <2>4
    <3>2. /\ w \in CallRecs /\ w.array = call[c].array /\ w.array \in DOMAIN arrays
          /\ w.kind = "failover" /\ w.pc = "running" /\ w.answer = "none" /\ w.at = i + 1
          /\ w.stayed = call[c].stayed /\ w.passed = call[c].passed
          /\ w.batch = call[c].batch
      <4>1. i + 1 \in Nat \ {0} /\ call[c] \in CallRecs
        BY <1>1, <2>2
      <4> HIDE DEF p
      <4> QED BY <1>1, <4>1 DEF CallRecs
    <3> HIDE DEF w
    <3>3. 1 \in DOMAIN Clients(c, p)
      <4>1. senderOf(setup.config[p], single) \in Seq(ClientRecs)
        BY <2>0, <2>2, SwqosAssumption, ClientsAreRecords DEF IInv, Shape
      <4> QED BY <2>0, <2>2, <2>4, <4>1 DEF Thrown
    <3>4. /\ v \in Sub /\ PartOf(v, Clients(c, p)) /\ v.pc = "ready"
      <4>1. call[c].batch \in Sent
        BY <1>1 DEF CallRecs
      <4> QED BY <1>2, <3>3, <4>1, Beginning
    <3> HIDE DEF v
    <3>5. u \in [Providers -> Sub] /\ u[p] = v /\ \A q \in Providers \ {p} : u[q] = sub[c][q]
      BY <1>1, <2>2, <3>4
    <3> HIDE DEF u
    <3>6. /\ call'[c] = w /\ sub'[c] = u /\ setup' = setup /\ getAllClients' = getAllClients
          /\ ~Kept(c)' /\ LoopArray(c)' = LoopArray(c)
          /\ \A q \in Providers : Clients(c, q)' = Clients(c, q)
      BY <1>1, <1>3, <3>1, <3>2 DEF Kept, LoopArray, Clients, getAllClients
    <3>7. \A q \in Providers : /\ PartOf(u[q], Clients(c, q)')
                               /\ sub[c][q].pc = "closing" => u[q] = sub[c][q]
      BY <1>1, <1>6, <3>4, <3>5, <3>6 DEF Sending
    <3>8. InOrder(c)'
      BY <3>2, <3>6 DEF InOrder
    <3>9. Asks(c)'
      <4>1. ASSUME NEW q \in call[c].stayed \ call[c].passed, u[q].pc = "none"
            PROVE  \E j \in i + 1 .. Len(LoopArray(c)) : LoopArray(c)[j] = q
        <5>1. q \in getAllClients /\ q \in Providers /\ q # p
          BY <1>1, <1>2, <3>4, <3>5, <4>1
        <5>2. PICK j \in call[c].at .. Len(LoopArray(c)) : LoopArray(c)[j] = q
          BY <1>2, <3>5, <4>1, <5>1
        <5>3. i <= j /\ i # j
          BY <2>2, <5>1, <5>2 DEF Ahead
        <5>4. j \in i + 1 .. Len(LoopArray(c))
          BY <1>1, <1>4, <2>2, <5>3
        <5> QED BY <5>2, <5>4
      <4>2. \A q \in Providers : u[q].pc # "threw"
        BY <1>2, <3>4, <3>5
      <4> QED BY <1>2, <3>2, <3>6, <4>1, <4>2 DEF Asks
    <3>10. AskedAll(c)'
      BY <3>2, <3>6 DEF AskedAll
    <3> QED BY <1>3, <3>1, <3>2, <3>5, <3>7, <3>8, <3>9, <3>10, OneCallSteps
  <2> QED BY <2>3, <2>4
<1> QED BY <1>7, <1>8, <1>9 DEF ContinueFallback

\* All the clients are asked at once, of a bundle each for what it makes of one.
LEMMA AllBegins ==
    ASSUME IInv, NEW c \in Calls, NEW kind \in {"all", "bundle"}, NEW batch \in Sent,
           batch # <<>>, AskEveryone(c, kind, batch)
    PROVE  IInv'
<1> DEFINE w == Asked(c, kind, batch, getAllClients)
           bundle == kind = "bundle"
           some(p) == IF bundle /\ PostsBundles(setup.config[p]) THEN batch ELSE <<Head(batch)>>
           u == [p \in Providers |->
                    CASE p \notin getAllClients -> NoSub
                      [] p \in getAllClients /\ senderOf(setup.config[p], bundle) = Thrown ->
                            [NoSub EXCEPT !.pc = "threw"]
                      [] OTHER -> Begun(some(p))]
<1>1. /\ call \in [Calls -> CallRecs] /\ sub \in [Calls -> [Providers -> Sub]]
      /\ getAllClients \in SUBSET Providers
      /\ call[c].pc = "idle" /\ \A q \in Providers : sub[c][q].pc = "none"
  BY DEF IInv, Shape, Called, InOrder, AskEveryone, getAllClients
<1>2. \A p \in Providers : some(p) \in Sent /\ some(p) # <<>>
  <2>1. PICK b \in Batches : batch = b \/ batch = <<b[1]>>
    BY DEF Sent
  <2>2. b \in Seq(Transactions) /\ b # <<>>
    BY SwqosAssumption
  <2>3. <<Head(batch)>> = <<b[1]>> /\ <<b[1]>> \in Sent
    BY <2>1, <2>2 DEF Sent
  <2> QED BY <2>3
<1>3. /\ call' = [call EXCEPT ![c] = w] /\ sub' = [sub EXCEPT ![c] = u]
      /\ UNCHANGED <<setup, installed, arrays, changes, quic>>
  BY DEF AskEveryone
<1>4. /\ w \in CallRecs /\ w.array \in DOMAIN arrays
      /\ w.kind = kind /\ w.pc = "running" /\ w.answer = "none"
  <2>1. /\ kind \in {"direct", "cached", "failover", "all", "bundle"}
        /\ w = Asked(c, kind, batch, getAllClients)
    OBVIOUS
  <2> HIDE DEF w
  <2> QED BY <1>1, <1>2, <2>1, AskedType
<1> HIDE DEF w, some
<1>5. /\ call'[c] = w /\ sub'[c] = u /\ ~Kept(c)'
      /\ \A p \in Providers : Clients(c, p)' = senderOf(setup.config[p], bundle)
  BY <1>1, <1>3, <1>4 DEF Kept, Clients
<1>10. bundle \in BOOLEAN
  OBVIOUS
<1> HIDE DEF bundle
<1>6. ASSUME NEW p \in Providers
      PROVE  u[p] \in Sub /\ PartOf(u[p], senderOf(setup.config[p], bundle))
  <2>1. CASE p \notin getAllClients
    <3>1. u[p] = NoSub /\ NoSub = [NoSub EXCEPT !.pc = "none"]
      BY <2>1, NoSubType DEF Sub
    <3> HIDE DEF u
    <3> QED BY <3>1, NotBegun
  <2>2. CASE p \in getAllClients /\ senderOf(setup.config[p], bundle) = Thrown
    <3>1. u[p] = [NoSub EXCEPT !.pc = "threw"]
      BY <2>2
    <3> HIDE DEF u
    <3> QED BY <3>1, NotBegun
  <2>3. CASE p \in getAllClients /\ senderOf(setup.config[p], bundle) # Thrown
    <3>1. u[p] = Begun(some(p))
      BY <2>3
    <3>2. 1 \in DOMAIN senderOf(setup.config[p], bundle)
      <4>1. senderOf(setup.config[p], bundle) \in Seq(ClientRecs)
        BY <1>10, SwqosAssumption, ClientsAreRecords DEF IInv, Shape
      <4> QED BY <2>3, <4>1 DEF Thrown
    <3> HIDE DEF u
    <3> QED BY <1>2, <3>1, <3>2, Beginning
  <2> QED BY <2>1, <2>2, <2>3
<1>7. u \in [Providers -> Sub]
  <2>1. DOMAIN u = Providers /\ u = [p \in Providers |-> u[p]]
    OBVIOUS
  <2> HIDE DEF u
  <2> QED BY <1>6, <2>1
<1> HIDE DEF u
<1>8. \A p \in Providers : /\ PartOf(u[p], Clients(c, p)')
                           /\ sub[c][p].pc = "closing" => u[p] = sub[c][p]
  BY <1>1, <1>5, <1>6
<1>9. InOrder(c)' /\ Asks(c)' /\ AskedAll(c)'
  BY <1>4, <1>5 DEF InOrder, Asks, AskedAll, Running
<1> QED BY <1>3, <1>4, <1>7, <1>8, <1>9, OneCallSteps

\* The call that asked them all returns.
LEMMA AllReturnedStep ==
    ASSUME IInv, NEW c \in Calls, AllReturned(c)
    PROVE  IInv'
<1>1. /\ call \in [Calls -> CallRecs] /\ sub \in [Calls -> [Providers -> Sub]]
      /\ call[c].kind \in {"all", "bundle"} /\ sub = [sub EXCEPT ![c] = sub[c]]
      /\ UNCHANGED <<setup, installed, arrays, changes, sub, quic>>
  BY DEF IInv, Shape, AllReturned, Running
<1>2. PICK answer \in {"success", "failed", "threw"} :
         call' = [call EXCEPT ![c].pc = "done", ![c].answer = answer]
  BY DEF AllReturned
<1> DEFINE w == [call[c] EXCEPT !.pc = "done", !.answer = answer]
<1>3. /\ w \in CallRecs /\ w.array \in DOMAIN arrays /\ w.kind = call[c].kind /\ w.pc = "done"
  <2>1. call[c] \in CallRecs /\ call[c].array \in DOMAIN arrays
    BY <1>1 DEF IInv, Shape
  <2> QED BY <1>1, <2>1 DEF CallRecs
<1>4. call' = [call EXCEPT ![c] = w]
  BY <1>1, <1>2
<1> HIDE DEF w
<1>5. /\ call'[c] = w /\ sub' = sub /\ ~Kept(c)'
      /\ \A p \in Providers : Clients(c, p)' = Clients(c, p)
  BY <1>1, <1>3, <1>4 DEF Kept, Clients
<1>6. \A p \in Providers : PartOf(sub[c][p], Clients(c, p)')
  BY <1>5 DEF IInv, Parts
<1>7. InOrder(c)' /\ Asks(c)' /\ AskedAll(c)'
  BY <1>1, <1>3, <1>5 DEF InOrder, Asks, AskedAll, Running
<1> QED BY <1>1, <1>3, <1>4, <1>5, <1>6, <1>7, OneCallSteps

-----------------------------------------------------------------------------
(* The manager's clients. *)

\* A change of the clients or of their order touches the failovers that run, no more.
LEMMA ManagerSteps ==
    ASSUME IInv, UNCHANGED <<setup, sub, quic>>,
           installed' \subseteq Providers, changes' \in 0 .. setup.changes,
           arrays' \in Seq(Seq(Providers)), DOMAIN arrays \subseteq DOMAIN arrays',
           call' \in [Calls -> CallRecs],
           \A c \in Calls : /\ call'[c].kind = call[c].kind /\ call'[c].pc = call[c].pc
                            /\ call'[c].answer = call[c].answer /\ call'[c].array = call[c].array
                            /\ Running(c, {"failover"}) \/ call'[c] = call[c],
           \A c \in Calls : Running(c, {"failover"}) => Asks(c)'
    PROVE  IInv'
<1>1. arrays' # <<>>
  BY LastArray
<1>2. Shape'
  BY <1>1 DEF IInv, Shape
<1>3. \A c \in Calls : /\ Kept(c)' = Kept(c)
                       /\ Running(c, {"failover"})' = Running(c, {"failover"})
                       /\ \A p \in Providers : Clients(c, p)' = Clients(c, p)
  BY DEF Kept, Running, Clients
<1>4. Parts'
  BY <1>3 DEF IInv, Parts
<1>5. Called'
  <2>1. ASSUME NEW c \in Calls PROVE InOrder(c)'
    <3>1. InOrder(c)
      BY DEF IInv, Called
    <3>2. CASE Running(c, {"failover"})
      BY <1>3, <3>1, <3>2 DEF InOrder, Running, Kept
    <3>3. CASE call'[c] = call[c]
      BY <1>3, <3>1, <3>3 DEF InOrder
    <3> QED BY <3>2, <3>3
  <2> QED BY <2>1 DEF Called
<1>6. Asking'
  BY <1>3 DEF Asking, Asks
<1>7. FailoverAsksAll'
  <2>1. \A c \in Calls : Running(c, {"failover"}) => call[c].answer = "none"
    BY DEF IInv, Called, InOrder, Running
  <2>2. ASSUME NEW c \in Calls, call'[c].kind = "failover", call'[c].answer = "failed",
               NEW p \in call'[c].stayed \ call'[c].passed
        PROVE  sub'[c][p].pc = "lost"
    BY <2>1, <2>2 DEF IInv, FailoverAsksAll
  <2> QED BY <2>2 DEF FailoverAsksAll
<1>8. Connecting' /\ ConnectionsOwned'
  BY DEF IInv, Connecting, ConnectionsOwned
<1> QED BY <1>2, <1>4, <1>5, <1>6, <1>7, <1>8 DEF IInv

\* A change is counted.
LEMMA ChangesCounted ==
    ASSUME IInv, changes > 0, changes' = changes - 1
    PROVE  changes' \in 0 .. setup.changes
<1>1. setup.changes \in Nat /\ changes \in 0 .. setup.changes
  BY SwqosAssumption DEF IInv, Shape
<1> QED BY <1>1

\* A client that is added comes at the end of the order, unless the order names it.
LEMMA AddClientStep ==
    ASSUME IInv, NEW p \in Providers, addClient(p)
    PROVE  IInv'
<1> DEFINE n == Len(arrays)
           order == arrays[n]
           longer == IF p \in ToSet(order) THEN order ELSE Append(order, p)
<1>1. /\ n \in DOMAIN arrays /\ order \in Seq(Providers) /\ arrays \in Seq(Seq(Providers))
      /\ installed \subseteq Providers /\ call \in [Calls -> CallRecs]
  BY LastArray DEF IInv, Shape
<1>2. /\ arrays' = [arrays EXCEPT ![n] = longer] /\ installed' = installed \cup {p}
      /\ UNCHANGED <<setup, call, sub, quic>> /\ changes > 0 /\ changes' = changes - 1
  BY DEF addClient
<1>3. /\ longer \in Seq(Providers) /\ Len(longer) \in Nat /\ Len(order) <= Len(longer)
      /\ \A i \in 1 .. Len(order) : longer[i] = order[i]
  <2>1. Append(order, p) \in Seq(Providers) /\ Len(Append(order, p)) = Len(order) + 1
    BY <1>1
  <2> QED BY <1>1, <2>1
<1> HIDE DEF longer
<1>4. /\ arrays' \in Seq(Seq(Providers)) /\ DOMAIN arrays' = DOMAIN arrays
      /\ arrays'[n] = longer /\ \A k \in DOMAIN arrays \ {n} : arrays'[k] = arrays[k]
  BY <1>1, <1>2, <1>3
<1>5. ASSUME NEW c \in Calls, Running(c, {"failover"})
      PROVE  Asks(c)'
  <2>1. Asks(c) /\ call[c].array \in DOMAIN arrays /\ call[c].at \in Nat \ {0}
    BY <1>1 DEF IInv, Asking, Shape, CallRecs
  <2>2. ASSUME NEW q, NEW i \in call[c].at .. Len(LoopArray(c)), LoopArray(c)[i] = q
        PROVE  \E j \in call'[c].at .. Len(LoopArray(c)') : LoopArray(c)'[j] = q
    <3>1. CASE call[c].array = n
      <4>1. LoopArray(c) = order /\ LoopArray(c)' = longer
        BY <1>2, <1>4, <3>1 DEF LoopArray
      <4>2. i \in call[c].at .. Len(longer) /\ i \in 1 .. Len(order)
        <5> HIDE DEF order
        <5>1. Len(order) \in Nat
          BY <1>1
        <5> QED BY <1>3, <2>1, <2>2, <4>1, <5>1
      <4> QED BY <1>2, <1>3, <2>2, <4>1, <4>2
    <3>2. CASE call[c].array # n
      BY <1>2, <1>4, <2>1, <2>2, <3>2 DEF LoopArray
    <3> QED BY <3>1, <3>2
  <2>3. getAllClients \subseteq getAllClients'
    BY <1>2 DEF getAllClients
  <2> QED BY <1>2, <1>5, <2>1, <2>2, <2>3, ZenonT(30) DEF Asks, Running
<1>6. changes' \in 0 .. setup.changes
  BY <1>2, ChangesCounted
<1>7. installed' \subseteq Providers
  BY <1>1, <1>2
<1> QED BY <1>1, <1>2, <1>4, <1>5, <1>6, <1>7, ManagerSteps

\* A new order is a new array; the failovers that run keep theirs.
LEMMA SetFallbackOrderStep ==
    ASSUME IInv, NEW order \in Seq(Providers), setFallbackOrder(order)
    PROVE  IInv'
<1>1. /\ arrays \in Seq(Seq(Providers)) /\ installed \subseteq Providers
      /\ call \in [Calls -> CallRecs] /\ \A c \in Calls : call[c].array \in DOMAIN arrays
  BY DEF IInv, Shape
<1>2. /\ arrays' = Append(arrays, order) /\ changes > 0 /\ changes' = changes - 1
      /\ UNCHANGED <<setup, installed, call, sub, quic>>
  BY DEF setFallbackOrder
<1>3. /\ arrays' \in Seq(Seq(Providers)) /\ DOMAIN arrays \subseteq DOMAIN arrays'
      /\ \A k \in DOMAIN arrays : arrays'[k] = arrays[k]
  <2>1. Append(arrays, order) \in Seq(Seq(Providers))
    BY <1>1
  <2> QED BY <1>1, <1>2, <2>1
<1>4. ASSUME NEW c \in Calls, Running(c, {"failover"})
      PROVE  Asks(c)'
  <2>1. Asks(c) /\ LoopArray(c)' = LoopArray(c) /\ getAllClients' = getAllClients
    BY <1>1, <1>2, <1>3 DEF IInv, Asking, LoopArray, getAllClients
  <2> QED BY <1>2, <2>1 DEF Asks, Running
<1>5. changes' \in 0 .. setup.changes
  BY <1>2, ChangesCounted
<1> QED BY <1>1, <1>2, <1>3, <1>4, <1>5, ManagerSteps

\* An array without one of its elements.
LEMMA Spliced ==
    ASSUME NEW q \in Seq(Providers), NEW i \in 1 .. Len(q)
    PROVE  /\ RemoveAt(q, i) \in Seq(Providers) /\ Len(RemoveAt(q, i)) = Len(q) - 1
           /\ \A j \in 1 .. Len(q) - 1 : RemoveAt(q, i)[j] = IF j < i THEN q[j] ELSE q[j + 1]
<1> DEFINE x == SubSeq(q, 1, i - 1)
           y == SubSeq(q, i + 1, Len(q))
<1>1. Len(q) \in Nat /\ i \in Nat \ {0} /\ i <= Len(q) /\ i - 1 \in Nat
  OBVIOUS
<1>2. /\ x \in Seq(Providers) /\ Len(x) = i - 1
      /\ \A j \in 1 .. i - 1 : x[j] = q[j]
  <2>1. \A j \in 1 .. i - 1 : q[j] \in Providers
    BY <1>1
  <2> QED BY <1>1, <2>1, SubSeqProperties
<1>3. /\ y \in Seq(Providers) /\ Len(y) = Len(q) - i
      /\ \A j \in 1 .. Len(q) - i : y[j] = q[i + j]
  <2>1. \A j \in i + 1 .. Len(q) : q[j] \in Providers
    BY <1>1
  <2>2. i + 1 \in Int /\ Len(q) \in Int
    BY <1>1
  <2>3. /\ y \in Seq(Providers)
        /\ Len(y) = IF i + 1 <= Len(q) THEN Len(q) - (i + 1) + 1 ELSE 0
        /\ \A j \in 1 .. Len(q) - (i + 1) + 1 : y[j] = q[i + 1 + j - 1]
    BY <2>1, <2>2, SubSeqProperties
  <2> QED BY <1>1, <2>3
<1>4. RemoveAt(q, i) = x \o y
  BY DEF RemoveAt
<1> HIDE DEF x, y
<1>5. /\ x \o y \in Seq(Providers) /\ Len(x \o y) = Len(x) + Len(y)
      /\ \A j \in 1 .. Len(x) + Len(y) :
            (x \o y)[j] = IF j <= Len(x) THEN x[j] ELSE y[j - Len(x)]
  BY <1>2, <1>3, ConcatProperties
<1>6. Len(x) + Len(y) = Len(q) - 1
  BY <1>1, <1>2, <1>3
<1>7. ASSUME NEW j \in 1 .. Len(q) - 1
      PROVE  (x \o y)[j] = IF j < i THEN q[j] ELSE q[j + 1]
  <2>1. CASE j < i
    <3>1. j \in 1 .. i - 1 /\ j <= Len(x)
      BY <1>1, <1>2, <2>1
    <3> QED BY <1>2, <1>5, <1>6, <2>1, <3>1
  <2>2. CASE ~(j < i)
    <3>1. j - (i - 1) \in 1 .. Len(q) - i /\ i + (j - (i - 1)) = j + 1 /\ ~(j <= Len(x))
      BY <1>1, <1>2, <2>2
    <3>2. (x \o y)[j] = y[j - Len(x)]
      BY <1>5, <1>6, <3>1
    <3>3. y[j - (i - 1)] = q[j + 1]
      BY <1>3, <3>1
    <3> QED BY <1>2, <2>2, <3>2, <3>3
  <2> QED BY <2>1, <2>2
<1> QED BY <1>4, <1>5, <1>6, <1>7

\* A client that is removed leaves the array that the loops walk: who comes after it
\* moves up, and is still ahead unless the loop passes it over.
LEMMA RemoveClientStep ==
    ASSUME IInv, NEW p \in Providers, removeClient(p)
    PROVE  IInv'
<1> DEFINE n == Len(arrays)
           order == arrays[n]
           Loops(c) == Running(c, {"failover"})
<1>1. /\ n \in DOMAIN arrays /\ order \in Seq(Providers) /\ arrays \in Seq(Seq(Providers))
      /\ installed \subseteq Providers /\ call \in [Calls -> CallRecs]
      /\ \A c \in Calls : call[c].array \in DOMAIN arrays
  BY LastArray DEF IInv, Shape
<1>2. PICK i \in 0 .. Len(order) :
         /\ IF i = 0 THEN p \notin ToSet(order)
            ELSE order[i] = p /\ \A j \in 1 .. i - 1 : order[j] # p
         /\ arrays' = IF i = 0 THEN arrays ELSE [arrays EXCEPT ![n] = RemoveAt(@, i)]
         /\ call' = [c \in Calls |->
               IF Running(c, {"failover"})
               THEN [call[c] EXCEPT !.stayed = @ \ {p},
                        !.passed = IF /\ call[c].array = n /\ i \in 1 .. call[c].at - 1
                                      /\ call[c].at \in DOMAIN order
                                   THEN @ \cup {order[call[c].at]} ELSE @]
               ELSE call[c]]
  BY DEF removeClient
<1>3. /\ installed' = installed \ {p} /\ UNCHANGED <<setup, sub, quic>>
      /\ changes > 0 /\ changes' = changes - 1
  BY DEF removeClient
<1> DEFINE PassesOver(c) == /\ call[c].array = n /\ i \in 1 .. call[c].at - 1
                            /\ call[c].at \in DOMAIN order
           shorter == IF i = 0 THEN order ELSE RemoveAt(order, i)
<1>4. shorter \in Seq(Providers)
  BY <1>1, Spliced
<1>5. /\ arrays' \in Seq(Seq(Providers)) /\ DOMAIN arrays' = DOMAIN arrays
      /\ arrays'[n] = shorter /\ \A k \in DOMAIN arrays \ {n} : arrays'[k] = arrays[k]
  <2>1. CASE i = 0
    BY <1>1, <1>2, <2>1
  <2>2. CASE i # 0
    <3>1. arrays' = [arrays EXCEPT ![n] = shorter]
      BY <1>2, <2>2
    <3> HIDE DEF shorter
    <3> QED BY <1>1, <1>4, <3>1
  <2> QED BY <2>1, <2>2
<1>6. ASSUME NEW c \in Calls
      PROVE  /\ call'[c] \in CallRecs
             /\ call'[c].kind = call[c].kind /\ call'[c].pc = call[c].pc
             /\ call'[c].answer = call[c].answer /\ call'[c].array = call[c].array
             /\ call'[c].at = call[c].at /\ call'[c].batch = call[c].batch
             /\ Loops(c) => /\ call'[c].stayed = call[c].stayed \ {p}
                            /\ call[c].passed \subseteq call'[c].passed
                            /\ PassesOver(c) => order[call[c].at] \in call'[c].passed
             /\ ~Loops(c) => call'[c] = call[c]
  <2>1. PICK passed \in SUBSET Providers :
           passed = IF PassesOver(c) THEN call[c].passed \cup {order[call[c].at]}
                    ELSE call[c].passed
    <3>1. call[c].passed \subseteq Providers
      BY <1>1 DEF CallRecs
    <3>2. PassesOver(c) => order[call[c].at] \in Providers
      BY <1>1
    <3> QED BY <3>1, <3>2
  <2>2. call[c] \in CallRecs
    BY <1>1
  <2>3. Loops(c) => call'[c] = [call[c] EXCEPT !.stayed = @ \ {p}, !.passed = passed]
    BY <1>2, <2>1
  <2>4. ~Loops(c) => call'[c] = call[c]
    BY <1>2
  <2> HIDE DEF Loops, PassesOver
  <2>5. CASE Loops(c)
    <3>1. /\ call'[c] \in CallRecs
          /\ call'[c].kind = call[c].kind /\ call'[c].pc = call[c].pc
          /\ call'[c].answer = call[c].answer /\ call'[c].array = call[c].array
          /\ call'[c].at = call[c].at /\ call'[c].batch = call[c].batch
          /\ call'[c].stayed = call[c].stayed \ {p} /\ call'[c].passed = passed
      <4>1. ASSUME NEW r \in CallRecs, NEW v, v = [r EXCEPT !.stayed = @ \ {p}, !.passed = passed]
            PROVE  /\ v \in CallRecs /\ v.kind = r.kind /\ v.pc = r.pc /\ v.answer = r.answer
                   /\ v.array = r.array /\ v.at = r.at /\ v.batch = r.batch
                   /\ v.stayed = r.stayed \ {p} /\ v.passed = passed
        BY <4>1 DEF CallRecs
      <4>2. call'[c] = [call[c] EXCEPT !.stayed = @ \ {p}, !.passed = passed]
        BY <2>3, <2>5
      <4> QED BY <2>2, <4>1, <4>2, ZenonT(30)
    <3> QED BY <2>1, <2>5, <3>1
  <2> QED BY <2>2, <2>4, <2>5
<1>7. call' \in [Calls -> CallRecs]
  <2>1. DOMAIN call' = Calls /\ call' = [c \in Calls |-> call'[c]]
    BY <1>2
  <2> QED BY <1>6, <2>1
<1>8. ASSUME NEW c \in Calls, Loops(c)
      PROVE  Asks(c)'
  <2>1. /\ Asks(c) /\ call[c].array \in DOMAIN arrays /\ call[c].at \in Nat \ {0}
        /\ call[c].stayed \subseteq Providers
    BY <1>1 DEF IInv, Asking, CallRecs
  <2>2. /\ call[c].stayed \subseteq getAllClients /\ call[c].batch # <<>>
        /\ \A q \in Providers : sub[c][q].pc # "threw"
    BY <1>8, <2>1 DEF Asks
  <2>3. ASSUME NEW q \in (call[c].stayed \ {p}) \ call'[c].passed, sub[c][q].pc = "none"
        PROVE  \E j \in call[c].at .. Len(LoopArray(c)') : LoopArray(c)'[j] = q
    <3>1. PICK j \in call[c].at .. Len(LoopArray(c)) : LoopArray(c)[j] = q
      BY <1>6, <1>8, <2>1, <2>3 DEF Asks
    <3>2. CASE call[c].array # n
      <4>1. call'[c].array = call[c].array /\ call[c].array \in DOMAIN arrays \ {n}
        BY <1>6, <2>1, <3>2
      <4>2. LoopArray(c)' = LoopArray(c)
        <5> HIDE DEF n, order, shorter, Loops
        <5> QED BY <1>5, <4>1 DEF LoopArray
      <4> QED BY <3>1, <4>2
    <3>3. CASE call[c].array = n
      <4>1. LoopArray(c) = order /\ LoopArray(c)' = shorter
        BY <1>5, <1>6, <3>3 DEF LoopArray
      <4>2. PassesOver(c) => order[call[c].at] # q
        BY <1>6, <1>8, <2>3
      <4>3. CASE i = 0
        BY <3>1, <4>1, <4>3
      <4>4. CASE i # 0
        <5>1. /\ Len(order) \in Nat /\ i \in 1 .. Len(order)
              /\ j \in call[c].at .. Len(order) /\ order[j] = q /\ order[i] = p
              /\ i < call[c].at => j # call[c].at
          <6>1. order[i] = p /\ i \in 0 .. Len(order)
            BY <1>2, <4>4
          <6>2. order \in Seq(Providers) /\ Len(order) \in Nat
            BY <1>1
          <6> HIDE DEF order
          <6>3. i \in 1 .. Len(order)
            BY <4>4, <6>1, <6>2
          <6>4. j \in call[c].at .. Len(order) /\ order[j] = q
            BY <3>1, <4>1
          <6>5. ASSUME i < call[c].at, j = call[c].at PROVE FALSE
            <7>1. call[c].at \in 1 .. Len(order) /\ i \in 1 .. call[c].at - 1
              BY <2>1, <6>2, <6>3, <6>4, <6>5
            <7>2. call[c].at \in DOMAIN order
              BY <6>2, <7>1
            <7> QED BY <3>3, <4>2, <6>4, <6>5, <7>1, <7>2
          <6> QED BY <6>1, <6>2, <6>3, <6>4, <6>5
        <5>2. j # i
          BY <2>3, <5>1
        <5>3. /\ shorter = RemoveAt(order, i) /\ Len(shorter) = Len(order) - 1
              /\ \A k \in 1 .. Len(order) - 1 :
                    shorter[k] = IF k < i THEN order[k] ELSE order[k + 1]
          BY <1>1, <4>4, <5>1, Spliced
        <5> HIDE DEF order, shorter
        <5>4. CASE j < i
          <6>1. j \in 1 .. Len(order) - 1 /\ j \in call[c].at .. Len(order) - 1
            BY <2>1, <5>1, <5>4
          <6> QED BY <4>1, <5>1, <5>3, <5>4, <6>1
        <5>5. CASE ~(j < i)
          <6>1. /\ j - 1 \in 1 .. Len(order) - 1 /\ j - 1 \in call[c].at .. Len(order) - 1
                /\ ~(j - 1 < i) /\ j - 1 + 1 = j
            BY <2>1, <5>1, <5>2, <5>5
          <6> QED BY <4>1, <5>1, <5>3, <6>1
        <5> QED BY <5>4, <5>5
      <4> QED BY <4>3, <4>4
    <3> QED BY <3>2, <3>3
  <2>4. call[c].stayed \ {p} \subseteq getAllClients'
    BY <1>3, <2>2 DEF getAllClients
  <2> QED BY <1>3, <1>6, <1>8, <2>2, <2>3, <2>4 DEF Asks
<1>9. changes' \in 0 .. setup.changes
  BY <1>3, ChangesCounted
<1>10. installed' \subseteq Providers
  BY <1>1, <1>3
<1> QED BY <1>3, <1>5, <1>6, <1>7, <1>8, <1>9, <1>10, ManagerSteps

-----------------------------------------------------------------------------
(* The theorems. *)

\* An order of providers is a sequence of them.
LEMMA OrdersAreSequences ==
    ASSUME NEW S \in SUBSET Providers, NEW order \in SetToSeqs(S)
    PROVE  order \in Seq(Providers)
<1>1. Cardinality(S) \in Nat
  BY SwqosAssumption, FS_Subset, FS_CardinalityType
<1>2. order \in [1 .. Cardinality(S) -> S]
  BY DEF SetToSeqs
<1>3. order \in [1 .. Cardinality(S) -> Providers]
  BY <1>2
<1> QED BY <1>1, <1>3

\* In the beginning nothing is submitted, and nothing is connected.
LEMMA InitIsKept == Init => IInv
<1> SUFFICES ASSUME Init PROVE IInv
  OBVIOUS
<1>1. PICK order \in SetToSeqs(installed) : arrays = <<order>>
  BY DEF Init
<1>2. order \in Seq(Providers)
  BY OrdersAreSequences DEF Init
<1>3. /\ setup \in Setups /\ installed \subseteq Providers /\ changes \in 0 .. setup.changes
      /\ arrays \in Seq(Seq(Providers)) /\ arrays # <<>> /\ 1 \in DOMAIN arrays
  BY <1>1, <1>2, SwqosAssumption DEF Init
<1>4. /\ NoCall \in CallRecs /\ NoCall.array = 1 /\ NoCall.pc = "idle" /\ NoCall.kind = "none"
      /\ NoCall.answer = "none"
  BY DEF NoCall, CallRecs, Sent
<1>5. /\ call = [c \in Calls |-> NoCall] /\ sub = [c \in Calls |-> [p \in Providers |-> NoSub]]
      /\ quic = [p \in Providers |->
                    [client |-> NoConn, pending |-> FALSE, open |-> {}, dials |-> 0]]
  BY DEF Init
<1>6. [client |-> NoConn, pending |-> FALSE, open |-> {}, dials |-> 0] \in Conns
  BY SwqosAssumption DEF Conns, NoConn
<1>7. Shape
  BY <1>3, <1>4, <1>5, <1>6, NoSubType DEF Shape
<1>8. Parts
  <2>1. \A ds : PartOf(NoSub, ds)
    <3>1. NoSub = [NoSub EXCEPT !.pc = "none"]
      BY NoSubType DEF Sub
    <3>2. \A ds : PartOf([NoSub EXCEPT !.pc = "none"], ds)
      BY NotBegun
    <3> QED BY <3>1, <3>2
  <2> QED BY <1>5, <2>1 DEF Parts
<1>9. Called /\ Asking /\ FailoverAsksAll
  <2>1. \A c \in Calls : call[c] = NoCall /\ ~Kept(c) /\ ~Running(c, {"failover"})
                         /\ \A p \in Providers : sub[c][p].pc = "none"
    BY <1>4, <1>5, NoSubType DEF Kept, Running
  <2> QED BY <1>4, <2>1 DEF Called, InOrder, Asking, Asks, FailoverAsksAll
<1>10. Connecting /\ ConnectionsOwned
  BY <1>5 DEF Connecting, ConnectionsOwned
<1> QED BY <1>7, <1>8, <1>9, <1>10 DEF IInv

\* Every step keeps everything in order.
LEMMA NextIsKept == IInv /\ [Next]_vars => IInv'
<1> SUFFICES ASSUME IInv, [Next]_vars PROVE IInv'
  OBVIOUS
<1>1. ASSUME NEW c \in Calls, NEW p \in Providers,
             Send(c, p) \/ Connect(c, p) \/ Write(c, p) \/ Destroyed(c, p)
      PROVE  IInv'
  <2>1. quic \in [Providers -> Conns]
    BY DEF IInv, Shape
  <2> QED BY <1>1, <2>1, SendStep, ConnectStep, WriteStep, DestroyedStep, ProgressIsKept
<1>2. ASSUME NEW c \in Calls, Returned(c) \/ ContinueFallback(c) \/ AllReturned(c)
      PROVE  IInv'
  BY <1>2, ReturnedStep, FailoverTurns, AllReturnedStep
<1>3. ASSUME NEW c \in Calls, NEW batch \in Batches, NEW p \in Providers,
             NEW kind \in {"direct", "cached"}, SendTransactions(c, p, kind, batch)
      PROVE  IInv'
  BY <1>3, SendTransactionsStep
<1>4. ASSUME NEW c \in Calls, NEW batch \in Batches,
             \/ Len(batch) = 1 /\ (submitWithFallback(c, batch[1]) \/ submitToAll(c, batch[1]))
             \/ submitBundleToAll(c, batch)
      PROVE  IInv'
  <2>1. PICK all \in {"all", "bundle"}, bundle \in {"all", "bundle"} :
           all = "all" /\ bundle = "bundle"
    OBVIOUS
  <2>2. /\ batch \in Sent /\ batch # <<>>
        /\ <<batch[1]>> \in Sent /\ <<batch[1]>> # <<>>
    BY SwqosAssumption DEF Sent
  <2>3. submitToAll(c, batch[1]) => AskEveryone(c, all, <<batch[1]>>)
    BY <2>1 DEF submitToAll
  <2>4. submitBundleToAll(c, batch) => AskEveryone(c, bundle, batch)
    BY <2>1 DEF submitBundleToAll
  <2>5. submitToAll(c, batch[1]) => IInv'
    BY <2>2, <2>3, AllBegins
  <2>6. submitBundleToAll(c, batch) => IInv'
    BY <2>2, <2>4, AllBegins
  <2> QED BY <1>4, <2>5, <2>6, FailoverBegins
<1>5. ASSUME NEW p \in Providers,
             Connected(p) \/ NotConnected(p) \/ addClient(p) \/ removeClient(p)
      PROVE  IInv'
  BY <1>5, ConnectedStep, NotConnectedStep, ProgressIsKept, AddClientStep, RemoveClientStep
<1>6. ASSUME NEW order \in SetToAllKPermutations(installed), setFallbackOrder(order)
      PROVE  IInv'
  <2>1. PICK S \in SUBSET installed : order \in SetToSeqs(S)
    BY DEF SetToAllKPermutations
  <2>2. S \in SUBSET Providers
    BY <2>1 DEF IInv, Shape
  <2>3. order \in Seq(Providers)
    BY <2>1, <2>2, OrdersAreSequences
  <2> QED BY <1>6, <2>3, SetFallbackOrderStep
<1>7. CASE UNCHANGED vars
  <2>1. Progress /\ quic' \in [Providers -> Conns]
    BY <1>7 DEF vars, IInv, Shape, Progress
  <2>2. Connecting' /\ ConnectionsOwned'
    BY <1>7 DEF vars, IInv, Connecting, ConnectionsOwned
  <2> QED BY <2>1, <2>2, ProgressIsKept
<1> QED BY <1>1, <1>2, <1>3, <1>4, <1>5, <1>6, <1>7 DEF Next, Step

\* However calls, connections and the manager's changes interleave, what a submission
\* counts as sent was taken, unless its client cannot know or did not look, a loop has
\* still ahead of it whom it has neither asked nor passed over, and every connection has
\* an owner.
THEOREM SwqosInvariant == Spec => []IInv
<1> QED BY InitIsKept, NextIsKept, PTL DEF Spec

\* Every connection that a kept client has open is its current one, or is being closed by
\* the call that threw it away.
THEOREM ConnectionsAreOwned == Spec => []ConnectionsOwned
<1>1. IInv => ConnectionsOwned
  BY DEF IInv
<1> QED BY <1>1, SwqosInvariant, PTL

\* A failover that reports that all failed asked everyone who stayed in its order, and
\* each of them failed; the loop passes over only whoever is next when an entry behind
\* it is removed.
THEOREM FailoverAskedAll == Spec => []FailoverAsksAll
<1>1. IInv => FailoverAsksAll
  BY DEF IInv
<1> QED BY <1>1, SwqosInvariant, PTL

\* A submission that succeeded was taken, all of it, but for what was refused in words that
\* its client does not look for, or down a stream; and it is signed with the transactions'
\* own signatures unless the provider's word is taken.
THEOREM SuccessIsHonest == Spec => []HonestSuccess
<1>1. IInv => HonestSuccess
  <2> SUFFICES ASSUME IInv PROVE HonestSuccess
    OBVIOUS
  <2>1. TypeOK
    <3>1. installed \subseteq Providers /\ changes \in 0 .. setup.changes
      BY DEF IInv, Shape
    <3>2. \A i \in DOMAIN arrays : arrays[i] \in Seq(Providers)
      BY DEF IInv, Shape
    <3>3. \A c \in Calls : /\ call[c].answer \in {"none", "success", "failed", "threw"}
                           /\ call[c].array \in DOMAIN arrays
      BY DEF IInv, Shape, CallRecs
    <3>4. ASSUME NEW c \in Calls, NEW p \in Providers
          PROVE  /\ sub[c][p] \in Sub /\ EndsWith(sub[c][p].batch, sub[c][p].rest)
                 /\ Len(sub[c][p].sigs) + Len(sub[c][p].rest) <= Len(sub[c][p].batch)
      BY DEF IInv, Shape, Parts, PartOf
    <3>5. \A p \in Providers : quic[p].client \in 0 .. MaxDials
      BY DEF IInv, Shape, Conns
    <3> QED BY <3>1, <3>2, <3>3, <3>4, <3>5 DEF TypeOK
  <2>2. ASSUME NEW c \in Calls, NEW p \in Providers, sub[c][p].pc = "won"
        PROVE  /\ \/ Ids(sub[c][p].batch) \subseteq sub[c][p].taken \cup sub[c][p].unread
                  \/ Silent(Client(c, p))
               /\ \/ sub[c][p].sigs = [i \in DOMAIN sub[c][p].batch |-> sub[c][p].batch[i].id]
                  \/ /\ Client(c, p).reply \notin {"own", "exact"}
                     /\ call[c].kind = "cached" => call[c].answer # "success"
    <3> DEFINE s == sub[c][p]
    <3>1. /\ s \in Sub /\ PartOf(s, Clients(c, p)) /\ s.batch \in Seq(Transactions)
      BY SentTypes DEF IInv, Shape, Parts, Sub
    <3>2. s.rest = <<>> /\ Len(s.batch) - Len(s.rest) = Len(s.batch)
          /\ DOMAIN s.batch = 1 .. Len(s.batch)
      <4>1. s.pc = "won"
        BY <2>2
      <4>2. s.rest = <<>>
        BY <3>1, <4>1 DEF PartOf
      <4>3. Len(s.batch) \in Nat /\ DOMAIN s.batch = 1 .. Len(s.batch)
        BY <3>1
      <4> HIDE DEF s
      <4> QED BY <4>2, <4>3
    <3>3. /\ \/ Silent(Client(c, p))
             \/ \A i \in 1 .. Len(s.batch) : s.batch[i].id \in s.taken \cup s.unread
          /\ Client(c, p).reply \in {"own", "exact"} => s.sigs = Firsts(s.batch, Len(s.batch))
      BY <2>2, <3>1, <3>2 DEF PartOf, Client
    <3>4. call[c].kind = "cached" /\ call[c].answer = "success" =>
             s.sigs = Firsts(s.batch, Len(s.batch))
      BY <2>2 DEF IInv, Called, InOrder
    <3>5. Firsts(s.batch, Len(s.batch)) = [i \in DOMAIN s.batch |-> s.batch[i].id]
      BY <3>2 DEF Firsts
    <3> HIDE DEF s
    <3>6. (\A i \in 1 .. Len(s.batch) : s.batch[i].id \in s.taken \cup s.unread)
             => Ids(s.batch) \subseteq s.taken \cup s.unread
      BY <3>2 DEF Ids
    <3>7. /\ Ids(s.batch) \subseteq s.taken \cup s.unread \/ Silent(Client(c, p))
          /\ \/ s.sigs = [i \in DOMAIN s.batch |-> s.batch[i].id]
             \/ /\ Client(c, p).reply \notin {"own", "exact"}
                /\ call[c].kind = "cached" => call[c].answer # "success"
      BY <3>3, <3>4, <3>5, <3>6
    <3> QED BY <3>7 DEF s
  <2> QED BY <2>1, <2>2 DEF HonestSuccess, Silent
<1> QED BY <1>1, SwqosInvariant, PTL
=============================================================================
