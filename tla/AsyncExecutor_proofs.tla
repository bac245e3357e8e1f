------------------------ MODULE AsyncExecutor_proofs ------------------------
(***************************************************************************)
(* Proofs about AsyncExecutor, for every set of providers, every order and *)
(* every retry bound: types and the retry bound, the pairing of receipts,  *)
(* no resubmission, and that execute() implements ReceiptContract.         *)
(***************************************************************************)
EXTENDS AsyncExecutor, FiniteSetTheorems, TLAPS

\* What the receipts say of the acknowledgements.
ReceiptInv ==
    /\ signature = receipt.sig
    /\ Paired(receipt)
    /\ receipt.sig = NoSig => acks = {}

\* A lane's place and its result agree with whether its provider acknowledged.
LaneInv ==
    \A p \in Providers :
        /\ p \in acks => lane[p] \in {"polling", "done"}
        /\ lane[p] = "polling" => p \in acks
        /\ lane[p] = "done" =>
             /\ laneRes[p].sig = IF p \in acks THEN SigOf[p] ELSE NoSig
             /\ laneRes[p].provider = p
             /\ laneRes[p].success => p \in acks
        /\ lane[p] # "idle" => p \in Lanes

\* Before the call starts nothing has happened.
IdleInv ==
    pc = "idle" =>
        /\ ~aborted /\ ~completed /\ cursor = 1
        /\ lane = [p \in Providers |-> "idle"]
        /\ sends = [p \in Providers |-> 0]

\* The loops of executeWithRetry and executeFallback have one lane at a time,
\* leave only rejected ones behind, and are stopped by the answer.
SeqInv ==
    Sequential /\ pc # "idle" /\ Lanes # {} =>
        /\ cursor <= IF cfg.submitMode = "Single" THEN MaxRetries ELSE Len(cfg.providers)
        /\ \A p \in Providers : p # Current /\ lane[p] # "idle" => lane[p] = "done" /\ p \notin acks
        /\ pc # "run" => lane[Current] = "done"
        /\ pc = "sleep" => Current \notin acks
        /\ pc \in {"run", "sleep"} /\ completed => aborted

\* How often a provider was asked so far.
SendsInv ==
    pc # "idle" => \A p \in Providers :
        /\ cfg.submitMode = "Single" => sends[p] <= cursor
        /\ cfg.submitMode # "Single" => sends[p] <= 1
        /\ \A i \in 1..Len(cfg.providers) :
             cfg.submitMode = "Fallback" /\ i > cursor /\ p = cfg.providers[i] => sends[p] = 0

\* Modes that run every lane at once never sleep; the parallel loop took out
\* ended lanes, and the failure it keeps has a signature if one of them has.
ParallelInv ==
    /\ ~Sequential => pc \notin {"sleep", "stopped"}
    /\ Lanes = {} => pc \in {"idle", "returned"}
    /\ \A p \in collected : lane[p] = "done" /\ ~Sequential
    /\ Paired(firstFailure) /\ ~firstFailure.success
    /\ cfg.submitMode = "Parallel" /\ pc = "run" =>
         (firstFailure.sig = NoSig => collected \cap acks = {})

\* What executeInternal resolved to: a failure only once every wait is over,
\* and without a signature only if none was acknowledged.
InnerInv ==
    /\ Paired(inner) /\ (inner.success => inner.sig # NoSig)
    /\ pc = "returned" /\ ~inner.success =>
         \A p \in Providers : lane[p] \notin {"sending", "polling"}
    /\ pc = "returned" /\ inner.sig = NoSig => acks = {}

ResultInv ==
    /\ Paired(result) /\ (result.success => result.sig # NoSig)
    /\ ~completed => result = NoResult

IInv == TypeOK /\ ReceiptInv /\ LaneInv /\ IdleInv /\ SeqInv /\ SendsInv
        /\ ParallelInv /\ InnerInv /\ ResultInv

\* A success that was waited for is on the chain.
OnChain(r) ==
    r.success => /\ cfg.waitFor = "finalized" => chain[r.sig] = "finalized"
                 /\ cfg.waitFor = "confirmed" => chain[r.sig] \in {"confirmed", "finalized"}

ChainInv == OnChain(inner) /\ OnChain(result) /\ \A p \in Providers : OnChain(laneRes[p])

Successful == {"Submitted", "Confirmed", "Finalized"}

\* So few lanes succeeded that the whole failed.
FewSuccesses ==
    IF cfg.submitMode = "Redundant" /\ Len(cfg.providers) > 1
    THEN Cardinality(Successes) <= 1 ELSE Successes = {}

\* A lane that succeeded has ended and is not thrown away by a failure.
FailureInv ==
    /\ \A p \in Providers :
          laneRes[p].success => lane[p] = "done" /\ laneRes[p].status \in Successful
    /\ inner.success => inner.status \in Successful
    /\ cfg.submitMode = "Parallel" /\ pc = "run" =>
          \A p \in collected : ~laneRes[p].success
    /\ pc = "returned" /\ ~inner.success => FewSuccesses
    /\ completed /\ result.status = "Failed" => pc = "returned" /\ ~inner.success

\* Who hears of a cancellation: an execution is cancelled or timed out when its status
\* says so, and a lane is cancelled with it or after the loop returned.
WordInv ==
    /\ aborted /\ ~completed => status = "Cancelled"
    /\ ~aborted => status \notin {"Cancelled", "TimedOut"}
    /\ \A p \in Providers : /\ laneAborted[p] => aborted \/ pc = "returned"
                            /\ laneRes[p].status # "TimedOut"
                            /\ laneRes[p].status = "Cancelled" => aborted \/ pc = "returned"
    /\ \A r \in {inner, firstFailure} : r.status # "TimedOut"
                                        /\ (r.status = "Cancelled" => aborted)
    /\ LastReportAgrees

------------------------------------------------------------------------------
USE SigAssumption, ProviderAssumption, OrdersAssumption, RetriesAssumption

\* The orders of priority hold each provider once.
LEMMA OrderFacts ==
    ASSUME TypeOK
    PROVE  /\ Len(cfg.providers) \in Nat
           /\ DOMAIN cfg.providers = 1..Len(cfg.providers)
           /\ \A i \in 1..Len(cfg.providers) : cfg.providers[i] \in Lanes
           /\ Lanes \subseteq Providers
           /\ Lanes # {} => Len(cfg.providers) >= 1
           /\ \A i, j \in 1..Len(cfg.providers) :
                 cfg.providers[i] = cfg.providers[j] => i = j
<1>1. cfg.providers \in Orders /\ cfg.providers \in Seq(Providers)
  BY DEF TypeOK, Configs
<1>2. DOMAIN cfg.providers = 1..Len(cfg.providers) /\ Len(cfg.providers) \in Nat
  BY <1>1
<1>3. QED
  BY <1>1, <1>2 DEF Lanes

\* What the call's configuration and the place in its order determine.
LEMMA FrameFacts ==
    ASSUME UNCHANGED <<cfg, cursor>>
    PROVE  /\ Lanes' = Lanes /\ Current' = Current /\ (Sequential' <=> Sequential)
BY DEF Lanes, Current, Sequential

\* What SeqInv says of the lane in turn: it is one of the call's.
LEMMA CurrentInLanes ==
    ASSUME TypeOK, SeqInv, Sequential, pc # "idle", Lanes # {}
    PROVE  Current \in Lanes /\ Current \in Providers
BY OrderFacts DEF SeqInv, Current, TypeOK, Sequential

\* A status that is recorded or kept, as updateStatus decides, is a status.
LEMMA StatusAfterType ==
    ASSUME TypeOK, NEW s \in Statuses
    PROVE  StatusAfter(status, s) \in Statuses
BY DEF TypeOK, StatusAfter

\* A failure built from the kept receipt is a result with the receipt's own signature and provider.
LEMMA KeepReceiptType ==
    ASSUME TypeOK, ReceiptInv, NEW st \in Statuses
    PROVE  /\ KeepReceipt(st) \in Results
           /\ Paired(KeepReceipt(st)) /\ ~KeepReceipt(st).success
           /\ KeepReceipt(st).sig = receipt.sig
BY DEF TypeOK, KeepReceipt, Results, ReceiptInv, Paired

\* An execution that has not begun satisfies the invariant.
LEMMA InitIInv == Init => IInv
<1> SUFFICES ASSUME Init PROVE IInv
  OBVIOUS
<1>1. TypeOK
  <2>1. NoResult \in Results
    BY DEF NoResult, Results, Statuses
  <2>2. cfg \in Configs /\ pc \in {"idle", "run", "sleep", "returned", "stopped"}
        /\ cursor \in Nat \ {0} /\ inner \in Results /\ result \in Results
        /\ firstFailure \in Results /\ laneRes \in [Providers -> Results]
    BY <2>1 DEF Init
  <2>3. lane \in [Providers -> {"idle", "sending", "polling", "done"}]
        /\ sends \in [Providers -> 0..MaxRetries] /\ laneAborted \in [Providers -> BOOLEAN]
        /\ chain \in [Sigs -> {"unseen", "confirmed", "finalized", "failed"}]
    BY DEF Init, RetriesAssumption
  <2>4. receipt \in [sig : Sigs \cup {NoSig}, provider : Providers \cup {NoProvider}]
        /\ signature \in Sigs \cup {NoSig} /\ acks \subseteq Providers
        /\ collected \subseteq Providers
        /\ aborted \in BOOLEAN /\ completed \in BOOLEAN /\ status \in Statuses
    BY DEF Init, NoReceipt, Statuses
  <2>5. QED
    BY <2>2, <2>3, <2>4 DEF TypeOK
<1>2. ReceiptInv /\ LaneInv /\ IdleInv
  BY DEF Init, ReceiptInv, LaneInv, IdleInv, NoReceipt, Paired
<1>3. SeqInv /\ SendsInv /\ ParallelInv /\ InnerInv /\ ResultInv
  BY DEF Init, SeqInv, SendsInv, ParallelInv, InnerInv, ResultInv, NoResult, Paired
<1>4. QED
  BY <1>1, <1>2, <1>3 DEF IInv

------------------------------------------------------------------------------
(* One lemma per action, or per kind of step. *)

\* Steps that touch only the chain, the abort flags or the status.
LEMMA EnvironmentStep ==
    ASSUME IInv, Cancel \/ (\E s \in Sigs : ChainAdvance(s)) \/ UNCHANGED vars
    PROVE  IInv'
<1>1. UNCHANGED <<cfg, seqVars, laneVars, collected, firstFailure, ackVars, completed, result, sends>>
  BY DEF Cancel, ChainAdvance, vars, parVars
<1>2. (aborted => aborted') /\ (pc = "idle" => aborted' = aborted)
  BY DEF Cancel, ChainAdvance, vars
<1>3. laneAborted' \in [Providers -> BOOLEAN] /\ aborted' \in BOOLEAN /\ status' \in Statuses
  BY StatusAfterType DEF Cancel, ChainAdvance, vars, parVars, IInv, TypeOK, Statuses
<1>4. chain' \in [Sigs -> {"unseen", "confirmed", "finalized", "failed"}]
  <2>1. CASE \E s \in Sigs : ChainAdvance(s)
    <3>1. chain \in [Sigs -> {"unseen", "confirmed", "finalized", "failed"}]
      BY DEF IInv, TypeOK
    <3> QED BY <2>1, <3>1 DEF ChainAdvance
  <2>2. CASE Cancel \/ UNCHANGED vars
    BY <2>2 DEF Cancel, vars, IInv, TypeOK
  <2>3. QED
    BY <2>1, <2>2
<1>5. TypeOK'
  BY <1>1, <1>3, <1>4 DEF IInv, TypeOK, seqVars, laneVars, ackVars
<1>6. ReceiptInv' /\ LaneInv' /\ IdleInv'
  BY <1>1, <1>2 DEF IInv, ReceiptInv, LaneInv, IdleInv, seqVars, laneVars, ackVars, Paired, Lanes
<1>7. SeqInv' /\ SendsInv'
  BY <1>1, <1>2, FrameFacts DEF IInv, SeqInv, SendsInv, seqVars, laneVars, ackVars
<1>8. ParallelInv' /\ InnerInv' /\ ResultInv'
  BY <1>1, FrameFacts DEF IInv, ParallelInv, InnerInv, ResultInv, seqVars, laneVars, ackVars, Paired
<1>9. QED
  BY <1>5, <1>6, <1>7, <1>8 DEF IInv

\* A lane that acknowledged, or is still sending, ends without success.
LEMMA LaneFailsStep ==
    ASSUME IInv, NEW p \in Providers, NEW st \in Statuses,
           lane[p] \in {"sending", "polling"}, LaneFails(p, st)
    PROVE  IInv'
<1> DEFINE failure == LaneFailure(p, st, LaneSig(p))
<1>1. /\ lane' = [lane EXCEPT ![p] = "done"]
      /\ laneRes' = [laneRes EXCEPT ![p] = failure]
      /\ Remember(failure)
      /\ UNCHANGED <<cfg, seqVars, parVars, aborted, status, signature, acks,
                     completed, result, sends, chain>>
  BY DEF LaneFails
<1>2. failure.sig = (IF p \in acks THEN SigOf[p] ELSE NoSig) /\ failure.provider = p
      /\ ~failure.success /\ failure \in Results
  BY SigAssumption DEF LaneFailure, LaneSig, Results, IInv, LaneInv
<1>3. receipt' = receipt
      \/ (p \in acks /\ receipt.sig = SigOf[p] /\ receipt' = [sig |-> SigOf[p], provider |-> p])
  BY <1>1, <1>2 DEF Remember
<1> HIDE DEF failure
<1>4. TypeOK'
  BY <1>1, <1>2, <1>3, SigAssumption DEF IInv, TypeOK, seqVars, parVars
<1>5. ReceiptInv'
  BY <1>1, <1>3 DEF IInv, ReceiptInv, Paired
<1>6. LaneInv' /\ IdleInv'
  <2>1. lane \in [Providers -> {"idle", "sending", "polling", "done"}]
        /\ laneRes \in [Providers -> Results]
    BY DEF IInv, TypeOK
  <2>2. LaneInv'
    BY <1>1, <1>2, <2>1, FrameFacts DEF IInv, LaneInv, seqVars
  <2>3. pc # "idle"
    BY <2>1 DEF IInv, IdleInv
  <2>4. QED
    BY <1>1, <2>2, <2>3 DEF IdleInv, seqVars
<1>7. SeqInv' /\ SendsInv'
  <2>1. lane[p] \notin {"idle", "done"} /\ lane \in [Providers -> {"idle", "sending", "polling", "done"}]
    BY DEF IInv, TypeOK
  <2>2. lane'[p] = "done" /\ \A q \in Providers : q # p => lane'[q] = lane[q]
    BY <1>1, <2>1
  <2>3. SeqInv'
    BY <1>1, <2>1, <2>2, FrameFacts, CurrentInLanes DEF IInv, SeqInv, seqVars
  <2>4. SendsInv'
    BY <1>1 DEF IInv, SendsInv, seqVars
  <2>5. QED
    BY <2>3, <2>4
<1>8. ParallelInv' /\ InnerInv' /\ ResultInv'
  <2>1. lane \in [Providers -> {"idle", "sending", "polling", "done"}] /\ collected \subseteq Providers
    BY DEF IInv, TypeOK
  <2>2. ParallelInv'
    BY <1>1, <2>1, FrameFacts DEF IInv, ParallelInv, Paired, seqVars, parVars
  <2>3. InnerInv' /\ ResultInv'
    BY <1>1, <2>1 DEF IInv, InnerInv, ResultInv, Paired, seqVars
  <2>4. QED
    BY <2>2, <2>3
<1>9. QED
  BY <1>4, <1>5, <1>6, <1>7, <1>8 DEF IInv

\* A lane whose poll finds its signature confirmed keeps the invariant.
LEMMA PollConfirmedStep ==
    ASSUME IInv, NEW p \in Providers, PollConfirmed(p)
    PROVE  IInv'
<1>1. PICK st \in {"Confirmed", "Finalized"} :
        LaneSucceeds(p, st) /\ status' = StatusAfter(StatusAfter(status, "Confirmed"), st)
  BY DEF PollConfirmed
<1>2. /\ lane[p] = "polling" /\ p \in acks
      /\ UNCHANGED <<cfg, seqVars, parVars, aborted, ackVars, completed, result, sends, chain>>
  BY DEF PollConfirmed, IInv, LaneInv
<1> DEFINE r == [success |-> TRUE, status |-> st, sig |-> SigOf[p], provider |-> p]
<1>3. lane' = [lane EXCEPT ![p] = "done"] /\ laneRes' = [laneRes EXCEPT ![p] = r]
  BY <1>1 DEF LaneSucceeds
<1>4. r \in Results /\ r.sig = SigOf[p] /\ r.provider = p /\ r.success
  BY SigAssumption DEF Results, Statuses
<1> HIDE DEF r
<1>5. TypeOK'
  <2>1. status' \in Statuses
    BY <1>1 DEF StatusAfter, IInv, TypeOK, Statuses
  <2>2. QED
    BY <2>1, <1>2, <1>3, <1>4 DEF IInv, TypeOK, seqVars, parVars, ackVars
<1>6. ReceiptInv' /\ LaneInv' /\ IdleInv'
  BY <1>2, <1>3, <1>4 DEF IInv, TypeOK, ReceiptInv, LaneInv, IdleInv, Paired, Lanes, seqVars, ackVars
<1>7. SeqInv' /\ SendsInv'
  <2>1. lane \in [Providers -> {"idle", "sending", "polling", "done"}]
    BY DEF IInv, TypeOK
  <2>2. lane'[p] = "done" /\ \A q \in Providers : q # p => lane'[q] = lane[q]
    BY <1>3, <2>1
  <2>3. SeqInv'
    BY <1>2, <2>2, FrameFacts, CurrentInLanes DEF IInv, SeqInv, seqVars, ackVars
  <2>4. SendsInv'
    BY <1>2 DEF IInv, SendsInv, seqVars
  <2>5. QED
    BY <2>3, <2>4
<1>8. ParallelInv' /\ InnerInv' /\ ResultInv'
  <2>1. lane \in [Providers -> {"idle", "sending", "polling", "done"}] /\ collected \subseteq Providers
    BY DEF IInv, TypeOK
  <2>2. ParallelInv'
    BY <1>2, <1>3, <2>1, FrameFacts DEF IInv, ParallelInv, Paired, seqVars, parVars, ackVars
  <2>3. InnerInv' /\ ResultInv'
    BY <1>2, <1>3, <2>1 DEF IInv, InnerInv, ResultInv, Paired, seqVars, ackVars
  <2>4. QED
    BY <2>2, <2>3
<1>9. QED
  BY <1>5, <1>6, <1>7, <1>8 DEF IInv

\* So does a lane whose provider returns a signature, which may be the first receipt.
LEMMA SendAckedStep ==
    ASSUME IInv, NEW p \in Providers, SendAcked(p)
    PROVE  IInv'
<1>1. /\ lane[p] = "sending" /\ p \notin acks /\ pc # "idle"
      /\ acks' = acks \cup {p}
      /\ signature' = (IF signature = NoSig THEN SigOf[p] ELSE signature)
      /\ receipt' = (IF receipt.sig = NoSig THEN [sig |-> SigOf[p], provider |-> p] ELSE receipt)
      /\ UNCHANGED <<cfg, seqVars, parVars, aborted, completed, result, sends, chain>>
  BY DEF SendAcked, IInv, LaneInv, IdleInv
<1>2. status' \in Statuses
  BY StatusAfterType DEF SendAcked, IInv, Statuses
<1> DEFINE r == [success |-> TRUE, status |-> "Submitted", sig |-> SigOf[p], provider |-> p]
<1>3. r \in Results /\ r.sig = SigOf[p] /\ r.provider = p /\ r.success /\ SigOf[p] # NoSig
  BY SigAssumption DEF Results, Statuses
<1>4. \/ lane' = [lane EXCEPT ![p] = "done"] /\ laneRes' = [laneRes EXCEPT ![p] = r]
      \/ lane' = [lane EXCEPT ![p] = "polling"] /\ UNCHANGED laneRes
  BY DEF SendAcked, LaneSucceeds
<1> HIDE DEF r
<1>5. TypeOK'
  <2>1. SigOf[p] \in Sigs /\ TypeOK
    BY SigAssumption DEF IInv
  <2>2. lane' \in [Providers -> {"idle", "sending", "polling", "done"}]
        /\ laneRes' \in [Providers -> Results]
    <3>1. CASE lane' = [lane EXCEPT ![p] = "done"] /\ laneRes' = [laneRes EXCEPT ![p] = r]
      BY <3>1, <1>3, <2>1 DEF TypeOK
    <3>2. CASE lane' = [lane EXCEPT ![p] = "polling"] /\ UNCHANGED laneRes
      BY <3>2, <2>1 DEF TypeOK
    <3>3. QED
      BY <1>4, <3>1, <3>2
  <2>3. signature' \in Sigs \cup {NoSig} /\ acks' \subseteq Providers
        /\ receipt' \in [sig : Sigs \cup {NoSig}, provider : Providers \cup {NoProvider}]
    BY <1>1, <2>1 DEF TypeOK
  <2>4. QED
    BY <1>1, <1>2, <2>1, <2>2, <2>3 DEF TypeOK, seqVars, parVars
<1>6. ReceiptInv'
  BY <1>1, <1>3 DEF IInv, ReceiptInv, Paired
<1>7. lane \in [Providers -> {"idle", "sending", "polling", "done"}] /\ collected \subseteq Providers
      /\ laneRes \in [Providers -> Results] /\ p \in Lanes
  BY <1>1 DEF IInv, TypeOK, LaneInv
<1>8. lane'[p] \in {"polling", "done"} /\ \A q \in Providers : q # p => lane'[q] = lane[q]
  BY <1>4, <1>7
<1>9. LaneInv' /\ IdleInv'
  <2>1. UNCHANGED <<cfg, cursor>> /\ pc' # "idle"
    BY <1>1 DEF seqVars
  <2>2. LaneInv'
    BY <1>1, <1>3, <1>4, <1>7, <1>8, <2>1, FrameFacts DEF IInv, LaneInv
  <2>3. QED
    BY <2>1, <2>2 DEF IdleInv
<1>10. SeqInv' /\ SendsInv'
  <2>1. SeqInv'
    BY <1>1, <1>7, <1>8, FrameFacts, CurrentInLanes DEF IInv, SeqInv, seqVars
  <2>2. SendsInv'
    BY <1>1 DEF IInv, SendsInv, seqVars
  <2>3. QED
    BY <2>1, <2>2
<1>11. ParallelInv'
  BY <1>1, <1>7, <1>8, FrameFacts DEF IInv, ParallelInv, Paired, seqVars, parVars
<1>12. InnerInv' /\ ResultInv'
  BY <1>1, <1>7, <1>8 DEF IInv, InnerInv, ResultInv, Paired, seqVars
<1>13. QED
  BY <1>5, <1>6, <1>9, <1>10, <1>11, <1>12 DEF IInv

\* The call starts its first lanes, or has none.
LEMMA StartStep ==
    ASSUME IInv, Start
    PROVE  IInv'
<1>1. /\ pc = "idle" /\ cursor = 1 /\ ~aborted /\ ~completed /\ acks = {}
      /\ lane = [p \in Providers |-> "idle"] /\ sends = [p \in Providers |-> 0]
      /\ UNCHANGED <<cfg, cursor, laneRes, parVars, aborted, ackVars, completed,
                     result, chain>>
  BY DEF Start, IInv, IdleInv, LaneInv, TypeOK
<1>2. status' \in Statuses
  BY StatusAfterType DEF Start, IInv, Statuses
<1>3. ReceiptInv' /\ IdleInv' /\ ResultInv'
  BY <1>1 DEF Start, IInv, ReceiptInv, IdleInv, ResultInv, ackVars, Paired
<1>4. CASE Lanes = {}
  <2>1. /\ pc' = "returned" /\ UNCHANGED <<lane, sends>>
        /\ inner' = [NoResult EXCEPT !.status = "Threw"] \/ inner' = KeepReceipt("Failed")
    BY <1>4 DEF Start
  <2>2. inner' \in Results /\ Paired(inner') /\ ~inner'.success
    BY <2>1, KeepReceiptType DEF IInv, NoResult, Results, Statuses, Paired
  <2>3. TypeOK'
    BY <1>1, <1>2, <2>1, <2>2 DEF IInv, TypeOK, parVars, ackVars
  <2>4. LaneInv' /\ InnerInv' /\ SendsInv'
    BY <1>1, <2>1, <2>2, RetriesAssumption DEF LaneInv, InnerInv, SendsInv, Paired, ackVars
  <2>5. SeqInv' /\ ParallelInv'
    BY <1>1, <1>4, <2>1, FrameFacts DEF IInv, SeqInv, ParallelInv, Paired, parVars, ackVars
  <2>6. QED
    BY <1>3, <2>3, <2>4, <2>5 DEF IInv
<1>5. CASE Lanes # {}
  <2> DEFINE first == IF Sequential THEN {Current} ELSE Lanes
  <2>1. pc' = "run" /\ SendTo(first) /\ UNCHANGED inner
    BY <1>5 DEF Start
  <2>2. first \subseteq Lanes /\ Lanes \subseteq Providers /\ (Sequential => first = {Current})
    BY <1>1, <1>5, OrderFacts DEF IInv, Current, Sequential
  <2> HIDE DEF first
  <2>3. /\ lane' = [p \in Providers |-> IF p \in first THEN "sending" ELSE "idle"]
        /\ sends' = [p \in Providers |-> IF p \in first THEN 1 ELSE 0]
    BY <1>1, <2>1 DEF SendTo
  <2>4. TypeOK'
    <3>1. lane' \in [Providers -> {"idle", "sending", "polling", "done"}]
          /\ sends' \in [Providers -> 0..MaxRetries]
      BY <2>3, RetriesAssumption
    <3>2. QED
      BY <1>1, <1>2, <2>1, <3>1 DEF IInv, TypeOK, parVars, ackVars
  <2>5. LaneInv' /\ InnerInv'
    BY <1>1, <2>1, <2>2, <2>3, FrameFacts DEF IInv, LaneInv, InnerInv, Paired, ackVars
  <2>6. SeqInv'
    BY <1>1, <1>5, <2>1, <2>2, <2>3, FrameFacts, OrderFacts, RetriesAssumption
    DEF IInv, SeqInv, ackVars
  <2>7. SendsInv'
    <3>1. CASE cfg.submitMode = "Fallback"
      <4>1. first = {cfg.providers[1]}
        BY <1>1, <2>2, <3>1 DEF Current, Sequential
      <4>2. QED
        BY <1>1, <2>3, <3>1, <4>1, OrderFacts DEF IInv, SendsInv
    <3>2. CASE cfg.submitMode # "Fallback"
      BY <1>1, <2>3, <3>2 DEF SendsInv
    <3>3. QED
      BY <3>1, <3>2
  <2>8. ParallelInv'
    <3>1. collected = {}
      BY <1>1 DEF IInv, TypeOK, ParallelInv
    <3>2. QED
      BY <1>1, <1>5, <2>1, <3>1, FrameFacts DEF IInv, ParallelInv, Paired, parVars, ackVars
  <2>9. QED
    BY <1>3, <2>4, <2>5, <2>6, <2>7, <2>8 DEF IInv
<1>6. QED
  BY <1>4, <1>5

\* After a try nobody acknowledged: the next one, or the end of the loop.
LEMMA NextTryStep ==
    ASSUME IInv, Sequential, pc \in {"run", "sleep"}, lane[Current] = "done", Current \notin acks,
           NextTry,
           UNCHANGED <<cfg, laneRes, parVars, aborted, status, ackVars, completed,
                       result, chain>>
    PROVE  IInv'
<1>1. Lanes # {} /\ Current \in Lanes /\ Current \in Providers
  BY CurrentInLanes DEF IInv, ParallelInv
<1>2. \A p \in Providers : p \in acks => FALSE
  BY <1>1 DEF IInv, SeqInv, LaneInv
<1>3. ReceiptInv' /\ ResultInv' /\ IdleInv'
  BY DEF IInv, ReceiptInv, ResultInv, IdleInv, NextTry, Paired, ackVars
<1>4. CASE UNCHANGED <<cursor, lane, sends>> /\ pc' = "returned"
           /\ \E st \in {"Failed", "Cancelled"} : inner' = KeepReceipt(st)
  <2>1. inner' \in Results /\ Paired(inner') /\ ~inner'.success
    BY <1>4, KeepReceiptType DEF IInv, Statuses
  <2>2. TypeOK'
    BY <1>4, <2>1 DEF IInv, TypeOK, parVars, ackVars
  <2>3. LaneInv' /\ SeqInv' /\ SendsInv'
    BY <1>4, FrameFacts DEF IInv, LaneInv, SeqInv, SendsInv, ackVars
  <2>4. ParallelInv'
    BY <1>1, <1>4, FrameFacts DEF IInv, ParallelInv, Paired, parVars, ackVars
  <2>5. InnerInv'
    <3>1. \A p \in Providers : lane[p] \notin {"sending", "polling"}
      BY <1>1 DEF IInv, SeqInv
    <3>2. acks' = {}
      BY <1>2 DEF ackVars, IInv, TypeOK
    <3>3. QED
      BY <1>4, <2>1, <3>1, <3>2 DEF InnerInv, Paired, ackVars
  <2>6. QED
    BY <1>3, <2>2, <2>3, <2>4, <2>5 DEF IInv
<1>5. CASE /\ ~LastTry /\ ~aborted /\ cursor' = cursor + 1 /\ pc' = "run" /\ UNCHANGED inner
           /\ SendTo({IF cfg.submitMode = "Single" THEN cfg.providers[1]
                                                   ELSE cfg.providers[cursor + 1]})
  <2> DEFINE next == IF cfg.submitMode = "Single" THEN cfg.providers[1]
                                                  ELSE cfg.providers[cursor + 1]
             limit == IF cfg.submitMode = "Single" THEN MaxRetries ELSE Len(cfg.providers)
  <2>1. cursor \in Nat \ {0} /\ limit \in Nat /\ cursor + 1 <= limit
    BY <1>1, <1>5, OrderFacts, RetriesAssumption DEF IInv, TypeOK, SeqInv, LastTry
  <2>2. next = Current' /\ next \in Lanes /\ Lanes' = Lanes /\ (Sequential' <=> Sequential)
    BY <1>1, <1>5, <2>1, OrderFacts DEF IInv, Current, Lanes, Sequential
  <2>3. next \in Providers
    BY <2>2, OrderFacts DEF IInv
  <2>4. /\ lane' = [p \in Providers |-> IF p = next THEN "sending" ELSE lane[p]]
        /\ sends' = [p \in Providers |-> IF p = next THEN sends[p] + 1 ELSE sends[p]]
    BY <1>5 DEF SendTo
  <2>5. SendsInv'
    <3>1. CASE cfg.submitMode = "Single"
      BY <1>5, <2>1, <2>4, <3>1 DEF IInv, TypeOK, SendsInv
    <3>2. CASE cfg.submitMode = "Fallback"
      <4>1. cursor + 1 \in 1..Len(cfg.providers) /\ next = cfg.providers[cursor + 1]
        BY <2>1, <3>2, OrderFacts DEF IInv
      <4>2. sends[next] = 0
        BY <2>1, <2>3, <3>2, <4>1 DEF IInv, SendsInv
      <4>3. \A i \in 1..Len(cfg.providers) : i > cursor + 1 => cfg.providers[i] # next
        BY <2>1, <4>1, OrderFacts DEF IInv
      <4>4. \A p \in Providers : sends'[p] <= 1 /\ \A i \in 1..Len(cfg.providers) :
                  i > cursor + 1 /\ p = cfg.providers[i] => sends'[p] = 0
        BY <2>1, <2>4, <3>2, <4>2, <4>3 DEF IInv, TypeOK, SendsInv
      <4>5. QED
        BY <1>5, <3>2, <4>4 DEF SendsInv
    <3>3. QED
      BY <3>1, <3>2 DEF Sequential
  <2>6. sends' \in [Providers -> 0..MaxRetries]
    <3>1. \A p \in Providers : sends'[p] \in Nat /\ sends'[p] <= MaxRetries
      BY <1>5, <2>1, <2>4, <2>5, RetriesAssumption DEF IInv, TypeOK, SendsInv, Sequential
    <3>2. QED
      BY <2>4, <3>1, RetriesAssumption
  <2>7. TypeOK'
    <3>1. lane' \in [Providers -> {"idle", "sending", "polling", "done"}]
      BY <2>4 DEF IInv, TypeOK
    <3>2. cursor' \in Nat \ {0}
      BY <1>5, <2>1
    <3>3. QED
      BY <1>5, <2>6, <3>1, <3>2 DEF IInv, TypeOK, parVars, ackVars
  <2> HIDE DEF next, limit
  <2>8. LaneInv'
    BY <1>2, <2>2, <2>4 DEF IInv, LaneInv, ackVars
  <2>9. SeqInv'
    <3>1. cursor' <= limit'
      BY <1>5, <2>1 DEF limit
    <3>2. \A p \in Providers : p # next /\ lane[p] # "idle" => lane[p] = "done"
      BY <1>1 DEF IInv, SeqInv
    <3>3. QED
      BY <1>2, <1>5, <2>2, <2>3, <2>4, <3>1, <3>2 DEF IInv, SeqInv, limit, ackVars
  <2>10. ParallelInv'
    BY <1>1, <1>5, <2>2 DEF IInv, ParallelInv, Paired, Sequential, parVars, ackVars
  <2>11. InnerInv'
    BY <1>5 DEF IInv, InnerInv, Paired, ackVars
  <2>12. QED
    BY <1>3, <2>5, <2>7, <2>8, <2>9, <2>10, <2>11 DEF IInv
<1>6. QED
  BY <1>4, <1>5 DEF NextTry

\* The loop ends, or goes to sleep.
LEMMA SeqCollectStep ==
    ASSUME IInv, SeqCollect
    PROVE  IInv'
<1>1. /\ Sequential /\ pc = "run" /\ lane[Current] = "done"
      /\ UNCHANGED <<cfg, laneRes, parVars, aborted, status, ackVars, completed,
                     result, chain>>
  BY DEF SeqCollect
<1>2. Lanes # {} /\ Current \in Lanes /\ Current \in Providers
  BY <1>1, CurrentInLanes DEF IInv, ParallelInv
<1>3. laneRes[Current] \in Results
  BY <1>2 DEF IInv, TypeOK
<1>4. CASE Settled(laneRes[Current])
  <2>1. inner' = laneRes[Current] /\ pc' = "returned" /\ UNCHANGED <<cursor, lane, sends>>
    BY <1>4 DEF SeqCollect
  <2>2. Current \in acks /\ inner'.sig = SigOf[Current] /\ inner'.provider = Current
        /\ inner'.sig # NoSig
    BY <1>1, <1>2, <1>4, <2>1, SigAssumption DEF IInv, LaneInv, Settled
  <2>3. TypeOK'
    BY <1>1, <1>3, <2>1 DEF IInv, TypeOK, parVars, ackVars
  <2>4. ReceiptInv' /\ LaneInv' /\ IdleInv' /\ ResultInv' /\ SendsInv'
    BY <1>1, <2>1, FrameFacts DEF IInv, ReceiptInv, LaneInv, IdleInv, ResultInv, SendsInv, Paired, ackVars
  <2>5. SeqInv'
    BY <1>1, <2>1, FrameFacts DEF IInv, SeqInv, ackVars
  <2>6. ParallelInv'
    BY <1>1, <1>2, <2>1, FrameFacts DEF IInv, ParallelInv, Paired, parVars, ackVars
  <2>7. InnerInv'
    BY <1>1, <1>2, <2>1, <2>2 DEF IInv, SeqInv, InnerInv, Paired, ackVars
  <2>8. QED
    BY <2>3, <2>4, <2>5, <2>6, <2>7 DEF IInv
<1>5. CASE ~Settled(laneRes[Current])
  <2>1. Current \notin acks
    BY <1>1, <1>2, <1>5, SigAssumption DEF IInv, LaneInv, Settled
  <2>2. CASE pc' \in {"stopped", "sleep"} /\ (pc' = "stopped" => aborted)
             /\ UNCHANGED <<cursor, inner, lane, sends>>
    <3>1. TypeOK'
      BY <1>1, <2>2 DEF IInv, TypeOK, parVars, ackVars
    <3>2. ReceiptInv' /\ LaneInv' /\ IdleInv' /\ ResultInv' /\ SendsInv' /\ InnerInv'
      BY <1>1, <2>2, FrameFacts
      DEF IInv, ReceiptInv, LaneInv, IdleInv, ResultInv, SendsInv, InnerInv, Paired, ackVars
    <3>3. SeqInv'
      BY <1>1, <2>1, <2>2, FrameFacts DEF IInv, SeqInv, ackVars
    <3>4. ParallelInv'
      BY <1>1, <1>2, <2>2, FrameFacts DEF IInv, ParallelInv, Paired, parVars, ackVars
    <3>5. QED
      BY <3>1, <3>2, <3>3, <3>4 DEF IInv
  <2>3. CASE NextTry
    BY <1>1, <2>1, <2>3, NextTryStep
  <2>4. QED
    BY <1>5, <2>2, <2>3 DEF SeqCollect
<1>6. QED
  BY <1>4, <1>5

\* So does the end of the retry delay, by its timer or by an abort.
LEMMA SleepStep ==
    ASSUME IInv, SleepDone \/ SleepAborted
    PROVE  IInv'
<1>1. pc = "sleep" /\ Sequential /\ Lanes # {} /\ lane[Current] = "done" /\ Current \notin acks
  BY DEF SleepDone, SleepAborted, IInv, ParallelInv, SeqInv
<1>2. CASE SleepDone
  BY <1>1, <1>2, NextTryStep DEF SleepDone
<1>3. CASE SleepAborted
  <2>1. /\ pc' = "stopped"
        /\ UNCHANGED <<cfg, cursor, inner, laneVars, parVars, aborted, status, ackVars,
                       completed, result, sends, chain>>
    BY <1>3 DEF SleepAborted
  <2>2. TypeOK'
    BY <2>1 DEF IInv, TypeOK, laneVars, parVars, ackVars
  <2>3. ReceiptInv' /\ LaneInv' /\ IdleInv' /\ ResultInv' /\ SendsInv' /\ InnerInv'
    BY <1>1, <2>1, FrameFacts
    DEF IInv, ReceiptInv, LaneInv, IdleInv, ResultInv, SendsInv, InnerInv, Paired, laneVars, ackVars
  <2>4. SeqInv' /\ ParallelInv'
    BY <1>1, <2>1, FrameFacts DEF IInv, SeqInv, ParallelInv, Paired, laneVars, parVars, ackVars
  <2>5. QED
    BY <2>2, <2>3, <2>4 DEF IInv
<1>4. QED
  BY <1>2, <1>3

\* The parallel loop takes out an ended lane.
LEMMA ParallelCollectStep ==
    ASSUME IInv, NEW p \in Providers, ParallelCollect(p)
    PROVE  IInv'
<1> DEFINE r == laneRes[p]
<1>1. /\ cfg.submitMode = "Parallel" /\ ~Sequential /\ pc = "run" /\ p \in Lanes \ collected
      /\ lane[p] = "done" /\ collected' = collected \cup {p}
      /\ UNCHANGED <<cfg, cursor, laneVars, aborted, status, ackVars, completed, result,
                     sends, chain>>
  BY DEF ParallelCollect, Sequential
<1>2. /\ r \in Results /\ Paired(r) /\ (r.success => r.sig # NoSig)
      /\ (r.sig = NoSig => p \notin acks)
  BY <1>1, SigAssumption DEF IInv, TypeOK, LaneInv, Paired
<1>3. KeepFailure(r) \in {r, firstFailure}
      /\ (KeepFailure(r).sig = NoSig => firstFailure.sig = NoSig /\ r.sig = NoSig)
  BY DEF KeepFailure, NoResult
<1>4. \/ r.success /\ inner' = r /\ pc' = "returned" /\ UNCHANGED firstFailure
         /\ laneAborted' = [q \in Providers |-> laneAborted[q] \/ (cfg.abortOnSuccess /\ q # p)]
      \/ ~r.success /\ firstFailure' = KeepFailure(r) /\ inner' = KeepFailure(r)
         /\ pc' = "returned" /\ collected' = Lanes /\ UNCHANGED laneAborted
      \/ ~r.success /\ firstFailure' = KeepFailure(r) /\ UNCHANGED <<inner, pc, laneAborted>>
  BY DEF ParallelCollect
<1> HIDE DEF r
<1>5. TypeOK'
  <2>1. laneAborted' \in [Providers -> BOOLEAN]
    <3>1. laneAborted \in [Providers -> BOOLEAN]
      BY DEF IInv, TypeOK
    <3>2. [q \in Providers |-> laneAborted[q] \/ (cfg.abortOnSuccess /\ q # p)]
             \in [Providers -> BOOLEAN]
      BY <3>1, Zenon
    <3>3. QED
      BY <1>4, <3>1, <3>2
  <2>2. inner' \in Results /\ firstFailure' \in Results /\ pc' \in {"run", "returned"}
    BY <1>1, <1>2, <1>3, <1>4 DEF IInv, TypeOK
  <2>3. QED
    BY <1>1, <2>1, <2>2 DEF IInv, TypeOK, laneVars, ackVars
<1>6. ReceiptInv' /\ LaneInv' /\ IdleInv' /\ ResultInv'
  BY <1>1, <1>4, FrameFacts DEF IInv, ReceiptInv, LaneInv, IdleInv, ResultInv, Paired, laneVars, ackVars
<1>7. SeqInv' /\ SendsInv'
  BY <1>1, <1>4, FrameFacts DEF IInv, SeqInv, SendsInv
<1>8. ParallelInv'
  BY <1>1, <1>2, <1>3, <1>4, FrameFacts DEF IInv, ParallelInv, Paired, laneVars, ackVars
<1>9. InnerInv'
  <2>1. CASE pc' = "returned" /\ ~r.success
    <3>1. inner' = KeepFailure(r) /\ collected' = Lanes /\ collected' = collected \cup {p}
      BY <1>1, <1>4, <2>1
    <3>2. Paired(inner') /\ ~inner'.success
      BY <1>2, <1>3, <2>1, <3>1 DEF IInv, ParallelInv
    <3>3. \A q \in Lanes : lane[q] = "done"
      BY <1>1, <3>1 DEF IInv, ParallelInv
    <3>4. \A q \in Providers : lane[q] \in {"idle", "done"}
      BY <3>3 DEF IInv, LaneInv, TypeOK
    <3>5. inner'.sig = NoSig => acks = {}
      <4>1. acks \subseteq Lanes
        BY <3>3 DEF IInv, LaneInv, TypeOK
      <4>2. QED
        BY <1>1, <1>2, <1>3, <3>1, <4>1 DEF IInv, ParallelInv
    <3>6. QED
      BY <1>1, <3>2, <3>4, <3>5 DEF InnerInv, Paired, laneVars, ackVars
  <2>2. CASE pc' = "returned" /\ r.success
    BY <1>1, <1>2, <1>4, <2>2 DEF InnerInv, Paired, laneVars, ackVars
  <2>3. CASE pc' # "returned"
    BY <1>1, <1>4, <2>3 DEF IInv, InnerInv, Paired, ackVars
  <2>4. QED
    BY <2>1, <2>2, <2>3
<1>10. QED
  BY <1>5, <1>6, <1>7, <1>8, <1>9 DEF IInv

\* Redundant mode counts its successes.
LEMMA RedundantCollectStep ==
    ASSUME IInv, RedundantCollect
    PROVE  IInv'
<1>1. /\ cfg.submitMode = "Redundant" /\ ~Sequential /\ pc = "run" /\ pc' = "returned"
      /\ \A p \in Lanes : lane[p] = "done"
      /\ UNCHANGED <<cfg, cursor, laneVars, parVars, aborted, status, ackVars, completed,
                     result, sends, chain>>
  BY DEF RedundantCollect, Sequential
<1>2. /\ inner' \in Results /\ Paired(inner') /\ (inner'.success => inner'.sig # NoSig)
      /\ (inner'.sig = NoSig => acks = {})
  <2>1. CASE inner' = KeepReceipt("Failed")
    BY <2>1, KeepReceiptType DEF IInv, ReceiptInv, Statuses
  <2>2. CASE \E i \in Successes : inner' = laneRes[cfg.providers[i]]
    <3>1. PICK i \in Successes : inner' = laneRes[cfg.providers[i]]
      BY <2>2
    <3> DEFINE p == cfg.providers[i]
    <3>2. p \in Lanes /\ p \in Providers /\ laneRes[p].success
      BY <3>1, OrderFacts DEF IInv, Successes
    <3> HIDE DEF p
    <3>3. p \in acks /\ laneRes[p].sig = SigOf[p] /\ laneRes[p].provider = p /\ SigOf[p] # NoSig
      BY <1>1, <3>2, SigAssumption DEF IInv, LaneInv
    <3>4. QED
      BY <3>1, <3>2, <3>3 DEF IInv, TypeOK, Paired, p
  <2>3. QED
    BY <2>1, <2>2 DEF RedundantCollect
<1>3. TypeOK'
  BY <1>1, <1>2 DEF IInv, TypeOK, laneVars, parVars, ackVars
<1>4. ReceiptInv' /\ LaneInv' /\ IdleInv' /\ ResultInv'
  BY <1>1, FrameFacts DEF IInv, ReceiptInv, LaneInv, IdleInv, ResultInv, Paired, laneVars, ackVars
<1>5. SeqInv' /\ SendsInv' /\ ParallelInv'
  BY <1>1, FrameFacts DEF IInv, SeqInv, SendsInv, ParallelInv, Paired, laneVars, parVars, ackVars
<1>6. InnerInv'
  <2>1. \A p \in Providers : lane[p] \in {"idle", "done"}
    BY <1>1 DEF IInv, LaneInv, TypeOK
  <2>2. QED
    BY <1>1, <1>2, <2>1 DEF InnerInv, Paired, laneVars, ackVars
<1>7. QED
  BY <1>2, <1>3, <1>4, <1>5, <1>6 DEF IInv

\* The call is answered: by executeInternal, the deadline or the abort signal.
LEMMA AnswerStep ==
    ASSUME IInv, Return \/ Timeout \/ AbortReturn
    PROVE  IInv'
<1>1. /\ UNCHANGED <<cfg, seqVars, laneVars, collected, firstFailure, ackVars, sends, chain>>
      /\ completed' = TRUE /\ pc # "idle"
      /\ (aborted => aborted') /\ (pc # "returned" => aborted')
  BY DEF Return, Timeout, AbortReturn, Finish, parVars, IInv, IdleInv
<1>2. result' \in Results /\ Paired(result') /\ (result'.success => result'.sig # NoSig)
  <2>1. CASE Return
    BY <2>1 DEF Return, Finish, IInv, TypeOK, InnerInv
  <2>2. CASE Timeout \/ AbortReturn
    BY <2>2, KeepReceiptType DEF Timeout, AbortReturn, Finish, IInv, Statuses
  <2>3. QED
    BY <2>1, <2>2
<1>3. laneAborted' \in [Providers -> BOOLEAN] /\ aborted' \in BOOLEAN /\ status' \in Statuses
  BY StatusAfterType DEF Return, Timeout, AbortReturn, parVars, IInv, TypeOK, Statuses
<1>4. TypeOK'
  BY <1>1, <1>2, <1>3 DEF IInv, TypeOK, seqVars, laneVars, ackVars
<1>5. ReceiptInv' /\ LaneInv' /\ IdleInv' /\ ResultInv'
  BY <1>1, <1>2, FrameFacts
  DEF IInv, ReceiptInv, LaneInv, IdleInv, ResultInv, Paired, seqVars, laneVars, ackVars
<1>6. SeqInv' /\ SendsInv'
  BY <1>1, FrameFacts DEF IInv, SeqInv, SendsInv, seqVars, laneVars, ackVars
<1>7. ParallelInv' /\ InnerInv'
  BY <1>1, FrameFacts DEF IInv, ParallelInv, InnerInv, Paired, seqVars, laneVars, ackVars
<1>8. QED
  BY <1>4, <1>5, <1>6, <1>7 DEF IInv

\* Every step of an execution keeps the invariant.
LEMMA NextIInv == IInv /\ [Next]_vars => IInv'
<1> SUFFICES ASSUME IInv, [Next]_vars PROVE IInv'
  OBVIOUS
<1>1. CASE Start
  BY <1>1, StartStep
<1>2. CASE Cancel \/ (\E s \in Sigs : ChainAdvance(s)) \/ UNCHANGED vars
  BY <1>2, EnvironmentStep
<1>3. CASE \E p \in Providers : SendAcked(p)
  BY <1>3, SendAckedStep
<1>4. CASE \E p \in Providers : SendRejected(p) \/ SendDeadline(p) \/ LaneAbort(p)
                                \/ PollError(p) \/ PollExpired(p)
  BY <1>4, LaneFailsStep DEF SendRejected, SendDeadline, LaneAbort, PollError, PollExpired, Statuses
<1>5. CASE \E p \in Providers : PollConfirmed(p)
  BY <1>5, PollConfirmedStep
<1>6. CASE \E p \in Providers : ParallelCollect(p)
  BY <1>6, ParallelCollectStep
<1>7. CASE SeqCollect
  BY <1>7, SeqCollectStep
<1>8. CASE SleepDone \/ SleepAborted
  BY <1>8, SleepStep
<1>9. CASE RedundantCollect
  BY <1>9, RedundantCollectStep
<1>10. CASE Return \/ Timeout \/ AbortReturn
  BY <1>10, AnswerStep
<1>11. QED
  BY <1>1, <1>2, <1>3, <1>4, <1>5, <1>6, <1>7, <1>8, <1>9, <1>10 DEF Next

\* The inductive invariant holds throughout every execution.
THEOREM Invariance == Spec => []IInv
BY InitIInv, NextIInv, PTL DEF Spec

\* Types, and no provider is asked more than MaxRetries times.
THEOREM TypeCorrect == Spec => []TypeOK
<1>1. IInv => TypeOK
  BY DEF IInv
<1>2. QED
  BY <1>1, Invariance, PTL

\* The caller's signature was returned by the provider named with it.
THEOREM ReceiptsPaired == Spec => []ReceiptPaired
<1>1. IInv => ReceiptPaired
  BY DEF IInv, ResultInv, ReceiptPaired
<1>2. QED
  BY <1>1, Invariance, PTL

------------------------------------------------------------------------------
(* What a step may never do. *)

\* The next try of a loop comes only while nobody acknowledged, and while the
\* call is neither aborted nor answered.
LEMMA SendsStep ==
    ASSUME IInv, [Next]_vars, NEW p \in Providers, sends'[p] > sends[p]
    PROVE  ~aborted /\ ~completed /\ (Sequential => acks = {})
<1>1. sends' # sends
  BY DEF IInv, TypeOK
<1>2. CASE Start
  <2>1. pc = "idle"
    BY <1>2 DEF Start
  <2>2. QED
    BY <2>1 DEF IInv, IdleInv, LaneInv, TypeOK
<1>3. CASE NextTry /\ Sequential /\ lane[Current] = "done" /\ Current \notin acks
           /\ pc \in {"run", "sleep"}
  <2>1. ~aborted
    BY <1>1, <1>3 DEF NextTry
  <2>2. Lanes # {} /\ Current \in Providers
    BY <1>3, CurrentInLanes DEF IInv, ParallelInv
  <2>3. acks = {}
    BY <1>3, <2>2 DEF IInv, SeqInv, LaneInv, TypeOK
  <2>4. QED
    BY <1>3, <2>1, <2>2, <2>3 DEF IInv, SeqInv
<1>4. CASE SeqCollect
  <2>1. NextTry /\ Sequential /\ pc = "run" /\ lane[Current] = "done" /\ ~Settled(laneRes[Current])
    BY <1>1, <1>4 DEF SeqCollect
  <2>2. Current \in Providers
    BY <2>1, CurrentInLanes DEF IInv, ParallelInv
  <2>3. Current \notin acks
    BY <2>1, <2>2, SigAssumption DEF IInv, LaneInv, Settled
  <2>4. QED
    BY <2>1, <2>3, <1>3
<1>5. CASE SleepDone
  <2>1. NextTry /\ pc = "sleep"
    BY <1>5 DEF SleepDone
  <2>2. Sequential /\ Lanes # {}
    BY <2>1 DEF IInv, ParallelInv
  <2>3. lane[Current] = "done" /\ Current \notin acks
    BY <2>1, <2>2 DEF IInv, SeqInv
  <2>4. QED
    BY <2>1, <2>2, <2>3, <1>3
<1>6. QED
  BY <1>1, <1>2, <1>4, <1>5
  DEF Next, vars, Cancel, SendAcked, SendRejected, SendDeadline, LaneAbort, LaneFails, PollConfirmed,
      PollError, PollExpired, ParallelCollect, SleepAborted, RedundantCollect, Return, Timeout,
      AbortReturn, ChainAdvance

\* No retry, fallback or late step sends again what was taken or answered.
THEOREM NeverResubmits == Spec => NoResubmission
<1>1. IInv /\ [Next]_vars =>
        [\A p \in Providers : sends'[p] > sends[p] =>
            ~aborted /\ ~completed /\ (Sequential => acks = {})]_vars
  BY SendsStep
<1>2. QED
  BY <1>1, Invariance, PTL DEF Spec, NoResubmission

\* Once the caller is answered, the answer and the last reported status stand.
THEOREM AnswerStands == Spec => SilentOnceAnswered
<1>1. ASSUME IInv, [Next]_vars, completed
      PROVE  UNCHANGED <<status, result, completed>>
  <2>1. pc # "idle"
    BY <1>1 DEF IInv, IdleInv
  <2>2. \A s, t \in Statuses : StatusAfter(status, s) = status
    BY <1>1 DEF StatusAfter
  <2>3. status \in Statuses /\ "Submitted" \in Statuses /\ "Confirmed" \in Statuses
        /\ "Finalized" \in Statuses
    BY <1>1 DEF IInv, TypeOK, Statuses
  <2>4. CASE \E p \in Providers : PollConfirmed(p)
    <3>1. PICK p \in Providers : PollConfirmed(p)
      BY <2>4
    <3>2. \A s, t \in Statuses : StatusAfter(StatusAfter(status, s), t) = status
      BY <1>1 DEF StatusAfter
    <3>3. status' = status
      BY <2>3, <3>1, <3>2 DEF PollConfirmed
    <3>4. QED
      BY <3>1, <3>3 DEF PollConfirmed
  <2>5. CASE \E p \in Providers : SendAcked(p)
    BY <1>1, <2>2, <2>3, <2>5 DEF SendAcked
  <2>6. QED
    BY <1>1, <2>1, <2>4, <2>5
    DEF Next, vars, ackVars, laneVars, seqVars, parVars, Start, Cancel, SendRejected, SendDeadline,
        LaneAbort, LaneFails, PollError, PollExpired, ParallelCollect, SeqCollect, SleepDone,
        SleepAborted, RedundantCollect, Return, Timeout, AbortReturn, ChainAdvance
<1>2. IInv /\ [Next]_vars => [completed => UNCHANGED <<status, result, completed>>]_vars
  BY <1>1
<1>3. QED
  BY <1>2, Invariance, PTL DEF Spec, SilentOnceAnswered

------------------------------------------------------------------------------
(* Refinement *)

\* An execution that has not begun has received no acknowledgement and given no answer.
LEMMA ContractInit == Init => Contract!Init
<1> SUFFICES ASSUME Init PROVE Contract!Init
  OBVIOUS
<1>1. acks = {} /\ result = NoResult /\ completed = FALSE
  BY DEF Init
<1>2. {SigOf[p] : p \in acks} = {}
  BY <1>1
<1>3. QED
  BY <1>1, <1>2 DEF Contract!Init, Contract!Open, NoResult

\* Every step is an acknowledgement, an answer, or nothing the contract sees.
LEMMA ContractStep == IInv /\ IInv' /\ [Next]_vars => [Contract!Next]_(Contract!vars)
<1> SUFFICES ASSUME IInv, IInv', [Next]_vars PROVE [Contract!Next]_(Contract!vars)
  OBVIOUS
<1>1. CASE UNCHANGED <<acks, result, completed>>
  BY <1>1 DEF Contract!vars
<1>2. CASE \E p \in Providers : SendAcked(p)
  <2>1. PICK p \in Providers : SendAcked(p)
    BY <1>2
  <2>2. UNCHANGED <<result, completed>> /\ acks' = acks \cup {p} /\ SigOf[p] \in Sigs
    BY <2>1, SigAssumption DEF SendAcked
  <2>3. {SigOf[q] : q \in acks'} = {SigOf[q] : q \in acks} \cup {SigOf[p]}
    BY <2>2
  <2>4. Contract!Acknowledge(SigOf[p])
    BY <2>2, <2>3 DEF Contract!Acknowledge
  <2>5. QED
    BY <2>2, <2>4 DEF Contract!Next
<1>3. CASE Return \/ Timeout \/ AbortReturn
  <2>1. ~completed /\ completed' /\ UNCHANGED acks /\ result' \in Results /\ Paired(result)'
        /\ (result'.success => result'.sig # NoSig)
    BY <1>3 DEF Return, Timeout, AbortReturn, Finish, ackVars, IInv, TypeOK, ResultInv
  <2>2. result'.sig = NoSig => acks = {}
    <3>1. CASE Return
      BY <3>1 DEF Return, Finish, IInv, InnerInv
    <3>2. CASE Timeout \/ AbortReturn
      BY <3>2, KeepReceiptType DEF Timeout, AbortReturn, Finish, IInv, ReceiptInv, Statuses
    <3>3. QED
      BY <1>3, <3>1, <3>2
  <2>3. result'.sig # NoSig => result'.sig \in {SigOf[p] : p \in acks} /\ result'.sig \in Sigs
    BY <2>1 DEF Paired, Results
  <2>4. CASE result'.success
    <3>1. Contract!Succeed(result'.sig)
      BY <2>1, <2>3, <2>4 DEF Contract!Succeed
    <3>2. QED
      BY <2>1, <2>3, <2>4, <3>1 DEF Contract!Next
  <2>5. CASE ~result'.success
    <3>1. result'.success = FALSE
      BY <2>1, <2>5 DEF Results
    <3>2. Contract!Fail(result'.sig)
      BY <2>1, <2>2, <2>3, <3>1 DEF Contract!Fail
    <3>3. QED
      BY <2>1, <3>2 DEF Contract!Next, Results
  <2>6. QED
    BY <2>4, <2>5
<1>4. QED
  BY <1>1, <1>2, <1>3
  DEF Next, vars, ackVars, laneVars, seqVars, parVars, Start, Cancel, SendRejected, SendDeadline,
      LaneAbort, LaneFails, PollConfirmed, PollError, PollExpired, ParallelCollect, SeqCollect,
      SleepDone, SleepAborted, RedundantCollect, ChainAdvance

\* An execution that was acknowledged sends nothing any more, and one that was answered
\* is silent, for every set of providers, order and retry bound.
THEOREM AnsweredIsOver == Spec => NothingAfterAnswer
BY NeverResubmits, AnswerStands DEF NothingAfterAnswer

\* execute() implements ReceiptContract, with any providers and signatures.
THEOREM ImplementsContract == Spec => KeepsReceipts
BY Invariance, ContractInit, ContractStep, PTL DEF Spec, KeepsReceipts, Contract!Spec

------------------------------------------------------------------------------
(* The answer *)

\* What the state's types say of the lanes' answers.
LEMMA ResultTypes ==
    ASSUME IInv
    PROVE  /\ laneRes \in [Providers -> Results] /\ lane \in [Providers -> {"idle", "sending", "polling", "done"}]
           /\ collected \subseteq Providers /\ laneAborted \in [Providers -> BOOLEAN]
           /\ inner.success \in BOOLEAN /\ result.success \in BOOLEAN
           /\ \A p \in Providers : laneRes[p].success \in BOOLEAN
BY DEF IInv, TypeOK, Results

\* No lane succeeded, so that few did.
LEMMA NoneSucceeded ==
    ASSUME IInv, \A p \in Providers : ~laneRes[p].success PROVE FewSuccesses /\ Successes = {}
<1>1. Successes = {}
  <2>1. \A i \in DOMAIN cfg.providers : cfg.providers[i] \in Providers
    BY OrderFacts DEF IInv
  <2> QED BY <2>1 DEF Successes
<1>2. Cardinality({}) = 0
  BY FS_EmptySet
<1> QED BY <1>1, <1>2 DEF FewSuccesses

\* A loop over one lane at a time that collects a lane without success has none.
LEMMA SequentialFailed ==
    ASSUME IInv, FailureInv, Sequential, pc \in {"run", "sleep"}, lane[Current] = "done",
           ~laneRes[Current].success
    PROVE  \A p \in Providers : ~laneRes[p].success
<1> SUFFICES ASSUME NEW p \in Providers, laneRes[p].success PROVE FALSE
  OBVIOUS
<1>1. Lanes # {}
  BY DEF IInv, ParallelInv
<1>2. p # Current
  OBVIOUS
<1>3. lane[p] = "done"
  BY DEF FailureInv
<1>4. p \in acks
  BY <1>3 DEF IInv, LaneInv
<1> QED BY <1>1, <1>2, <1>3, <1>4 DEF IInv, SeqInv

\* A step that settles no lane and returns nothing leaves FailureInv.
LEMMA QuietFailure ==
    ASSUME IInv, FailureInv, UNCHANGED <<cfg, laneRes, collected, inner, completed, result>>,
           pc' = pc \/ (pc # "returned" /\ pc' \notin {"run", "returned"}),
           \A p \in Providers : laneRes[p].success => lane'[p] = lane[p]
    PROVE  FailureInv'
<1>1. FewSuccesses' = FewSuccesses
  BY DEF FewSuccesses, Successes
<1>2. \A p \in Providers :
          laneRes'[p].success => lane'[p] = "done" /\ laneRes'[p].status \in Successful
  BY DEF FailureInv
<1>3. inner'.success => inner'.status \in Successful
  BY DEF FailureInv
<1>4. cfg'.submitMode = "Parallel" /\ pc' = "run" => \A p \in collected' : ~laneRes'[p].success
  BY DEF FailureInv
<1>5. pc' = "returned" /\ ~inner'.success => FewSuccesses'
  BY <1>1 DEF FailureInv
<1>6. completed' /\ result'.status = "Failed" => pc' = "returned" /\ ~inner'.success
  BY DEF FailureInv
<1> QED BY <1>2, <1>3, <1>4, <1>5, <1>6 DEF FailureInv

\* Nor does the end of a lane that was under way.
LEMMA LaneEndsFailure ==
    ASSUME IInv, FailureInv, UNCHANGED <<cfg, pc, collected, inner, completed, result>>,
           NEW p \in Providers, lane[p] \in {"sending", "polling"},
           NEW place \in {"polling", "done"}, lane' = [lane EXCEPT ![p] = place],
           \A q \in Providers \ {p} : laneRes'[q] = laneRes[q],
           laneRes'[p].success => place = "done" /\ laneRes'[p].status \in Successful
    PROVE  FailureInv'
<1>1. p \notin collected
  BY DEF IInv, ParallelInv
<1>2. ~(pc = "returned" /\ ~inner.success)
  BY DEF IInv, InnerInv
<1>3. \A q \in Providers :
          laneRes'[q].success => lane'[q] = "done" /\ laneRes'[q].status \in Successful
  BY ResultTypes DEF FailureInv
<1>4. inner'.success => inner'.status \in Successful
  BY DEF FailureInv
<1>5. cfg'.submitMode = "Parallel" /\ pc' = "run" => \A q \in collected' : ~laneRes'[q].success
  BY <1>1, ResultTypes DEF FailureInv
<1>6. completed' /\ result'.status = "Failed" => pc' = "returned" /\ ~inner'.success
  BY DEF FailureInv
<1> QED BY <1>2, <1>3, <1>4, <1>5, <1>6 DEF FailureInv

\* The loop ends, or asks the next lane, after failures only.
LEMMA NextTryFailure ==
    ASSUME IInv, FailureInv, NextTry, pc \in {"run", "sleep"}, Sequential,
           \A p \in Providers : ~laneRes[p].success,
           UNCHANGED <<cfg, laneRes, collected, completed, result>>
    PROVE  FailureInv'
<1>1. FewSuccesses'
  BY NoneSucceeded DEF FewSuccesses, Successes
<1>2. inner' = inner \/ ~inner'.success
  BY DEF NextTry, KeepReceipt
<1>3. cfg'.submitMode # "Parallel"
  BY DEF Sequential
<1>4. ~(completed /\ result.status = "Failed")
  BY DEF FailureInv
<1>5. inner'.success => inner'.status \in Successful
  BY <1>2 DEF FailureInv
<1> QED BY <1>1, <1>3, <1>4, <1>5 DEF FailureInv

\* Enough lanes fail before the caller is told Failed.
LEMMA FailureStep == ASSUME IInv, FailureInv, [Next]_vars PROVE FailureInv'
<1>1. CASE Start
  <2>0. pc = "idle" /\ \A p \in Providers : ~laneRes[p].success
    <3>1. pc = "idle" /\ lane = [p \in Providers |-> "idle"]
      BY <1>1 DEF Start, IInv, IdleInv
    <3> QED BY <3>1 DEF FailureInv
  <2>1. UNCHANGED <<cfg, laneRes, collected, completed, result>>
    BY <1>1 DEF Start, parVars
  <2>2. FewSuccesses'
    BY <2>0, <2>1, NoneSucceeded DEF FewSuccesses, Successes
  <2>3. inner' = inner \/ ~inner'.success
    <3>1. ~KeepReceipt("Failed").success /\ ~[NoResult EXCEPT !.status = "Threw"].success
      BY DEF KeepReceipt, NoResult
    <3> QED BY <1>1, <3>1 DEF Start
  <2>4. inner'.success => inner'.status \in Successful
    BY <2>3 DEF FailureInv
  <2>5. ~completed
    BY <2>0 DEF IInv, IdleInv
  <2>6. \A p \in collected : p \in Providers
    BY ResultTypes
  <2> QED BY <2>0, <2>1, <2>2, <2>4, <2>5, <2>6 DEF FailureInv
<1>2. CASE Cancel \/ SleepAborted \/ (\E s \in Sigs : ChainAdvance(s)) \/ UNCHANGED vars
  BY <1>2, QuietFailure DEF Cancel, SleepAborted, ChainAdvance, vars, seqVars, laneVars, parVars
<1>3. ASSUME NEW p \in Providers, SendAcked(p) PROVE FailureInv'
  <2>1. UNCHANGED <<cfg, pc, collected, inner, completed, result>> /\ lane[p] = "sending"
    BY <1>3 DEF SendAcked, seqVars, parVars
  <2>2. CASE cfg.waitFor = "nothing"
    <3>1. lane' = [lane EXCEPT ![p] = "done"]
          /\ laneRes' = [laneRes EXCEPT ![p] = [success |-> TRUE, status |-> "Submitted",
                                                sig |-> SigOf[p], provider |-> p]]
      BY <1>3, <2>2 DEF SendAcked, LaneSucceeds
    <3>2. laneRes'[p].status = "Submitted" /\ \A q \in Providers \ {p} : laneRes'[q] = laneRes[q]
      BY <3>1, ResultTypes
    <3> QED BY <2>1, <3>1, <3>2, LaneEndsFailure DEF Successful
  <2>3. CASE cfg.waitFor # "nothing"
    <3>1. lane' = [lane EXCEPT ![p] = "polling"] /\ laneRes' = laneRes
      BY <1>3, <2>3 DEF SendAcked
    <3>2. ~laneRes'[p].success
      BY <2>1, <3>1 DEF FailureInv
    <3> QED BY <2>1, <3>1, <3>2, LaneEndsFailure
  <2> QED BY <2>2, <2>3
<1>4. ASSUME NEW p \in Providers, NEW st, lane[p] \in {"sending", "polling"}, LaneFails(p, st)
      PROVE FailureInv'
  <2>1. UNCHANGED <<cfg, pc, collected, inner, completed, result>>
        /\ lane' = [lane EXCEPT ![p] = "done"]
        /\ laneRes' = [laneRes EXCEPT ![p] = LaneFailure(p, st, LaneSig(p))]
    BY <1>4 DEF LaneFails, seqVars, parVars
  <2>2. laneRes'[p] = LaneFailure(p, st, LaneSig(p))
        /\ \A q \in Providers \ {p} : laneRes'[q] = laneRes[q]
    BY <2>1, ResultTypes
  <2>3. ~laneRes'[p].success
    BY <2>2 DEF LaneFailure
  <2> QED BY <1>4, <2>1, <2>2, <2>3, LaneEndsFailure
<1>5. ASSUME NEW p \in Providers,
             SendRejected(p) \/ SendDeadline(p) \/ LaneAbort(p) \/ PollError(p) \/ PollExpired(p)
      PROVE FailureInv'
  BY <1>4, <1>5 DEF SendRejected, SendDeadline, LaneAbort, PollError, PollExpired
<1>6. ASSUME NEW p \in Providers, PollConfirmed(p) PROVE FailureInv'
  <2>1. UNCHANGED <<cfg, pc, collected, inner, completed, result>> /\ lane[p] = "polling"
    BY <1>6 DEF PollConfirmed, seqVars, parVars
  <2>2. PICK st \in {"Finalized", "Confirmed"} : LaneSucceeds(p, st)
    BY <1>6 DEF PollConfirmed
  <2>3. lane' = [lane EXCEPT ![p] = "done"] /\ laneRes'[p].status = st
        /\ \A q \in Providers \ {p} : laneRes'[q] = laneRes[q]
    BY <2>2, ResultTypes DEF LaneSucceeds
  <2> QED BY <2>1, <2>2, <2>3, LaneEndsFailure DEF Successful
<1>7. CASE SeqCollect
  <2>1. /\ Sequential /\ pc = "run" /\ lane[Current] = "done"
        /\ UNCHANGED <<cfg, laneRes, collected, completed, result>>
    BY <1>7 DEF SeqCollect, parVars
  <2>2. Current \in Providers
    BY <2>1, CurrentInLanes DEF IInv, ParallelInv
  <2>3. CASE Settled(laneRes[Current]) /\ inner' = laneRes[Current] /\ pc' = "returned"
             /\ UNCHANGED lane
    <3>1. ~inner'.success => FewSuccesses'
      <4> SUFFICES ASSUME ~laneRes[Current].success PROVE FewSuccesses'
        BY <2>3
      <4>1. \A p \in Providers : ~laneRes[p].success
        BY <2>1, SequentialFailed
      <4> QED BY <2>1, <4>1, NoneSucceeded DEF FewSuccesses, Successes
    <3>2. inner'.success => inner'.status \in Successful
      BY <2>2, <2>3 DEF FailureInv
    <3>3. ~(completed /\ result.status = "Failed")
      BY <2>1 DEF FailureInv
    <3> QED BY <2>1, <2>3, <3>1, <3>2, <3>3 DEF FailureInv
  <2>4. CASE pc' \in {"stopped", "sleep"} /\ UNCHANGED <<cursor, inner, lane, sends>>
    BY <2>1, <2>4, QuietFailure
  <2>5. CASE ~Settled(laneRes[Current]) /\ NextTry
    <3>1. \A p \in Providers : ~laneRes[p].success
      BY <2>1, <2>5, SequentialFailed DEF Settled
    <3> QED BY <2>1, <2>5, <3>1, NextTryFailure
  <2> QED BY <1>7, <2>3, <2>4, <2>5 DEF SeqCollect
<1>8. CASE SleepDone
  <2>1. pc = "sleep" /\ NextTry /\ UNCHANGED <<cfg, laneRes, collected, completed, result>>
    BY <1>8 DEF SleepDone, parVars
  <2>2. Sequential /\ Lanes # {}
    BY <2>1 DEF IInv, ParallelInv
  <2>3. lane[Current] = "done" /\ Current \notin acks /\ Current \in Providers
    BY <2>1, <2>2, CurrentInLanes DEF IInv, SeqInv
  <2>4. ~laneRes[Current].success
    BY <2>3 DEF IInv, LaneInv
  <2>5. \A p \in Providers : ~laneRes[p].success
    BY <2>1, <2>2, <2>3, <2>4, SequentialFailed
  <2> QED BY <2>1, <2>2, <2>5, NextTryFailure
<1>9. ASSUME NEW p \in Providers, ParallelCollect(p) PROVE FailureInv'
  <2>1. /\ cfg.submitMode = "Parallel" /\ pc = "run" /\ collected' = collected \cup {p}
        /\ UNCHANGED <<cfg, lane, laneRes, completed, result>> /\ p \in Lanes
    BY <1>9 DEF ParallelCollect, laneVars
  <2>2. ~(completed /\ result.status = "Failed")
    BY <2>1 DEF FailureInv
  <2>3. CASE laneRes[p].success
    <3>1. inner' = laneRes[p] /\ pc' = "returned"
      BY <1>9, <2>3 DEF ParallelCollect
    <3> QED BY <2>1, <2>2, <2>3, <3>1 DEF FailureInv
  <2>4. CASE ~laneRes[p].success
    <3>1. \A q \in collected' : ~laneRes[q].success
      BY <2>1, <2>4 DEF FailureInv
    <3>2. CASE collected' = Lanes
      <4>1. inner' = KeepFailure(laneRes[p]) /\ pc' = "returned"
        BY <1>9, <2>4, <3>2 DEF ParallelCollect
      <4>2. ~inner'.success
        BY <2>4, <4>1 DEF KeepFailure, IInv, ParallelInv
      <4>3. \A q \in Providers : ~laneRes[q].success
        <5>1. \A q \in Providers \ Lanes : lane[q] = "idle"
          BY DEF IInv, LaneInv
        <5> QED BY <3>1, <3>2, <5>1 DEF FailureInv
      <4>4. FewSuccesses'
        BY <2>1, <4>3, NoneSucceeded DEF FewSuccesses, Successes
      <4> QED BY <2>1, <2>2, <4>1, <4>2, <4>4 DEF FailureInv
    <3>3. CASE collected' # Lanes
      <4>1. UNCHANGED <<inner, pc>>
        BY <1>9, <2>4, <3>3 DEF ParallelCollect
      <4> QED BY <2>1, <2>2, <3>1, <4>1 DEF FailureInv
    <3> QED BY <3>2, <3>3
  <2> QED BY <2>3, <2>4
<1>10. CASE RedundantCollect
  <2>1. /\ cfg.submitMode = "Redundant" /\ pc = "run" /\ pc' = "returned"
        /\ UNCHANGED <<cfg, lane, laneRes, collected, completed, result>>
    BY <1>10 DEF RedundantCollect, laneVars, parVars
  <2>2. ~(completed /\ result.status = "Failed")
    BY <2>1 DEF FailureInv
  <2>3. CASE \E i \in Successes : inner' = laneRes[cfg.providers[i]]
    <3>1. PICK i \in Successes : inner' = laneRes[cfg.providers[i]]
      BY <2>3
    <3>2. laneRes[cfg.providers[i]].success /\ cfg.providers[i] \in Providers
      BY <3>1, OrderFacts DEF Successes, IInv
    <3> QED BY <2>1, <2>2, <3>1, <3>2 DEF FailureInv
  <2>4. CASE ~EnoughSuccesses /\ inner' = KeepReceipt("Failed")
    <3>1. ~inner'.success
      BY <2>4 DEF KeepReceipt
    <3>2. IsFiniteSet(Successes) /\ Successes \subseteq 1..Len(cfg.providers)
      <4>1. Successes \subseteq 1..Len(cfg.providers) /\ Len(cfg.providers) \in Nat
        BY OrderFacts DEF Successes, IInv
      <4>2. IsFiniteSet(1..Len(cfg.providers))
        BY <4>1, FS_Interval
      <4> QED BY <4>1, <4>2, FS_Subset
    <3>3. Cardinality(Successes) \in Nat
      BY <3>2, FS_CardinalityType
    <3>4. Cardinality(Successes) <= 1 /\ Successes # DOMAIN cfg.providers
      BY <2>4, <3>3 DEF EnoughSuccesses
    <3>5. ~(Len(cfg.providers) > 1) => Successes = {}
      <4>1. Len(cfg.providers) \in Nat /\ DOMAIN cfg.providers = 1..Len(cfg.providers)
        BY OrderFacts DEF IInv
      <4> QED BY <3>2, <3>4, <4>1
    <3>6. FewSuccesses
      BY <2>1, <3>4, <3>5 DEF FewSuccesses
    <3>7. FewSuccesses'
      BY <2>1, <3>6 DEF FewSuccesses, Successes
    <3> QED BY <2>1, <2>2, <3>1, <3>7 DEF FailureInv
  <2> QED BY <1>10, <2>3, <2>4 DEF RedundantCollect
<1>11. CASE Return
  <2>1. /\ pc = "returned" /\ result' = inner
        /\ UNCHANGED <<cfg, pc, inner, lane, laneRes, collected>>
    BY <1>11 DEF Return, Finish, seqVars, laneVars, parVars
  <2>2. FewSuccesses' = FewSuccesses
    BY <2>1 DEF FewSuccesses, Successes
  <2>3. "Failed" \notin Successful
    BY DEF Successful
  <2> QED BY <2>1, <2>2, <2>3 DEF FailureInv
<1>12. CASE Timeout \/ AbortReturn
  <2>1. result'.status # "Failed" /\ UNCHANGED <<cfg, pc, inner, lane, laneRes, collected>>
    BY <1>12 DEF Timeout, AbortReturn, Finish, KeepReceipt, seqVars, laneVars, parVars
  <2>2. FewSuccesses' = FewSuccesses
    BY <2>1 DEF FewSuccesses, Successes
  <2> QED BY <2>1, <2>2 DEF FailureInv
<1> QED BY <1>1, <1>2, <1>3, <1>5, <1>6, <1>7, <1>8, <1>9, <1>10, <1>11, <1>12 DEF Next

\* What is taken for a success was seen on the chain, which does not take it back.
LEMMA ChainStep == ASSUME IInv, FailureInv, ChainInv, [Next]_vars PROVE ChainInv'
<1>1. ASSUME UNCHANGED <<cfg, chain>>,
             result' = result \/ result' = inner \/ ~result'.success,
             inner' = inner \/ ~inner'.success \/ \E p \in Providers : inner' = laneRes[p],
             \A p \in Providers : laneRes'[p] = laneRes[p] \/ OnChain(laneRes'[p])
      PROVE ChainInv'
  <2>1. OnChain(result)' /\ OnChain(inner)'
    BY <1>1 DEF ChainInv, OnChain
  <2>2. \A p \in Providers : OnChain(laneRes[p])'
    BY <1>1 DEF ChainInv, OnChain
  <2> QED BY <2>1, <2>2 DEF ChainInv
<1>2. ASSUME NEW p \in Providers, SendAcked(p) PROVE ChainInv'
  <2>1. UNCHANGED <<cfg, chain, result, inner>>
    BY <1>2 DEF SendAcked, seqVars
  <2>2. CASE cfg.waitFor = "nothing"
    <3>1. \A q \in Providers : OnChain(laneRes'[q])
      BY <2>2 DEF OnChain
    <3> QED BY <1>1, <2>1, <3>1
  <2>3. CASE cfg.waitFor # "nothing"
    BY <1>1, <1>2, <2>1, <2>3 DEF SendAcked
  <2> QED BY <2>2, <2>3
<1>3. ASSUME NEW p \in Providers,
             SendRejected(p) \/ SendDeadline(p) \/ LaneAbort(p) \/ PollError(p) \/ PollExpired(p)
      PROVE ChainInv'
  <2>1. UNCHANGED <<cfg, chain, result, inner>>
        /\ \E st \in Statuses : laneRes' = [laneRes EXCEPT ![p] = LaneFailure(p, st, LaneSig(p))]
    BY <1>3 DEF SendRejected, SendDeadline, LaneAbort, PollError, PollExpired, LaneFails,
                seqVars, Statuses
  <2>2. \A q \in Providers : laneRes'[q] = laneRes[q] \/ ~laneRes'[q].success
    BY <2>1, ResultTypes DEF LaneFailure
  <2> QED BY <1>1, <2>1, <2>2 DEF OnChain
<1>4. ASSUME NEW p \in Providers, PollConfirmed(p) PROVE ChainInv'
  <2>1. UNCHANGED <<cfg, chain, result, inner>>
    BY <1>4 DEF PollConfirmed, seqVars
  <2>2. PICK seen \in Visible(SigOf[p]) \cap Acceptable :
          LaneSucceeds(p, IF seen = "finalized" THEN "Finalized" ELSE "Confirmed")
    BY <1>4 DEF PollConfirmed
  <2>3. /\ laneRes'[p].sig = SigOf[p]
        /\ \A q \in Providers \ {p} : laneRes'[q] = laneRes[q]
    BY <2>2, ResultTypes DEF LaneSucceeds
  <2>4. /\ cfg.waitFor = "finalized" => chain[SigOf[p]] = "finalized"
        /\ chain[SigOf[p]] \in {"confirmed", "finalized"}
    BY <2>2 DEF Visible, Acceptable
  <2> QED BY <1>1, <2>1, <2>3, <2>4 DEF OnChain
<1>5. ASSUME NEW s \in Sigs, ChainAdvance(s) PROVE ChainInv'
  <2>1. UNCHANGED <<cfg, result, inner, laneRes>> /\ chain \in [Sigs -> {"unseen", "confirmed", "finalized", "failed"}]
    BY <1>5 DEF ChainAdvance, seqVars, laneVars, IInv, TypeOK
  <2>2. ASSUME NEW t \in Sigs
        PROVE /\ chain[t] = "finalized" => chain'[t] = "finalized"
              /\ chain[t] = "confirmed" => chain'[t] \in {"confirmed", "finalized"}
    BY <1>5, <2>1 DEF ChainAdvance
  <2>3. /\ inner.success => inner.sig \in Sigs
        /\ result.success => result.sig \in Sigs
    BY DEF IInv, InnerInv, ResultInv, TypeOK, Results
  <2>4. \A p \in Providers : laneRes[p].success => laneRes[p].sig \in Sigs
    <3>1. \A p \in Providers : laneRes[p].success => lane[p] = "done" /\ p \in acks
      BY DEF FailureInv, IInv, LaneInv
    <3> QED BY <3>1, SigAssumption DEF IInv, LaneInv
  <2>5. OnChain(inner)' /\ OnChain(result)'
    BY <2>1, <2>2, <2>3 DEF ChainInv, OnChain
  <2>6. \A p \in Providers : OnChain(laneRes[p])'
    BY <2>1, <2>2, <2>4 DEF ChainInv, OnChain
  <2> QED BY <2>5, <2>6 DEF ChainInv
<1>6. CASE NextTry /\ UNCHANGED <<cfg, chain, result, laneRes>>
  <2>1. inner' = inner \/ ~inner'.success
    BY <1>6 DEF NextTry, KeepReceipt
  <2> QED BY <1>1, <1>6, <2>1
<1>7. CASE SeqCollect
  <2>1. UNCHANGED <<cfg, chain, result, laneRes>>
    BY <1>7 DEF SeqCollect
  <2>2. Current \in Providers
    BY <1>7, CurrentInLanes DEF SeqCollect, IInv, ParallelInv
  <2>3. inner' = laneRes[Current] \/ inner' = inner \/ NextTry
    BY <1>7 DEF SeqCollect
  <2> QED BY <1>1, <1>6, <2>1, <2>2, <2>3
<1>8. CASE SleepDone
  BY <1>6, <1>8 DEF SleepDone
<1>9. ASSUME NEW p \in Providers, ParallelCollect(p) PROVE ChainInv'
  <2>1. UNCHANGED <<cfg, chain, result, laneRes>>
    BY <1>9 DEF ParallelCollect, laneVars
  <2>2. inner' = laneRes[p] \/ inner' = inner \/ ~inner'.success
    BY <1>9 DEF ParallelCollect, KeepFailure, IInv, ParallelInv
  <2> QED BY <1>1, <2>1, <2>2
<1>10. CASE RedundantCollect
  <2>1. UNCHANGED <<cfg, chain, result, laneRes>>
    BY <1>10 DEF RedundantCollect, laneVars
  <2>2. (\E i \in Successes : inner' = laneRes[cfg.providers[i]]) \/ ~inner'.success
    BY <1>10 DEF RedundantCollect, KeepReceipt
  <2>3. \A i \in Successes : cfg.providers[i] \in Providers
    BY OrderFacts DEF Successes, IInv
  <2> QED BY <1>1, <2>1, <2>2, <2>3
<1>11. CASE Start
  <2>1. UNCHANGED <<cfg, chain, result, laneRes>>
    BY <1>11 DEF Start
  <2>2. ~KeepReceipt("Failed").success /\ ~[NoResult EXCEPT !.status = "Threw"].success
    BY DEF KeepReceipt, NoResult
  <2>3. inner' = inner \/ ~inner'.success
    BY <1>11, <2>2 DEF Start
  <2> QED BY <1>1, <2>1, <2>3
<1>12. CASE Return \/ Timeout \/ AbortReturn
  <2>1. UNCHANGED <<cfg, chain, inner, laneRes>>
    BY <1>12 DEF Return, Timeout, AbortReturn, seqVars, laneVars
  <2>2. result' = inner \/ ~result'.success
    BY <1>12 DEF Return, Timeout, AbortReturn, Finish, KeepReceipt
  <2> QED BY <1>1, <2>1, <2>2
<1>13. CASE Cancel \/ SleepAborted \/ UNCHANGED vars
  <2>1. UNCHANGED <<cfg, chain, result, inner, laneRes>>
    BY <1>13 DEF Cancel, SleepAborted, vars, seqVars, laneVars
  <2> QED BY <1>1, <2>1
<1> QED BY <1>2, <1>3, <1>4, <1>5, <1>7, <1>8, <1>9, <1>10, <1>11, <1>12, <1>13 DEF Next

\* What StatusAfter lets through.
LEMMA StatusFacts ==
    ASSUME TypeOK
    PROVE  /\ \A s \in Statuses : completed => StatusAfter(status, s) = status
           /\ \A s \in Statuses : status = "Cancelled" => StatusAfter(status, s) = status
           /\ \A s \in Statuses : StatusAfter(status, s) \in {status, s}
           /\ ~completed /\ status # "TimedOut" => StatusAfter(status, "Cancelled") = "Cancelled"
           /\ ~completed /\ status \notin {"TimedOut", "Cancelled"} =>
                  StatusAfter(status, "TimedOut") = "TimedOut"
BY DEF StatusAfter, Regressions, Statuses, TypeOK

\* A step that only reports progress leaves WordInv: a last word is not taken back.
LEMMA QuietWord ==
    ASSUME IInv, WordInv, UNCHANGED <<aborted, completed, result>>,
           status' = status \/ \E s, t \in {"Pending", "Submitted", "Confirmed", "Finalized"} :
                                  status' = StatusAfter(StatusAfter(status, s), t),
           pc = "returned" => pc' = "returned", laneAborted' = laneAborted,
           \A p \in Providers :
              laneRes'[p] = laneRes[p]
                  \/ (laneRes'[p].status # "TimedOut"
                      /\ (laneRes'[p].status = "Cancelled" => aborted \/ pc' = "returned")),
           \A r \in {inner', firstFailure'} :
              r.status # "TimedOut" /\ (r.status = "Cancelled" => aborted)
    PROVE  WordInv'
<1> DEFINE Progress == {"Pending", "Submitted", "Confirmed", "Finalized"}
<1>0. TypeOK /\ Progress \subseteq Statuses
  BY DEF IInv, Statuses
<1>1. completed => status' = status
  BY <1>0 DEF StatusAfter
<1>2. status = "Cancelled" => status' = "Cancelled"
  BY <1>0 DEF StatusAfter, Regressions, Statuses
<1>3. status' = status \/ status' \in Progress
  BY <1>0 DEF StatusAfter
<1>4. LastReportAgrees'
  BY <1>1 DEF WordInv, LastReportAgrees
<1>5. aborted' /\ ~completed' => status' = "Cancelled"
  BY <1>2 DEF WordInv
<1>6. ~aborted' => status' \notin {"Cancelled", "TimedOut"}
  BY <1>3 DEF WordInv
<1>7. \A p \in Providers : /\ laneAborted'[p] => aborted' \/ pc' = "returned"
                           /\ laneRes'[p].status # "TimedOut"
                           /\ laneRes'[p].status = "Cancelled" => aborted' \/ pc' = "returned"
  BY DEF WordInv
<1> QED BY <1>4, <1>5, <1>6, <1>7 DEF WordInv

\* The listener's last word is the caller's answer.
LEMMA WordStep == ASSUME IInv, FailureInv, WordInv, [Next]_vars PROVE WordInv'
<1>0. TypeOK
  BY DEF IInv
\* Nothing is reported, and what is kept was kept by a lane.
<1>1. ASSUME UNCHANGED <<aborted, completed, result, status, laneRes, laneAborted>>,
             pc # "returned",
             \A r \in {inner', firstFailure'} :
                 \/ r \in {inner, firstFailure} \/ \E p \in Providers : r = laneRes[p]
                 \/ r.status \in {"Failed", "Threw"} \/ (r.status = "Cancelled" /\ aborted)
      PROVE WordInv'
  <2>1. \A r \in {inner', firstFailure'} :
            r.status # "TimedOut" /\ (r.status = "Cancelled" => aborted)
    BY <1>1 DEF WordInv
  <2> QED BY <1>1, <2>1, QuietWord
\* A lane reports and ends, or goes on.
<1>2. ASSUME UNCHANGED <<aborted, completed, result, pc, laneAborted, inner, firstFailure>>,
             status' = status \/ \E s, t \in {"Pending", "Submitted", "Confirmed", "Finalized"} :
                                    status' = StatusAfter(StatusAfter(status, s), t),
             NEW p \in Providers, \A q \in Providers \ {p} : laneRes'[q] = laneRes[q],
             \/ laneRes'[p] = laneRes[p]
             \/ laneRes'[p].status \in {"Submitted", "Confirmed", "Finalized", "Failed"}
             \/ laneRes'[p].status = "Cancelled" /\ LaneSignalAborted(p)
      PROVE WordInv'
  <2>1. LaneSignalAborted(p) => aborted \/ pc = "returned"
    BY DEF LaneSignalAborted, WordInv
  <2>2. \A q \in Providers :
           laneRes'[q] = laneRes[q]
               \/ (laneRes'[q].status # "TimedOut"
                   /\ (laneRes'[q].status = "Cancelled" => aborted \/ pc' = "returned"))
    BY <1>2, <2>1
  <2>3. \A r \in {inner', firstFailure'} :
            r.status # "TimedOut" /\ (r.status = "Cancelled" => aborted)
    BY <1>2 DEF WordInv
  <2>4. (pc = "returned" => pc' = "returned") /\ laneAborted' = laneAborted
    BY <1>2
  <2> QED BY <1>2, <2>2, <2>3, <2>4, QuietWord
<1>3. CASE Start
  <2>1. UNCHANGED <<aborted, completed, result, laneRes, laneAborted, firstFailure>>
        /\ pc # "returned" /\ status' = StatusAfter(status, "Pending")
    BY <1>3 DEF Start, parVars
  <2>2. inner' = inner \/ inner'.status \in {"Failed", "Threw"}
    BY <1>3 DEF Start, KeepReceipt, NoResult
  <2>3. status' = StatusAfter(StatusAfter(status, "Pending"), "Pending")
    BY <2>1 DEF StatusAfter
  <2>4. \A r \in {inner', firstFailure'} :
            r.status # "TimedOut" /\ (r.status = "Cancelled" => aborted)
    BY <2>1, <2>2 DEF WordInv
  <2> QED BY <2>1, <2>3, <2>4, QuietWord
<1>4. CASE Cancel
  <2>1. /\ ~completed /\ ~aborted /\ aborted' = TRUE /\ pc # "idle"
        /\ UNCHANGED <<pc, inner, laneRes, firstFailure, completed, result>>
        /\ status' = StatusAfter(status, "Cancelled")
    BY <1>4 DEF Cancel, seqVars, laneVars
  <2>2. status' = "Cancelled"
    BY <1>0, <2>1, StatusFacts DEF WordInv
  <2> QED BY <2>1, <2>2 DEF WordInv, LastReportAgrees
<1>5. ASSUME NEW p \in Providers, SendAcked(p) PROVE WordInv'
  <2>1. UNCHANGED <<aborted, completed, result, pc, laneAborted, inner, firstFailure>>
    BY <1>5 DEF SendAcked, seqVars, parVars
  <2>2. status' = StatusAfter(StatusAfter(status, "Submitted"), "Submitted")
    BY <1>5 DEF SendAcked, StatusAfter
  <2>3. laneRes' = laneRes \/ LaneSucceeds(p, "Submitted")
    BY <1>5 DEF SendAcked
  <2>4. /\ \A q \in Providers \ {p} : laneRes'[q] = laneRes[q]
        /\ laneRes'[p] = laneRes[p] \/ laneRes'[p].status = "Submitted"
    BY <2>3, ResultTypes DEF LaneSucceeds
  <2> QED BY <1>2, <2>1, <2>2, <2>4
<1>6. ASSUME NEW p \in Providers, NEW st \in {"Failed", "Cancelled"}, LaneFails(p, st),
             st = "Cancelled" => LaneSignalAborted(p)
      PROVE WordInv'
  <2>1. UNCHANGED <<aborted, completed, result, pc, laneAborted, inner, firstFailure, status>>
        /\ laneRes' = [laneRes EXCEPT ![p] = LaneFailure(p, st, LaneSig(p))]
    BY <1>6 DEF LaneFails, seqVars, parVars
  <2>2. laneRes'[p] = LaneFailure(p, st, LaneSig(p))
        /\ \A q \in Providers \ {p} : laneRes'[q] = laneRes[q]
    BY <2>1, ResultTypes
  <2>3. laneRes'[p].status = st
    BY <2>2 DEF LaneFailure
  <2> QED BY <1>2, <1>6, <2>1, <2>2, <2>3
<1>7. ASSUME NEW p \in Providers,
             SendRejected(p) \/ SendDeadline(p) \/ LaneAbort(p) \/ PollError(p) \/ PollExpired(p)
      PROVE WordInv'
  BY <1>6, <1>7 DEF SendRejected, SendDeadline, LaneAbort, PollError, PollExpired
<1>8. ASSUME NEW p \in Providers, PollConfirmed(p) PROVE WordInv'
  <2>1. UNCHANGED <<aborted, completed, result, pc, laneAborted, inner, firstFailure>>
    BY <1>8 DEF PollConfirmed, seqVars, parVars
  <2>2. PICK st \in {"Finalized", "Confirmed"} :
          LaneSucceeds(p, st) /\ status' = StatusAfter(StatusAfter(status, "Confirmed"), st)
    BY <1>8 DEF PollConfirmed
  <2>3. laneRes'[p].status = st /\ \A q \in Providers \ {p} : laneRes'[q] = laneRes[q]
    BY <2>2, ResultTypes DEF LaneSucceeds
  <2> QED BY <1>2, <2>1, <2>2, <2>3
<1>9. CASE SeqCollect \/ SleepDone
  <2>1. UNCHANGED <<aborted, completed, result, status, laneRes, laneAborted, firstFailure>>
        /\ pc # "returned"
    BY <1>9 DEF SeqCollect, SleepDone, parVars
  <2>2. \/ inner' = inner \/ inner'.status = "Failed" \/ (inner'.status = "Cancelled" /\ aborted)
        \/ \E p \in Providers : inner' = laneRes[p]
    <3>1. NextTry => \/ inner' = inner \/ inner'.status = "Failed"
                     \/ (inner'.status = "Cancelled" /\ aborted)
      BY DEF NextTry, KeepReceipt
    <3>2. SeqCollect => Current \in Providers
      BY CurrentInLanes DEF SeqCollect, IInv, ParallelInv
    <3> QED BY <1>9, <3>1, <3>2 DEF SeqCollect, SleepDone
  <2> QED BY <1>1, <2>1, <2>2
<1>10. CASE SleepAborted \/ (\E s \in Sigs : ChainAdvance(s)) \/ UNCHANGED vars
  <2>1. UNCHANGED <<aborted, completed, result, status, laneRes, laneAborted, inner, firstFailure>>
        /\ (pc = "returned" => pc' = "returned")
    BY <1>10 DEF SleepAborted, ChainAdvance, vars, seqVars, laneVars, parVars
  <2>2. \A r \in {inner', firstFailure'} :
            r.status # "TimedOut" /\ (r.status = "Cancelled" => aborted)
    BY <2>1 DEF WordInv
  <2> QED BY <2>1, <2>2, QuietWord
<1>11. ASSUME NEW p \in Providers, ParallelCollect(p) PROVE WordInv'
  <2>1. UNCHANGED <<aborted, completed, result, status, laneRes>> /\ pc = "run"
    BY <1>11 DEF ParallelCollect, laneVars
  <2>2. CASE laneRes[p].success
    <3>1. inner' = laneRes[p] /\ pc' = "returned" /\ firstFailure' = firstFailure
      BY <1>11, <2>2 DEF ParallelCollect
    <3>2. inner'.status # "TimedOut" /\ inner'.status # "Cancelled"
      BY <2>2, <3>1 DEF FailureInv, Successful
    <3>3. \A r \in {inner', firstFailure'} :
              r.status # "TimedOut" /\ (r.status = "Cancelled" => aborted)
      BY <3>1, <3>2 DEF WordInv
    <3> QED BY <2>1, <3>1, <3>3 DEF WordInv, LastReportAgrees
  <2>3. CASE ~laneRes[p].success
    <3>1. laneAborted' = laneAborted /\ firstFailure' = KeepFailure(laneRes[p])
          /\ inner' \in {inner, KeepFailure(laneRes[p])}
      BY <1>11, <2>3 DEF ParallelCollect
    <3>2. KeepFailure(laneRes[p]) \in {laneRes[p], firstFailure}
      BY DEF KeepFailure
    <3> QED BY <1>1, <2>1, <3>1, <3>2
  <2> QED BY <2>2, <2>3
<1>12. CASE RedundantCollect
  <2>1. UNCHANGED <<aborted, completed, result, status, laneRes, laneAborted, firstFailure>>
        /\ pc # "returned"
    BY <1>12 DEF RedundantCollect, laneVars, parVars
  <2>2. \/ inner'.status = "Failed" \/ \E p \in Providers : inner' = laneRes[p]
    <3>1. \A i \in Successes : cfg.providers[i] \in Providers
      BY OrderFacts DEF Successes, IInv
    <3> QED BY <1>12, <3>1 DEF RedundantCollect, KeepReceipt
  <2> QED BY <1>1, <2>1, <2>2
<1>13. CASE Return
  <2>1. /\ ~completed /\ result' = inner /\ completed' = TRUE
        /\ UNCHANGED <<aborted, status, pc, inner, laneRes, laneAborted, firstFailure>>
    BY <1>13 DEF Return, Finish, seqVars, laneVars, parVars
  <2>2. LastReportAgrees'
    BY <2>1 DEF WordInv, LastReportAgrees
  <2> QED BY <2>1, <2>2 DEF WordInv
<1>14. CASE Timeout
  <2>1. /\ ~completed /\ ~aborted /\ aborted' = TRUE /\ completed' = TRUE
        /\ UNCHANGED <<pc, inner, laneRes, firstFailure>>
        /\ status' = StatusAfter(status, "TimedOut") /\ result'.status = "TimedOut"
    BY <1>14 DEF Timeout, Finish, KeepReceipt, seqVars, laneVars
  <2>2. status' = "TimedOut"
    BY <1>0, <2>1, StatusFacts DEF WordInv
  <2> QED BY <2>1, <2>2 DEF WordInv, LastReportAgrees
<1>15. CASE AbortReturn
  <2>1. /\ ~completed /\ aborted /\ aborted' = aborted /\ completed' = TRUE
        /\ UNCHANGED <<pc, inner, laneRes, laneAborted, firstFailure>>
        /\ status' = StatusAfter(status, "Cancelled") /\ result'.status = "Cancelled"
    BY <1>15 DEF AbortReturn, Finish, KeepReceipt, seqVars, laneVars, parVars
  <2>2. status' = "Cancelled"
    BY <1>0, <2>1, StatusFacts DEF WordInv
  <2> QED BY <2>1, <2>2 DEF WordInv, LastReportAgrees
<1> QED BY <1>3, <1>4, <1>5, <1>7, <1>8, <1>9, <1>10, <1>11, <1>12, <1>13, <1>14, <1>15 DEF Next

\* What execute() answers is so: a success that was waited for is on the chain, Failed
\* left no lane that did the job, and the listener heard what the caller did.
THEOREM AnswersHonestly == Spec => []AnswerIsHonest
<1> DEFINE Honest == FailureInv /\ ChainInv /\ WordInv
<1>1. Init => Honest
  <2> SUFFICES ASSUME Init PROVE Honest
    OBVIOUS
  <2>1. /\ inner = NoResult /\ result = NoResult /\ firstFailure = NoResult
        /\ \A p \in Providers : laneRes[p] = NoResult /\ ~laneAborted[p]
        /\ ~NoResult.success /\ NoResult.status = "None" /\ NoResult.status # "Cancelled"
        /\ pc = "idle" /\ collected = {} /\ ~completed /\ ~aborted /\ status = "None"
    BY DEF Init, NoResult
  <2> QED BY <2>1 DEF FailureInv, ChainInv, OnChain, WordInv, LastReportAgrees
<1>2. IInv /\ Honest /\ [Next]_vars => Honest'
  BY FailureStep, ChainStep, WordStep
<1>3. IInv /\ Honest => AnswerIsHonest
  <2> SUFFICES ASSUME IInv, Honest PROVE AnswerIsHonest
    OBVIOUS
  <2>1. SuccessIsConfirmed
    BY DEF ChainInv, OnChain, SuccessIsConfirmed
  <2>2. FailureIsHonest
    <3> SUFFICES ASSUME completed, result.status = "Failed"
                 PROVE  Cardinality(Successes) <=
                          IF cfg.submitMode = "Redundant" /\ Len(cfg.providers) > 1 THEN 1 ELSE 0
      BY DEF FailureIsHonest
    <3>1. FewSuccesses
      BY DEF FailureInv
    <3>2. Cardinality({}) = 0
      BY FS_EmptySet
    <3>3. CASE cfg.submitMode = "Redundant" /\ Len(cfg.providers) > 1
      BY <3>1, <3>3 DEF FewSuccesses
    <3>4. CASE ~(cfg.submitMode = "Redundant" /\ Len(cfg.providers) > 1)
      <4>1. Successes = {}
        BY <3>1, <3>4 DEF FewSuccesses
      <4> QED BY <3>2, <3>4, <4>1
    <3> QED BY <3>3, <3>4
  <2> QED BY <2>1, <2>2 DEF AnswerIsHonest, WordInv
<1> QED BY <1>1, <1>2, <1>3, Invariance, PTL DEF Spec
=============================================================================
