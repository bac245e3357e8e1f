----------------------- MODULE TradeSubmission_proofs -----------------------
(***************************************************************************)
(* Proofs about what TradingClient builds and how it submits it, for any   *)
(* requests, tips, pools, wallets and bounds.  TradeSubmission and the     *)
(* strategy table it reads: a route never has a Normal row beside the      *)
(* pair, a trade's lanes land as its caller was promised, and the answer   *)
(* says what the lanes and the chain say.  InstructionBuilders: a trade    *)
(* that lands costs and brings what it should, and no account is missing   *)
(* on the way.                                                             *)
(***************************************************************************)
EXTENDS TradeSubmission, InstructionBuilders, FiniteSetTheorems, WellFoundedInduction, TLAPS

\* The rows of a table: its keys and tips, and no Normal row beside one of the pair.
TableOK(table) ==
    /\ DOMAIN table \subseteq Key /\ \A k \in DOMAIN table : table[k] \in Nat
    /\ \A k \in DOMAIN table : \A c \in Conflicting(k[3]) : <<k[1], k[2], c>> \notin DOMAIN table

\* What a caller can be answered.
Codes == {0, 100, 101, 102, 103, 104, 105, 107, 108}
AnswerSet == [given : BOOLEAN, success : BOOLEAN, sigs : SUBSET Task, code : Codes]

\* The types of the submission state.
Types ==
    /\ TableOK(strategies) /\ edits \in 0..MaxEdits
    /\ req \in Requests
    /\ phase \in {"idle", "submitting", "polling", "fetching", "answered"}
    /\ lane \in [Task -> {"idle", "sending", "ok", "failed"}]
    /\ polls \in 0..MaxPolls /\ suspect \in Task
    /\ chain \in [Task -> {"unseen", "processed", "confirmed", "failed"}]
    /\ answer \in AnswerSet

\* Only expanded lanes are started, of a trade that may have them, and the chain
\* has only seen what was started.
Lanes ==
    /\ phase = "idle" => Sent = {}
    /\ Sent \subseteq Tasks /\ (Sent # {} => ~NeedsNonce)
    /\ Landed \subseteq Sent
    /\ req.nonce => \A j, k \in Landed : j = k

\* Where the submission is, and what its answer may say by then.
Progress ==
    /\ phase \notin {"idle", "submitting"} => Waits = {}
    /\ phase \in {"polling", "fetching"} => req.wait = "confirmed"
    /\ phase \in {"idle", "submitting"} => sigs = {}
    /\ phase = "fetching" => suspect \in sigs
    /\ sigs \subseteq Acked
    /\ phase # "answered" => answer = NoAnswer

\* The answer itself.
Honest ==
    /\ answer.success /\ ~req.simulate /\ req.wait = "confirmed" =>
           \E k \in answer.sigs : chain[k] = "confirmed"
    /\ answer.given /\ ~req.simulate /\ req.wait # "confirmed" =>
           /\ answer.success <=> Acked # {}
           /\ req.wait = "all" => answer.sigs = Acked

IInv == Types /\ Lanes /\ Progress /\ Honest

-----------------------------------------------------------------------------
(* The strategy table *)

\* Setting rows that do not conflict with each other keeps a table free of conflicts.
LEMMA WithRowsOK == ASSUME NEW table, NEW new, TableOK(table), TableOK(new)
                    PROVE TableOK(WithRows(table, new))
<1> DEFINE dropped == UNION {{<<k[1], k[2], c>> : c \in Conflicting(k[3])} : k \in DOMAIN new}
           kept == DOMAIN table \ dropped
           made == WithRows(table, new)
<1>1. made = [k \in kept \cup DOMAIN new |-> IF k \in DOMAIN new THEN new[k] ELSE table[k]]
  BY DEF WithRows
<1> HIDE DEF made, dropped
<1>2. DOMAIN made = kept \cup DOMAIN new
  BY <1>1
<1>3. DOMAIN made \subseteq Key
  BY <1>2 DEF TableOK
<1>4. ASSUME NEW k \in DOMAIN made PROVE made[k] \in Nat
  BY <1>1, <1>2, <1>4 DEF TableOK
<1>5. ASSUME NEW k \in DOMAIN made, NEW c \in Conflicting(k[3])
      PROVE <<k[1], k[2], c>> \notin DOMAIN made
  <2> DEFINE other == <<k[1], k[2], c>>
  <2>1. k \in Key /\ k = <<k[1], k[2], k[3]>> /\ k[3] \in Kinds
    BY <1>3 DEF Key
  <2>2. k[3] \in Conflicting(c)
    BY <2>1 DEF Conflicting, Kinds
  <2>3. CASE k \in DOMAIN new
    <3>1. other \in dropped
      BY <2>3 DEF dropped
    <3>2. other \notin DOMAIN new
      BY <2>3 DEF TableOK
    <3> QED BY <1>2, <3>1, <3>2
  <2>4. CASE k \in kept /\ k \notin DOMAIN new
    <3>1. other \notin DOMAIN table
      BY <2>4 DEF TableOK
    <3>2. ASSUME other \in DOMAIN new PROVE FALSE
      <4>1. <<other[1], other[2], k[3]>> \in dropped
        BY <2>2, <3>2 DEF dropped
      <4>2. <<other[1], other[2], k[3]>> = k
        BY <2>1
      <4> QED BY <2>4, <4>1, <4>2
    <3> QED BY <1>2, <3>1, <3>2
  <2> QED BY <1>2, <2>3, <2>4
<1>6. TableOK(made)
  BY <1>3, <1>4, <1>5 DEF TableOK
<1> QED BY <1>6 DEF made

\* A table that only loses rows keeps its shape.
LEMMA RestrictOK == ASSUME NEW table, TableOK(table), NEW S \in SUBSET DOMAIN table
                    PROVE TableOK(Restrict(table, S))
BY DEF TableOK, Restrict

\* Every edit of the table keeps it free of conflicts.
LEMMA EditsOK == ASSUME TableOK(strategies), edits \in 0..MaxEdits, NextGas
                 PROVE TableOK(strategies') /\ edits' \in 0..MaxEdits
<1> USE GasAssumption
<1>1. ASSUME NEW table, Edit(table), TableOK(table)
      PROVE TableOK(strategies') /\ edits' \in 0..MaxEdits
  BY <1>1 DEF Edit
<1>2. CASE SetRow
  <2>1. PICK k \in Key, tip \in Tips : Edit(WithRows(strategies, [j \in {k} |-> tip]))
    BY <1>2 DEF SetRow
  <2>2. \A j \in DOMAIN [j \in {k} |-> tip] : j = k /\ [i \in {k} |-> tip][j] = tip
    OBVIOUS
  <2>3. ASSUME NEW c \in Conflicting(k[3]) PROVE <<k[1], k[2], c>> # k
    BY <2>3 DEF Conflicting, Key, Kinds
  <2>4. TableOK([j \in {k} |-> tip])
    BY <2>2, <2>3 DEF TableOK
  <2> QED BY <1>1, <2>1, <2>4, WithRowsOK
<1>3. CASE SetGlobalFeeStrategy
  <2> DEFINE rows == Key \cap (RelayTypes \cup {"Default"}) \X Directions \X {"Normal"}
  <2>1. PICK tip \in [Directions -> Tips] :
          Edit(WithRows(strategies, [k \in rows |-> IF k[1] = "Default" THEN 0 ELSE tip[k[2]]]))
    BY <1>3 DEF SetGlobalFeeStrategy
  <2> DEFINE new == [k \in rows |-> IF k[1] = "Default" THEN 0 ELSE tip[k[2]]]
  <2>2. ASSUME NEW k \in rows
        PROVE new[k] \in Nat /\ \A c \in Conflicting(k[3]) : <<k[1], k[2], c>> \notin rows
    <3>1. k[2] \in Directions /\ k[3] = "Normal"
      BY <2>2
    <3>2. new[k] \in Nat
      BY <2>2, <3>1
    <3> QED BY <3>1, <3>2 DEF Conflicting
  <2>3. TableOK(new)
    BY <2>2 DEF TableOK
  <2> QED BY <1>1, <2>1, <2>3, WithRowsOK
<1>4. CASE SetHighLowFeeStrategies
  <2>1. PICK types \in SUBSET RelayTypes, d \in Directions, low \in Tips, high \in Tips :
          Edit(WithRows(strategies, [k \in types \X {d} \X (Kinds \ {"Normal"}) |->
                                        IF k[3] = "HighTipLowCuPrice" THEN high ELSE low]))
    BY <1>4 DEF SetHighLowFeeStrategies
  <2> DEFINE rows == types \X {d} \X (Kinds \ {"Normal"})
             new == [k \in rows |-> IF k[3] = "HighTipLowCuPrice" THEN high ELSE low]
  <2>2. ASSUME NEW k \in rows
        PROVE k \in Key /\ new[k] \in Nat /\ \A c \in Conflicting(k[3]) : <<k[1], k[2], c>> \notin rows
    <3>1. k[1] \in RelayTypes /\ k[2] = d /\ k[3] \in Kinds /\ k[3] # "Normal" /\ k = <<k[1], k[2], k[3]>>
      BY <2>2
    <3>2. k \in Key
      BY <3>1 DEF Key
    <3>3. new[k] \in Nat
      BY <2>2
    <3> QED BY <3>1, <3>2, <3>3 DEF Conflicting
  <2>3. TableOK(new)
    BY <2>2 DEF TableOK
  <2> QED BY <1>1, <2>1, <2>3, WithRowsOK
<1>5. CASE Delete
  BY <1>1, <1>5, RestrictOK DEF Delete
<1>6. CASE DeleteAll
  BY <1>1, <1>6, RestrictOK DEF DeleteAll
<1>7. CASE UpdateTip
  <2>1. PICK d \in Directions, tip \in Tips :
          Edit([k \in DOMAIN strategies |-> IF k[2] = d THEN tip ELSE strategies[k]])
    BY <1>7 DEF UpdateTip
  <2>2. TableOK([k \in DOMAIN strategies |-> IF k[2] = d THEN tip ELSE strategies[k]])
    BY DEF TableOK
  <2> QED BY <1>1, <2>1, <2>2
<1>8. CASE Clear
  <2>1. TableOK([k \in {} |-> 0])
    BY DEF TableOK
  <2> QED BY <1>1, <1>8, <2>1 DEF Clear
<1> QED BY <1>2, <1>3, <1>4, <1>5, <1>6, <1>7, <1>8 DEF NextGas

\* A table free of conflicts gives a route a Normal row or the pair.
LEMMA TableGivesGasTypeOK == ASSUME TableOK(strategies), edits \in 0..MaxEdits PROVE GasTypeOK
<1>1. ASSUME NEW t, NEW d, "Normal" \in RowsOf(t, d) PROVE RowsOf(t, d) = {"Normal"}
  <2>1. ASSUME NEW kind \in RowsOf(t, d), kind # "Normal" PROVE FALSE
    <3> DEFINE k == <<t, d, kind>>
    <3>1. k \in DOMAIN strategies /\ k[1] = t /\ k[2] = d /\ k[3] = kind /\ kind \in Kinds
      BY <2>1 DEF RowsOf
    <3>2. "Normal" \in Conflicting(kind)
      BY <2>1 DEF Conflicting
    <3>3. <<t, d, "Normal">> \in DOMAIN strategies
      BY <1>1 DEF RowsOf
    <3> QED BY <3>1, <3>2, <3>3 DEF TableOK
  <2> QED BY <1>1, <2>1
<1> QED BY <1>1 DEF GasTypeOK, TableOK

-----------------------------------------------------------------------------
(* Fee lanes *)

\* A pair has at most two elements.
LEMMA Pair == ASSUME NEW a, NEW b PROVE IsFiniteSet({a, b}) /\ Cardinality({a, b}) <= 2
<1>1. IsFiniteSet({a}) /\ Cardinality({a}) = 1 /\ {a, b} = {a} \cup {b}
  BY FS_Singleton
<1>2. IsFiniteSet({a} \cup {b}) /\ Cardinality({a} \cup {b}) <= 2
  BY <1>1, FS_AddElement
<1> QED BY <1>1, <1>2

\* There are finitely many tasks, and a trade's are among them.
LEMMA TaskFinite == IsFiniteSet(Task)
<1>1. IsFiniteSet(0..MaxRoutes)
  BY FS_Interval, RequestAssumption
<1>2. IsFiniteSet(Kinds \cup {"Flat"})
  <2>1. Kinds \cup {"Flat"} = {"Normal", "LowTipHighCuPrice"} \cup {"HighTipLowCuPrice", "Flat"}
    BY DEF Kinds
  <2>2. IsFiniteSet({"Normal", "LowTipHighCuPrice"}) /\ IsFiniteSet({"HighTipLowCuPrice", "Flat"})
    BY Pair
  <2> QED BY <2>1, <2>2, FS_Union
<1>3. Task = (0..MaxRoutes) \X (Kinds \cup {"Flat"})
  BY DEF Task
<1> QED BY <1>1, <1>2, <1>3, FS_Product

\* A request's tasks are tasks, and a route has at most two.
LEMMA TasksOfARequest ==
    ASSUME Types
    PROVE /\ Tasks \subseteq Task
          /\ \A i \in Routes : \E a, b \in Task : {k \in Tasks : k[1] = i} \subseteq {a, b}
<1>1. Routes \subseteq 1..MaxRoutes /\ 1..MaxRoutes \subseteq 0..MaxRoutes /\ 0 \in 0..MaxRoutes
  BY RequestAssumption DEF Types, Routes
<1>2. RpcTask \in Task
  BY <1>1 DEF RpcTask, Task
<1>3. ASSUME NEW i \in Routes
      PROVE \E a, b \in Task : /\ Expand(i) \subseteq {a, b}
                               /\ a[1] = i /\ b[1] = i
  <2> DEFINE T(kind) == <<i, kind>>
  <2>1. SUFFICES \E a, b \in Kinds \cup {"Flat"} : Expand(i) \subseteq {T(a), T(b)}
    <3>1. \A kind \in Kinds \cup {"Flat"} : T(kind) \in Task /\ T(kind)[1] = i
      BY <1>1 DEF Task
    <3> QED BY <3>1
  <2>2. CASE ~req.gas.rows
    <3>1. Expand(i) = {T("Flat")}
      BY <2>2 DEF Expand
    <3> QED BY <3>1
  <2>3. CASE req.gas.rows /\ RowsOfRoute(i) # {}
    <3>1. Expand(i) \subseteq {T(kind) : kind \in RowsOfRoute(i)}
      BY <2>3 DEF Expand
    <3>2. RowsOfRoute(i) \subseteq Kinds
      BY DEF RowsOfRoute, RowsOf
    <3>3. CASE "Normal" \notin RowsOfRoute(i)
      <4>1. Expand(i) \subseteq {T("LowTipHighCuPrice"), T("HighTipLowCuPrice")}
        BY <3>1, <3>2, <3>3 DEF Kinds
      <4> QED BY <4>1 DEF Kinds
    <3>4. CASE "Normal" \in RowsOfRoute(i)
      <4>1. ASSUME NEW kind \in RowsOfRoute(i) PROVE kind = "Normal"
        <5> DEFINE k == <<req.routes[i].type, req.direction, kind>>
        <5>1. k \in DOMAIN strategies /\ <<req.routes[i].type, req.direction, "Normal">> \in DOMAIN strategies
          BY <3>4, <4>1 DEF RowsOfRoute, RowsOf
        <5>2. k[3] = kind /\ k[1] = req.routes[i].type /\ k[2] = req.direction
          OBVIOUS
        <5>3. "Normal" \notin Conflicting(k[3])
          BY <5>1, <5>2 DEF Types, TableOK
        <5> QED BY <5>2, <5>3 DEF Conflicting
      <4>2. Expand(i) \subseteq {T("Normal")}
        BY <3>1, <4>1
      <4> QED BY <4>2 DEF Kinds
    <3> QED BY <3>3, <3>4
  <2>4. CASE req.gas.rows /\ RowsOfRoute(i) = {}
    <3>1. Expand(i) \subseteq {T("Normal")}
      BY <2>4 DEF Expand
    <3> QED BY <3>1 DEF Kinds
  <2> QED BY <2>2, <2>3, <2>4
<1>4. Effective \subseteq Routes
  BY DEF Effective, Tipped
<1>5. Tasks \subseteq Task
  BY <1>2, <1>3, <1>4 DEF Tasks
<1>6. ASSUME NEW i \in Routes
      PROVE \E a, b \in Task : {k \in Tasks : k[1] = i} \subseteq {a, b}
  <2>1. PICK a \in Task, b \in Task : Expand(i) \subseteq {a, b}
    BY <1>3
  <2>2. ASSUME NEW k \in Tasks, k[1] = i PROVE k \in Expand(i)
    <3>1. PICK j \in Effective : k \in Expand(j)
      BY <2>2 DEF Tasks
    <3>2. k[1] = j
      BY <1>3, <1>4, <3>1
    <3> QED BY <2>2, <3>1, <3>2
  <2> QED BY <2>1, <2>2
<1> QED BY <1>5, <1>6

\* The pieces of the inductive invariant say what the run checks.
LEMMA IInvGivesLandsOnce == ASSUME IInv PROVE LandsOnce
<1> SUFFICES ASSUME Cardinality(Landed) > 1
             PROVE ~req.nonce /\ Cardinality(Relays(Landed)) <= 1
  BY DEF LandsOnce
<1>1. ASSUME req.nonce PROVE FALSE
  <2>1. CASE Landed = {}
    BY <2>1, FS_EmptySet
  <2>2. CASE Landed # {}
    <3>1. PICK j \in Landed : Landed = {j}
      BY <1>1, <2>2 DEF IInv, Lanes
    <3>2. Cardinality({j}) = 1
      BY FS_Singleton
    <3> QED BY <3>1, <3>2
  <2> QED BY <2>1, <2>2
<1>2. Landed # {}
  BY FS_EmptySet
<1>3. ~(Cardinality(Relays(Tasks)) > 1)
  BY <1>1, <1>2 DEF IInv, Lanes, NeedsNonce
<1>4. IsFiniteSet(Relays(Tasks))
  <2>1. Relays(Tasks) \subseteq Task
    BY TasksOfARequest DEF IInv, Relays
  <2> QED BY <2>1, TaskFinite, FS_Subset
<1>5. Relays(Landed) \subseteq Relays(Tasks)
  BY DEF IInv, Lanes, Relays
<1>6. Cardinality(Relays(Landed)) <= Cardinality(Relays(Tasks))
  BY <1>4, <1>5, FS_Subset
<1>7. IsFiniteSet(Relays(Landed))
  BY <1>4, <1>5, FS_Subset
<1>8. Cardinality(Relays(Landed)) \in Nat /\ Cardinality(Relays(Tasks)) \in Nat
  BY <1>4, <1>7, FS_CardinalityType
<1> QED BY <1>1, <1>3, <1>6, <1>8

\* ... and what it checks of the types and the answer.
LEMMA IInvGivesHonest == ASSUME IInv PROVE SubmissionIsHonest
<1>1. GasTypeOK
  BY TableGivesGasTypeOK DEF IInv, Types
<1>2. ASSUME NEW i \in Routes PROVE Cardinality({k \in Sent : k[1] = i}) <= 2
  <2>1. PICK a \in Task, b \in Task : {k \in Tasks : k[1] = i} \subseteq {a, b}
    BY TasksOfARequest DEF IInv
  <2>2. {k \in Sent : k[1] = i} \subseteq {a, b}
    BY <2>1 DEF IInv, Lanes
  <2>3. IsFiniteSet({a, b}) /\ Cardinality({a, b}) <= 2
    BY Pair
  <2>4. Cardinality({k \in Sent : k[1] = i}) <= Cardinality({a, b}) /\ IsFiniteSet({k \in Sent : k[1] = i})
    BY <2>2, <2>3, FS_Subset
  <2>5. Cardinality({k \in Sent : k[1] = i}) \in Nat /\ Cardinality({a, b}) \in Nat
    BY <2>3, <2>4, FS_CardinalityType
  <2> QED BY <2>3, <2>4, <2>5
<1>3. TypeOK
  BY <1>1, <1>2 DEF IInv, Types, Lanes, Progress, TypeOK, AnswerSet, Codes
<1> QED BY <1>3 DEF IInv, Honest, SubmissionIsHonest

-----------------------------------------------------------------------------
(* The steps *)

\* What a trade is expanded into depends on the request and the table alone.
LEMMA SameTasks == ASSUME UNCHANGED <<req, strategies>>
                   PROVE Tasks' = Tasks /\ NeedsNonce' = NeedsNonce
<1>1. Tasks' = Tasks
  BY DEF Tasks, Effective, Expand, WithinLimit, TipOf, RowsOfRoute, RowsOf, Tipped, Checked,
         MeetsMinimum, IsRelay, Routes
<1>2. NeedsNonce' = NeedsNonce
  BY <1>1 DEF NeedsNonce, Relays, IsRelay, Routes
<1> QED BY <1>1, <1>2

\* A trade starts: with its lanes, or with an answer that names none.
LEMMA StartInv == ASSUME IInv, Refuse \/ Simulate \/ Submit PROVE IInv'
<1> USE DEF IInv
<1>1. phase = "idle" /\ Sent = {} /\ sigs = {} /\ Tasks \subseteq Task /\ Landed = {} /\ Acked = {}
  <2>1. phase = "idle"
    BY DEF Refuse, Simulate, Submit
  <2>2. Acked \subseteq Sent
    BY DEF Acked, Sent
  <2> QED BY <2>1, <2>2, TasksOfARequest DEF Lanes, Progress
<1>2. UNCHANGED <<gasVars, req, sigs, polls, suspect, chain>> /\ Landed' = Landed
  BY DEF Refuse, Simulate, Submit, Landed
<1>3. Tasks' = Tasks /\ NeedsNonce' = NeedsNonce
  BY <1>2, SameTasks DEF gasVars
<1>4. CASE Refuse \/ Simulate
  <2>1. lane' = lane /\ phase' = "answered" /\ Sent' = Sent /\ Waits' = Waits /\ Acked' = Acked
    BY <1>4 DEF Refuse, Simulate, Sent, Waits, Acked
  <2>2. answer' \in {Told(FALSE, {}, Refusal), Told(TRUE, {}, 0), Told(FALSE, {}, 101), Told(FALSE, {}, 100)}
    BY <1>4 DEF Refuse, Simulate
  <2>3. answer'.success => req.simulate
    BY <1>4 DEF Refuse, Simulate, Told
  <2>4. Refusal \in {102, 103, 104, 105}
    BY DEF Refusal
  <2>5. Types'
    <3>1. answer' \in AnswerSet
      <4>1. \A code \in Codes : Told(FALSE, {}, code) \in AnswerSet
        BY DEF Told, AnswerSet
      <4>2. Told(TRUE, {}, 0) \in AnswerSet
        BY DEF Told, AnswerSet, Codes
      <4>3. Refusal \in Codes /\ 100 \in Codes /\ 101 \in Codes
        BY <2>4 DEF Codes
      <4>4. /\ Told(FALSE, {}, Refusal) \in AnswerSet /\ Told(FALSE, {}, 100) \in AnswerSet
            /\ Told(FALSE, {}, 101) \in AnswerSet
        BY <4>1, <4>3
      <4> HIDE DEF Types, IInv
      <4> QED BY <2>2, <4>2, <4>4
    <3> QED BY <1>2, <2>1, <3>1 DEF Types, gasVars, TableOK
  <2>6. Lanes' /\ Progress'
    <3>1. Waits = {}
      BY <1>1 DEF Waits, Sent
    <3> QED BY <1>1, <1>2, <1>3, <2>1, <3>1 DEF Lanes, Progress
  <2>7. Honest'
    BY <1>1, <1>2, <2>1, <2>2, <2>3 DEF Honest, Told, Types
  <2> QED BY <2>5, <2>6, <2>7
<1>5. CASE Submit
  <2>1. /\ lane' = [k \in Task |-> IF k \in Tasks THEN "sending" ELSE "idle"]
        /\ phase' = "submitting" /\ answer' = answer
    BY <1>5 DEF Submit
  <2>2. Sent' = Tasks
    BY <1>1, <2>1 DEF Sent
  <2>3. ~NeedsNonce
    BY <1>5 DEF Submit
  <2>4. Types'
    BY <1>2, <2>1 DEF Types, gasVars, TableOK
  <2>5. Lanes' /\ Progress'
    BY <1>1, <1>2, <1>3, <2>1, <2>2, <2>3 DEF Lanes, Progress
  <2>6. Honest'
    BY <1>1, <2>1 DEF Honest, Progress, NoAnswer
  <2> QED BY <2>4, <2>5, <2>6
<1> QED BY <1>4, <1>5

\* A lane's end moves one wait to "ok" or "failed".
LEMMA LaneInv ==
    ASSUME IInv, NEW k \in Task, NEW how \in {"ok", "failed"}, LaneEnds(k, how) PROVE IInv'
<1> USE DEF IInv
<1>1. lane[k] = "sending" /\ lane' = [lane EXCEPT ![k] = how]
      /\ UNCHANGED <<gasVars, req, phase, sigs, polls, suspect, chain, answer>>
  BY DEF LaneEnds
<1>2. k \in Waits /\ phase = "submitting"
  <2>1. k \in Waits /\ k \in Sent
    BY <1>1 DEF Waits, Sent
  <2> QED BY <2>1 DEF Lanes, Progress, Types
<1>3. Tasks' = Tasks /\ NeedsNonce' = NeedsNonce
  BY <1>1, SameTasks DEF gasVars
<1>4. Sent' = Sent /\ Landed' = Landed /\ Acked \subseteq Acked'
  BY <1>1 DEF Sent, Landed, Acked, Types
<1>5. Types'
  BY <1>1 DEF Types, gasVars, TableOK
<1>6. Lanes'
  BY <1>1, <1>2, <1>3, <1>4 DEF Lanes
<1>7. Progress' /\ Honest'
  BY <1>1, <1>2, <1>4 DEF Progress, Honest, NoAnswer
<1> QED BY <1>5, <1>6, <1>7

\* The lanes are collected: nothing waits any more, and a caller that does not wait
\* for confirmation is answered what the lanes say.
LEMMA CollectInv == ASSUME IInv, Collect PROVE IInv'
<1> USE DEF IInv
<1>1. phase = "submitting" /\ lane' = Released
      /\ UNCHANGED <<gasVars, req, suspect, chain>> /\ sigs' \in Result
  BY DEF Collect
<1>2. Tasks' = Tasks /\ NeedsNonce' = NeedsNonce
  BY <1>1, SameTasks DEF gasVars
<1>3. Sent' = Sent /\ Landed' = Landed /\ Acked' = Acked /\ Waits' = {}
  BY <1>1 DEF Sent, Landed, Acked, Waits, Released, Types
<1>4. sigs' \subseteq Acked /\ (sigs' = {} => Acked = {}) /\ (req.wait = "all" => sigs' = Acked)
  BY <1>1 DEF Result
<1>5. \/ /\ sigs' = {} /\ phase' = "answered" /\ answer' = Told(FALSE, {}, 100) /\ polls' = polls
      \/ /\ sigs' # {} /\ req.wait = "confirmed" /\ phase' = "polling" /\ answer' = answer
         /\ polls' \in {0, 1}
      \/ /\ sigs' # {} /\ req.wait # "confirmed" /\ phase' = "answered"
         /\ answer' = Told(TRUE, sigs', 0) /\ polls' = polls
  BY DEF Collect
<1>6. Types'
  <2>1. lane' \in [Task -> {"idle", "sending", "ok", "failed"}]
    BY <1>1 DEF Released, Types
  <2>2. polls' \in 0..MaxPolls
    <3>1. MaxPolls \in Nat /\ 1 <= MaxPolls
      BY PollsAssumption
    <3>2. 0 \in 0..MaxPolls /\ 1 \in 0..MaxPolls
      BY <3>1
    <3> QED BY <1>5, <3>2 DEF Types
  <2>3. sigs' \in SUBSET Task
    BY <1>4 DEF Acked
  <2>4. answer' \in AnswerSet
    <3>1. Told(FALSE, {}, 100) \in AnswerSet
      BY DEF Told, AnswerSet, Codes
    <3>2. Told(TRUE, sigs', 0) \in AnswerSet
      BY <2>3 DEF Told, AnswerSet, Codes
    <3> QED BY <1>5, <3>1, <3>2 DEF Types
  <2> QED BY <1>1, <1>5, <2>1, <2>2, <2>4 DEF Types, gasVars, TableOK
<1>7. Lanes'
  BY <1>1, <1>2, <1>3, <1>5 DEF Lanes
<1>8. Progress'
  BY <1>1, <1>3, <1>4, <1>5 DEF Progress
<1>9. Honest'
  BY <1>1, <1>3, <1>4, <1>5 DEF Honest, Told, NoAnswer, Progress
<1> QED BY <1>6, <1>7, <1>8, <1>9

\* The confirmation polling: an answer, or another look.
LEMMA PollInv ==
    ASSUME IInv,
           \/ PollError \/ PollConfirmed \/ PollAgain \/ PollLanded \/ ConfirmTimeout
           \/ FetchUnknown \/ FetchConfirmed \/ FetchFailed
    PROVE IInv'
<1> USE DEF IInv
<1>1. phase \in {"polling", "fetching"} /\ UNCHANGED <<gasVars, req, lane, sigs, chain>>
  BY DEF PollError, PollConfirmed, PollAgain, PollLanded, ConfirmTimeout, FetchUnknown, FetchConfirmed,
         FetchFailed, Answers
<1>2. Tasks' = Tasks /\ NeedsNonce' = NeedsNonce
  BY <1>1, SameTasks DEF gasVars
<1>3. Sent' = Sent /\ Landed' = Landed /\ Acked' = Acked /\ Waits' = Waits
  BY <1>1 DEF Sent, Landed, Acked, Waits
<1>4. sigs \subseteq Task
  BY DEF Progress, Acked
<1>5. CASE \/ PollError \/ PollConfirmed \/ ConfirmTimeout \/ FetchConfirmed \/ FetchFailed
  <2>1. phase' = "answered" /\ UNCHANGED <<polls, suspect>>
    BY <1>5 DEF PollError, PollConfirmed, ConfirmTimeout, FetchConfirmed, FetchFailed, Answers
  <2>2. \/ answer' = Told(TRUE, sigs, 0) /\ \E k \in sigs : chain[k] = "confirmed"
        \/ answer' \in {Told(FALSE, {}, 100), Told(FALSE, {}, 107), Told(FALSE, {}, 108)}
    BY <1>5 DEF PollError, PollConfirmed, ConfirmTimeout, FetchConfirmed, FetchFailed, Answers,
                Confirmed, Progress
  <2>3. Types'
    <3>1. answer' \in AnswerSet
      <4>1. {Told(FALSE, {}, 100), Told(FALSE, {}, 107), Told(FALSE, {}, 108)} \subseteq AnswerSet
        BY DEF Told, AnswerSet, Codes
      <4>2. Told(TRUE, sigs, 0) \in AnswerSet
        BY <1>4 DEF Told, AnswerSet, Codes
      <4> QED BY <2>2, <4>1, <4>2
    <3> QED BY <1>1, <2>1, <3>1 DEF Types, gasVars, TableOK
  <2>4. Lanes' /\ Progress'
    BY <1>1, <1>2, <1>3, <2>1 DEF Lanes, Progress
  <2>5. Honest'
    BY <1>1, <2>2 DEF Honest, Told, Progress
  <2> QED BY <2>3, <2>4, <2>5
<1>6. CASE PollAgain \/ FetchUnknown
  <2>1. phase' = "polling" /\ polls < MaxPolls /\ polls' = polls + 1 /\ UNCHANGED <<suspect, answer>>
    BY <1>6 DEF PollAgain, FetchUnknown
  <2>2. Types'
    BY <1>1, <2>1, PollsAssumption DEF Types, gasVars, TableOK
  <2>3. Lanes' /\ Progress' /\ Honest'
    BY <1>1, <1>2, <1>3, <2>1 DEF Lanes, Progress, Honest, NoAnswer
  <2> QED BY <2>2, <2>3
<1>7. CASE PollLanded
  <2>1. phase' = "fetching" /\ suspect' \in sigs /\ UNCHANGED <<polls, answer>>
    BY <1>7 DEF PollLanded
  <2>2. Types'
    BY <1>1, <1>4, <2>1 DEF Types, gasVars, TableOK
  <2>3. Lanes' /\ Progress' /\ Honest'
    BY <1>1, <1>2, <1>3, <2>1 DEF Lanes, Progress, Honest, NoAnswer
  <2> QED BY <2>2, <2>3
<1> QED BY <1>5, <1>6, <1>7

\* The chain lands what was started, on one durable nonce a single transaction.
LEMMA ChainInv == ASSUME IInv, NEW k \in Task, Land(k) \/ ChainConfirms(k) PROVE IInv'
<1> USE DEF IInv
<1>1. UNCHANGED <<gasVars, req, phase, lane, sigs, polls, suspect, answer>>
  BY DEF Land, ChainConfirms
<1>2. Tasks' = Tasks /\ NeedsNonce' = NeedsNonce
  BY <1>1, SameTasks DEF gasVars
<1>3. Sent' = Sent /\ Acked' = Acked /\ Waits' = Waits
  BY <1>1 DEF Sent, Acked, Waits
<1>4. PICK to \in {"processed", "failed", "confirmed"} : chain' = [chain EXCEPT ![k] = to]
  BY DEF Land, ChainConfirms
<1>5. \A j \in Task : chain[j] = "confirmed" => chain'[j] = "confirmed"
  BY <1>4 DEF Types, Land, ChainConfirms, Landed
<1>6. Types'
  BY <1>1, <1>4 DEF Types, gasVars, TableOK
<1>7. Landed' = Landed \cup {k}
  BY <1>4 DEF Landed, Types
<1>8. k \in Sent /\ (req.nonce => \A i, j \in Landed \cup {k} : i = j)
  <2>1. CASE Land(k)
    BY <2>1 DEF Land, Lanes
  <2>2. CASE ChainConfirms(k)
    <3>1. k \in Landed
      BY <2>2 DEF ChainConfirms, Landed
    <3> QED BY <3>1 DEF Lanes
  <2> QED BY <2>1, <2>2
<1>9. Lanes' /\ Progress'
  BY <1>1, <1>2, <1>3, <1>7, <1>8 DEF Lanes, Progress
<1>10. Honest'
  <2>1. answer.sigs \subseteq Task
    BY DEF Types, AnswerSet
  <2> QED BY <1>1, <1>3, <1>5, <2>1 DEF Honest
<1> QED BY <1>6, <1>9, <1>10

\* The table is edited before the trade, and not during it.
LEMMA EditInv == ASSUME IInv, EditGas PROVE IInv'
<1> USE DEF IInv
<1>1. phase = "idle" /\ UNCHANGED tradeVars
  BY DEF EditGas
<1>2. Sent' = {} /\ Landed' = {} /\ Sent = {} /\ Acked' = Acked /\ Waits' = Waits
  BY <1>1 DEF Sent, Landed, Acked, Waits, tradeVars, Lanes
<1>3. TableOK(strategies') /\ edits' \in 0..MaxEdits
  BY EditsOK DEF EditGas, Types
<1>4. Types'
  BY <1>1, <1>3 DEF Types, tradeVars, TableOK
<1>5. Lanes' /\ Progress' /\ Honest'
  BY <1>1, <1>2 DEF Lanes, Progress, Honest, tradeVars
<1> QED BY <1>4, <1>5

\* Every step keeps the inductive invariant.
LEMMA StepInv == ASSUME IInv, [Next]_vars PROVE IInv'
<1>1. CASE EditGas
  BY <1>1, EditInv
<1>2. CASE Refuse \/ Simulate \/ Submit
  BY <1>2, StartInv
<1>3. CASE Collect
  BY <1>3, CollectInv
<1>4. ASSUME NEW k \in Task, LaneAcked(k) \/ LaneRejected(k) \/ LaneDeadline(k) PROVE IInv'
  BY <1>4, LaneInv DEF LaneAcked, LaneRejected, LaneDeadline
<1>5. CASE \/ PollError \/ PollConfirmed \/ PollAgain \/ PollLanded \/ ConfirmTimeout
           \/ FetchUnknown \/ FetchConfirmed \/ FetchFailed
  BY <1>5, PollInv
<1>6. ASSUME NEW k \in Task, Land(k) \/ ChainConfirms(k) PROVE IInv'
  BY <1>6, ChainInv
<1>7. CASE UNCHANGED vars
  <2>1. UNCHANGED <<strategies, edits, req, phase, lane, sigs, polls, suspect, chain, answer>>
    BY <1>7 DEF vars, tradeVars, gasVars
  <2>2. Tasks' = Tasks /\ NeedsNonce' = NeedsNonce
    BY <2>1, SameTasks
  <2>3. Sent' = Sent /\ Landed' = Landed /\ Acked' = Acked /\ Waits' = Waits
    BY <2>1 DEF Sent, Landed, Acked, Waits
  <2> QED BY <2>1, <2>2, <2>3 DEF IInv, Types, TableOK, Lanes, Progress, Honest, NoAnswer
<1> QED BY <1>1, <1>2, <1>3, <1>4, <1>5, <1>6, <1>7 DEF Next

\* A client starts with an empty table and nothing in flight.
LEMMA InitInv == Init => IInv
<1> SUFFICES ASSUME Init PROVE IInv
  OBVIOUS
<1>1. RpcTask \in Task /\ 0 \in 0..MaxPolls /\ 0 \in 0..MaxEdits
  BY RequestAssumption, PollsAssumption, GasAssumption DEF RpcTask, Task
<1>2. TableOK(strategies)
  BY DEF Init, InitGas, TableOK
<1>3. NoAnswer \in AnswerSet
  BY DEF NoAnswer, AnswerSet, Codes
<1>4. Types
  BY <1>1, <1>2, <1>3 DEF Init, InitGas, Types
<1>5. Sent = {} /\ Landed = {} /\ Waits = {} /\ Acked = {}
  BY DEF Init, Sent, Landed, Waits, Acked
<1>6. Lanes /\ Progress /\ Honest
  BY <1>5 DEF Init, Lanes, Progress, Honest, NoAnswer
<1> QED BY <1>4, <1>6 DEF IInv

\* The inductive invariant holds throughout every trade.
THEOREM SubmissionInvariant == Spec => []IInv
<1>1. IInv /\ [Next]_vars => IInv'
  BY StepInv
<1> QED BY InitInv, <1>1, PTL DEF Spec

\* Whatever is set, deleted and overwritten before a trade, a route has a Normal row
\* or the pair, never both (set() of src/common/gas-fee-strategy.ts).
THEOREM TableHasNoConflict == Spec => []GasTypeOK
<1>1. IInv => GasTypeOK
  BY TableGivesGasTypeOK DEF IInv, Types
<1> QED BY SubmissionInvariant, <1>1, PTL

\* Two transactions of one trade land only without a durable nonce, and then at most
\* one went through a relay (executeTransaction's refusal 104).
THEOREM TradeLandsOnce == Spec => []LandsOnce
<1> QED BY SubmissionInvariant, IInvGivesLandsOnce, PTL

\* The caller of executeTransaction is told what its lanes and the chain say.
THEOREM TradeIsAnsweredHonestly == Spec => []SubmissionIsHonest
<1> QED BY SubmissionInvariant, IInvGivesHonest, PTL

\* No wait of a lane outlives the submission (collectUntilFirstSuccess releases the
\* losing waits).
THEOREM NoWaitOutlives == Spec => [](phase \in {"polling", "fetching", "answered"} => Waits = {})
<1>1. IInv => (phase \in {"polling", "fetching", "answered"} => Waits = {})
  BY DEF IInv, Progress
<1> QED BY SubmissionInvariant, <1>1, PTL

-----------------------------------------------------------------------------
(* What a trade does to a wallet: the builders of InstructionBuilders.     *)
(* First the chain, which runs one instruction after the other.            *)

\* A nonempty set of numbers has a least one.
LEMMA NatWellFounded == ASSUME NEW T \in SUBSET Nat, T # {}
                        PROVE \E x \in T : \A y \in T : x <= y
<1> DEFINE Smaller == {ss \in Nat \X Nat : ss[1] < ss[2]}
<1>1. IsWellFoundedOn(Smaller, Nat)
  BY NatLessThanWellFounded, Zenon DEF OpToRel
<1> HIDE DEF Smaller
<1>2. PICK x \in T : \A y \in T : ~(<<y, x>> \in Smaller)
  BY <1>1, WFMin
<1>3. ASSUME NEW y \in T PROVE x <= y
  <2>1. x \in Nat /\ y \in Nat /\ <<y, x>> \notin Smaller
    BY <1>2
  <2>2. ~(y < x)
    BY <2>1 DEF Smaller
  <2> QED BY <2>1, <2>2
<1> QED BY <1>3

\* What holds of 0, and of a number if it holds of the one before it, holds up to n.
LEMMA UpTo ==
    ASSUME NEW n \in Nat, NEW S, 0 \in S, \A i \in 1..n : i - 1 \in S => i \in S
    PROVE  \A i \in 0..n : i \in S
<1> DEFINE T == {i \in 0..n : i \notin S}
<1>1. ASSUME T # {} PROVE FALSE
  <2>0. T \in SUBSET Nat
    OBVIOUS
  <2>1. PICK x \in T : \A y \in T : x <= y
    <3> HIDE DEF T
    <3> QED BY <1>1, <2>0, NatWellFounded
  <2>2. x # 0 /\ x - 1 \in 0..n /\ x \in 1..n
    BY <2>1
  <2>3. x - 1 \in S
    BY <2>1, <2>2
  <2> QED BY <2>1, <2>2, <2>3
<1> QED BY <1>1

\* A plan is a function on 1..n for an n, whatever its instructions are.
Plan(s) == Len(s) \in Nat /\ s = [i \in 1..Len(s) |-> s[i]]

\* The plans of one instruction and of none, and the parts of a concatenation.
LEMMA PlanIs ==
    /\ Plan(<<>>) /\ Len(<<>>) = 0 /\ \A i : Plan(<<i>>) /\ Len(<<i>>) = 1 /\ <<i>>[1] = i
    /\ \A s, t : Plan(s) /\ Plan(t) =>
           /\ Plan(s \o t) /\ Len(s \o t) = Len(s) + Len(t)
           /\ \A i \in 1..Len(s) : (s \o t)[i] = s[i]
           /\ \A i \in 1..Len(t) : (s \o t)[Len(s) + i] = t[i]
<1>1. ASSUME NEW V, NEW s \in Seq(V) PROVE Plan(s)
  <2>1. Len(s) \in Nat /\ DOMAIN s = 1..Len(s) /\ s = [i \in DOMAIN s |-> s[i]]
    OBVIOUS
  <2> QED BY <2>1 DEF Plan
<1>2. <<>> \in Seq({}) /\ Len(<<>>) = 0 /\ \A i : <<i>> \in Seq({i}) /\ Len(<<i>>) = 1 /\ <<i>>[1] = i
  OBVIOUS
<1>3. ASSUME NEW s, NEW t, Plan(s), Plan(t)
      PROVE  /\ Plan(s \o t) /\ Len(s \o t) = Len(s) + Len(t)
             /\ \A i \in 1..Len(s) : (s \o t)[i] = s[i]
             /\ \A i \in 1..Len(t) : (s \o t)[Len(s) + i] = t[i]
  <2> DEFINE V == {s[i] : i \in 1..Len(s)} \cup {t[i] : i \in 1..Len(t)}
  <2>1. s \in Seq(V) /\ t \in Seq(V)
    BY <1>3 DEF Plan
  <2> HIDE DEF V
  <2>2. s \o t \in Seq(V) /\ Len(s \o t) = Len(s) + Len(t)
    BY <2>1
  <2>3. Plan(s \o t)
    BY <1>1, <2>2
  <2> QED BY <2>1, <2>2, <2>3
<1>4. Plan(<<>>) /\ \A i : Plan(<<i>>)
  BY <1>1, <1>2
<1> QED BY <1>2, <1>3, <1>4

\* One instruction of a transaction that has not failed.
Step(i, w) == IF w.ok THEN Run(i, w) ELSE {w}

\* What a wallet may be after each instruction of a plan.
RunsAs(w, plan, after) ==
    /\ after[0] = {w} /\ Outcomes(w, plan) = after[Len(plan)]
    /\ \A i \in 1..Len(plan) : after[i] = UNION {Step(plan[i], v) : v \in after[i - 1]}

\* The chain runs one instruction after the other.
LEMMA OutcomesAre ==
    ASSUME NEW w, NEW plan, Plan(plan)
    PROVE  \E after : RunsAs(w, plan, after)
<1> DEFINE n == Len(plan)
           Then(f, i) == IF i = 0 THEN {w}
                         ELSE UNION {IF v.ok THEN Run(plan[i], v) ELSE {v} : v \in f[i - 1]}
           Is(f, m) == f = [i \in 0..m |-> Then(f, i)]
           Defined == {m \in 0..n : \E f : Is(f, m)}
           after == CHOOSE f : Is(f, n)
<1>0. n \in Nat
  BY DEF Plan
<1>1. 0 \in Defined
  <2>1. Is([i \in 0..0 |-> {w}], 0)
    OBVIOUS
  <2> HIDE DEF Is, n
  <2> QED BY <1>0, <2>1
<1>2. ASSUME NEW m \in 1..n, m - 1 \in Defined PROVE m \in Defined
  <2> HIDE DEF n
  <2>1. PICK f : Is(f, m - 1)
    BY <1>2
  <2> DEFINE g == [i \in 0..m |-> IF i = m THEN Then(f, m) ELSE f[i]]
  <2>2. (\A i \in 0..(m - 1) : g[i] = f[i]) /\ g[m] = Then(f, m)
    BY <1>0
  <2>3. \A i \in 0..m : g[i] = Then(g, i)
    <3> SUFFICES ASSUME NEW i \in 0..m PROVE g[i] = Then(g, i)
      OBVIOUS
    <3>1. CASE i = m
      <4>1. i # 0 /\ i - 1 = m - 1 /\ g[i - 1] = f[m - 1] /\ g[i] = Then(f, m)
        BY <3>1, <2>2, <1>0
      <4> HIDE DEF g
      <4> QED BY <4>1, <3>1
    <3>2. CASE i # m
      <4>1. i \in 0..(m - 1) /\ g[i] = f[i] /\ (i # 0 => g[i - 1] = f[i - 1])
        BY <3>2, <2>2, <1>0
      <4> HIDE DEF g
      <4> QED BY <4>1, <2>1
    <3> QED BY <3>1, <3>2
  <2>4. g = [i \in 0..m |-> g[i]]
    OBVIOUS
  <2>5. Is(g, m)
    <3> HIDE DEF g, Then
    <3> QED BY <2>3, <2>4
  <2> HIDE DEF Is, g
  <2> QED BY <2>5, <1>0
<1>3. n \in Defined
  <2>1. n \in Nat
    BY <1>0
  <2> HIDE DEF Defined, n
  <2>2. \A i \in 0..n : i \in Defined
    BY <1>1, <1>2, <2>1, UpTo
  <2> QED BY <2>1, <2>2
<1>4. Is(after, n)
  <2>1. \E f : Is(f, n)
    BY <1>3
  <2> HIDE DEF Is
  <2> QED BY <2>1
<1>5. Outcomes(w, plan) = after[n]
  BY DEF Outcomes
<1> HIDE DEF after, n
<1>6. after[0] = {w}
  BY <1>0, <1>4
<1>7. ASSUME NEW i \in 1..n
      PROVE  after[i] = UNION {Step(plan[i], v) : v \in after[i - 1]}
  <2>1. i # 0 /\ i \in 0..n
    BY <1>0
  <2>2. after[i] = Then(after, i)
    <3> HIDE DEF Then
    <3> QED BY <1>4, <2>1
  <2> QED BY <2>1, <2>2 DEF Step
<1> QED BY <1>5, <1>6, <1>7 DEF n, RunsAs

\* An instruction takes every wallet of A to one of B, and so does a plan.
Turns(A, i, B) == \A w \in A : Step(i, w) \subseteq B
Leads(A, s, B) ==
    /\ Plan(s)
    /\ \E F : /\ A \subseteq F[0] /\ F[Len(s)] \subseteq B
              /\ \A i \in 1..Len(s) : Turns(F[i - 1], s[i], F[i])

\* A single instruction.
LEMMA LeadsOne == ASSUME NEW A, NEW B, NEW i, Turns(A, i, B) PROVE Leads(A, <<i>>, B)
<1> DEFINE F == [j \in 0..1 |-> IF j = 0 THEN A ELSE B]  s == <<i>>
<1>1. Plan(s) /\ Len(s) = 1 /\ s[1] = i
  BY PlanIs
<1>2. F[0] = A /\ F[1] = B
  OBVIOUS
<1> HIDE DEF F, s
<1>3. \A j \in 1..1 : Turns(F[j - 1], s[j], F[j])
  <2>1. \A j \in 1..1 : j = 1 /\ j - 1 = 0
    OBVIOUS
  <2> QED BY <1>1, <1>2, <2>1
<1>4. Leads(A, s, B)
  BY <1>1, <1>2, <1>3 DEF Leads
<1> QED BY <1>4 DEF s

\* No instruction.
LEMMA LeadsNone == ASSUME NEW A, NEW B, A \subseteq B PROVE Leads(A, <<>>, B)
<1> DEFINE F == [j \in 0..0 |-> A]  s == <<>>
<1>1. Plan(s) /\ Len(s) = 0
  BY PlanIs
<1>2. F[0] = A
  OBVIOUS
<1> HIDE DEF F, s
<1>3. Leads(A, s, B)
  BY <1>1, <1>2 DEF Leads
<1> QED BY <1>3 DEF s

\* Wallets of which less is known at the end, or more at the start.
LEMMA LeadsLess ==
    ASSUME NEW A, NEW B, NEW C, NEW D, NEW s, Leads(A, s, B), C \subseteq A, B \subseteq D
    PROVE  Leads(C, s, D)
<1>1. PICK F : /\ A \subseteq F[0] /\ F[Len(s)] \subseteq B
               /\ \A i \in 1..Len(s) : Turns(F[i - 1], s[i], F[i])
  BY DEF Leads
<1>2. Plan(s) /\ C \subseteq F[0] /\ F[Len(s)] \subseteq D
  BY <1>1 DEF Leads
<1> QED BY <1>1, <1>2 DEF Leads

\* Plans one after the other.
LEMMA LeadsOn ==
    ASSUME NEW A, NEW B, NEW C, NEW s, NEW t, Leads(A, s, B), Leads(B, t, C)
    PROVE  Leads(A, s \o t, C)
<1> DEFINE m == Len(s)  n == Len(t)  u == s \o t
<1>1. Plan(s) /\ Plan(t) /\ m \in Nat /\ n \in Nat
  BY DEF Leads, Plan
<1>2. /\ Plan(u) /\ Len(u) = m + n /\ \A i \in 1..m : u[i] = s[i]
      /\ \A i \in 1..n : u[m + i] = t[i]
  BY <1>1, PlanIs
<1>3. PICK F : A \subseteq F[0] /\ F[m] \subseteq B /\ \A i \in 1..m : Turns(F[i - 1], s[i], F[i])
  BY DEF Leads
<1>4. PICK G : B \subseteq G[0] /\ G[n] \subseteq C /\ \A i \in 1..n : Turns(G[i - 1], t[i], G[i])
  BY DEF Leads
<1> HIDE DEF m, n, u
<1> DEFINE H == [i \in 0..(m + n) |-> IF i <= m THEN F[i] ELSE G[i - m]]
<1>5. /\ \A i \in 0..m : i \in 0..(m + n) /\ H[i] = F[i]
      /\ \A i \in 1..n : m + i \in 0..(m + n) /\ H[m + i] = G[i]
  <2>1. \A i \in 0..m : i \in 0..(m + n) /\ H[i] = F[i]
    BY <1>1
  <2>2. ASSUME NEW i \in 1..n PROVE m + i \in 0..(m + n) /\ H[m + i] = G[i]
    <3>1. m + i \in 0..(m + n) /\ (m + i) - m = i /\ ~(m + i <= m)
      BY <1>1
    <3> QED BY <3>1
  <2> QED BY <2>1, <2>2
<1> HIDE DEF H
<1>6. F[m] \subseteq G[0]
  BY <1>3, <1>4
<1>7. A \subseteq H[0] /\ H[m + n] \subseteq C
  <2>1. 0 \in 0..m /\ m \in 0..m
    BY <1>1
  <2>2. CASE n = 0
    <3>1. m + n = m
      BY <1>1, <2>2
    <3> QED BY <1>3, <1>4, <1>5, <1>6, <2>1, <2>2, <3>1
  <2>3. CASE n # 0
    <3>1. n \in 1..n
      BY <1>1, <2>3
    <3> QED BY <1>3, <1>4, <1>5, <2>1, <3>1
  <2> QED BY <2>2, <2>3
<1>8. ASSUME NEW i \in 1..(m + n) PROVE Turns(H[i - 1], u[i], H[i])
  <2>1. CASE i \in 1..m
    <3>1. i - 1 \in 0..m /\ i \in 0..m
      BY <1>1, <2>1
    <3>2. H[i - 1] = F[i - 1] /\ H[i] = F[i] /\ u[i] = s[i]
      BY <1>2, <1>5, <2>1, <3>1
    <3> QED BY <1>3, <2>1, <3>2
  <2>2. CASE i \notin 1..m
    <3> DEFINE j == i - m
    <3>1. j \in 1..n /\ m + j = i /\ j - 1 \in 0..n
      BY <1>1, <2>2
    <3>2. Turns(G[j - 1], t[j], G[j])
      BY <1>4, <3>1
    <3>3. CASE j = 1
      <4>1. i - 1 = m /\ m \in 0..m /\ j - 1 = 0
        BY <1>1, <3>3
      <4> HIDE DEF j
      <4>2. H[i - 1] = F[m] /\ H[i] = G[j] /\ u[i] = t[j]
        BY <1>2, <1>5, <3>1, <4>1
      <4> QED BY <1>6, <3>2, <4>1, <4>2 DEF Turns
    <3>4. CASE j # 1
      <4>1. j - 1 \in 1..n /\ m + (j - 1) = i - 1
        BY <1>1, <3>1, <3>4
      <4> HIDE DEF j
      <4>2. H[i - 1] = G[j - 1] /\ H[i] = G[j] /\ u[i] = t[j]
        BY <1>2, <1>5, <3>1, <4>1
      <4> QED BY <3>2, <4>2
    <3> QED BY <3>3, <3>4
  <2> QED BY <2>1, <2>2
<1>9. Leads(A, u, C)
  BY <1>2, <1>7, <1>8 DEF Leads
<1> QED BY <1>9 DEF u

\* Where the chain ends.
LEMMA LeadsEnd ==
    ASSUME NEW A, NEW B, NEW s, Leads(A, s, B), NEW w \in A
    PROVE  Outcomes(w, s) \subseteq B
<1>1. PICK F : A \subseteq F[0] /\ F[Len(s)] \subseteq B /\ \A i \in 1..Len(s) : Turns(F[i - 1], s[i], F[i])
  BY DEF Leads
<1>2. Plan(s) /\ Len(s) \in Nat
  BY DEF Leads, Plan
<1>3. PICK after : RunsAs(w, s, after)
  BY <1>2, OutcomesAre
<1>4. /\ after[0] = {w} /\ Outcomes(w, s) = after[Len(s)]
      /\ \A i \in 1..Len(s) : after[i] = UNION {Step(s[i], v) : v \in after[i - 1]}
  BY <1>3 DEF RunsAs
<1> DEFINE Good == {i \in 0..Len(s) : after[i] \subseteq F[i]}
<1>5. 0 \in Good
  BY <1>1, <1>2, <1>4
<1>6. ASSUME NEW i \in 1..Len(s), i - 1 \in Good PROVE i \in Good
  <2>1. i \in 0..Len(s)
    BY <1>2
  <2>2. ASSUME NEW v \in after[i] PROVE v \in F[i]
    <3>1. PICK u \in after[i - 1] : v \in Step(s[i], u)
      BY <1>4, <2>2
    <3>2. u \in F[i - 1]
      BY <1>6
    <3> QED BY <1>1, <3>1, <3>2 DEF Turns
  <2> QED BY <2>1, <2>2
<1>7. Len(s) \in Good
  <2>1. Len(s) \in Nat
    BY <1>2
  <2> HIDE DEF Good
  <2>2. \A i \in 0..Len(s) : i \in Good
    BY <1>5, <1>6, <2>1, UpTo
  <2> QED BY <2>1, <2>2
<1> QED BY <1>1, <1>7, <1>4

-----------------------------------------------------------------------------
(* What one instruction does to a wallet.                                  *)

Places == Mints \cup {"SOL"}
Quiet(i) ==
    /\ i.op \in {"create", "fund", "close"}
    /\ i.op \in {"create", "close"} => i.mint \in Mints
    /\ i.op = "fund" => i.amount \in Nat
IsSwap(i) ==
    /\ i.op = "swap" /\ i.from \in Places /\ i.to \in Places /\ i.from # i.to
    /\ i.in \in Nat /\ i.out \in Nat
Typed(i) ==
    \/ Quiet(i) \/ IsSwap(i) \/ i.op = "move"
    \/ i.op = "claim" /\ i.mint \in Places

\* A wallet that a credit or a debit leaves with some amount n in one account.
LEMMA AddIs ==
    ASSUME NEW w, IsWallet(w), NEW a \in Places, Has(w, a), NEW n \in Int, Balance(w, a) + n >= 0
    PROVE  LET v == Add(w, a, n)
           IN  /\ IsWallet(v) /\ v.ok = w.ok /\ DOMAIN v.acct = DOMAIN w.acct
               /\ v.sol = IF a = "SOL" THEN w.sol + n ELSE w.sol
               /\ \A m \in DOMAIN w.acct : v.acct[m] = IF m = a THEN w.acct[m] + n ELSE w.acct[m]
<1> DEFINE v == Add(w, a, n)
<1>0. /\ w = [ok |-> w.ok, sol |-> w.sol, acct |-> w.acct] /\ w.ok \in BOOLEAN /\ w.sol \in Nat
      /\ DOMAIN w.acct \subseteq Mints /\ w.acct \in [DOMAIN w.acct -> Nat]
  BY DEF IsWallet
<1>1. CASE a = "SOL"
  <2>1. v = [ok |-> w.ok, sol |-> w.sol + n, acct |-> w.acct]
    BY <1>0, <1>1 DEF Add
  <2>2. w.sol + n \in Nat
    BY <1>0, <1>1 DEF Balance
  <2>3. "SOL" \notin DOMAIN w.acct
    BY <1>0 DEF Mints
  <2> HIDE DEF v
  <2>4. IsWallet(v)
    BY <1>0, <2>1, <2>2 DEF IsWallet
  <2> QED BY <1>0, <1>1, <2>1, <2>3, <2>4 DEF v
<1>2. CASE a # "SOL"
  <2> DEFINE f == [w.acct EXCEPT ![a] = @ + n]
  <2>1. v = [ok |-> w.ok, sol |-> w.sol, acct |-> f]
    BY <1>0, <1>2 DEF Add
  <2>2. a \in DOMAIN w.acct /\ w.acct[a] + n \in Nat
    BY <1>0, <1>2 DEF Balance, Has
  <2>3. /\ f \in [DOMAIN w.acct -> Nat] /\ DOMAIN f = DOMAIN w.acct
        /\ \A m \in DOMAIN w.acct : f[m] = IF m = a THEN w.acct[m] + n ELSE w.acct[m]
    BY <1>0, <2>2
  <2> HIDE DEF f, v
  <2>4. v.ok = w.ok /\ v.sol = w.sol /\ v.acct = f /\ v = [ok |-> v.ok, sol |-> v.sol, acct |-> v.acct]
    BY <2>1
  <2>5. IsWallet(v)
    BY <1>0, <2>3, <2>4 DEF IsWallet
  <2> QED BY <1>2, <2>3, <2>4, <2>5 DEF v
<1> QED BY <1>1, <1>2

\* What is taken from one account and what is put in another.
LEMMA Moved ==
    ASSUME NEW w, IsWallet(w), NEW a \in Places, NEW b \in Places, a # b, NEW k \in Nat, NEW j \in Nat,
           Holds(w, a, k), Has(w, b)
    PROVE  LET v == Add(Add(w, a, -k), b, j)
           IN  /\ IsWallet(v) /\ v.ok = w.ok /\ DOMAIN v.acct = DOMAIN w.acct
               /\ v.sol = IF a = "SOL" THEN w.sol - k ELSE IF b = "SOL" THEN w.sol + j ELSE w.sol
               /\ \A m \in DOMAIN w.acct :
                     v.acct[m] = IF m = a THEN w.acct[m] - k ELSE IF m = b THEN w.acct[m] + j ELSE w.acct[m]
<1> DEFINE n == -k  u == Add(w, a, n)  v == Add(u, b, j)
<1>0. /\ w.sol \in Nat /\ DOMAIN w.acct \subseteq Mints /\ \A m \in DOMAIN w.acct : w.acct[m] \in Nat
  BY DEF IsWallet
<1>1. n \in Int /\ Has(w, a) /\ Balance(w, a) + n >= 0 /\ n = -k
  <2>1. Balance(w, a) \in Nat /\ Has(w, a) /\ Balance(w, a) >= k
    BY <1>0 DEF Holds, Has, Balance, Places
  <2> QED BY <2>1
<1> HIDE DEF n
<1>2. /\ IsWallet(u) /\ u.ok = w.ok /\ DOMAIN u.acct = DOMAIN w.acct
      /\ u.sol = IF a = "SOL" THEN w.sol + n ELSE w.sol
      /\ \A m \in DOMAIN w.acct : u.acct[m] = IF m = a THEN w.acct[m] + n ELSE w.acct[m]
  BY <1>1, AddIs
<1> HIDE DEF u
<1>3. j \in Int /\ Has(u, b) /\ Balance(u, b) + j >= 0
  <2>1. /\ u.sol \in Nat /\ \A m \in DOMAIN u.acct : u.acct[m] \in Nat
    BY <1>2 DEF IsWallet
  <2>2. Has(u, b)
    BY <1>2 DEF Has
  <2>3. Balance(u, b) \in Nat
    BY <2>1, <2>2 DEF Has, Balance
  <2> QED BY <2>2, <2>3
<1>4. /\ IsWallet(v) /\ v.ok = u.ok /\ DOMAIN v.acct = DOMAIN u.acct
      /\ v.sol = IF b = "SOL" THEN u.sol + j ELSE u.sol
      /\ \A m \in DOMAIN u.acct : v.acct[m] = IF m = b THEN u.acct[m] + j ELSE u.acct[m]
  BY <1>2, <1>3, AddIs
<1> HIDE DEF v
<1>5. v.sol = IF a = "SOL" THEN w.sol - k ELSE IF b = "SOL" THEN w.sol + j ELSE w.sol
  BY <1>0, <1>1, <1>2, <1>4
<1>6. ASSUME NEW m \in DOMAIN w.acct
      PROVE  v.acct[m] = IF m = a THEN w.acct[m] - k ELSE IF m = b THEN w.acct[m] + j ELSE w.acct[m]
  <2>1. w.acct[m] \in Nat /\ u.acct[m] = IF m = a THEN w.acct[m] + n ELSE w.acct[m]
    BY <1>0, <1>2
  <2>2. v.acct[m] = IF m = b THEN u.acct[m] + j ELSE u.acct[m]
    BY <1>2, <1>4
  <2> QED BY <1>1, <2>1, <2>2
<1> QED BY <1>2, <1>4, <1>5, <1>6 DEF u, v, n

\* A failed transaction has a wallet too.
LEMMA FailedIs == ASSUME NEW w, IsWallet(w), NEW v \in Failed(w) PROVE IsWallet(v) /\ ~v.ok
<1>1. v = [ok |-> FALSE, sol |-> w.sol, acct |-> w.acct]
  BY DEF Failed, IsWallet
<1> QED BY <1>1 DEF IsWallet

\* Creating an account, which has nothing in it.
LEMMA CreateRuns ==
    ASSUME NEW w, IsWallet(w), NEW i, i.op = "create", i.mint \in Mints, NEW v \in Run(i, w)
    PROVE  /\ IsWallet(v)
           /\ v.ok => /\ v.ok = w.ok /\ v.sol = w.sol
                      /\ DOMAIN v.acct = DOMAIN w.acct \cup {i.mint}
                      /\ \A m \in DOMAIN v.acct : v.acct[m] = IF m \in DOMAIN w.acct THEN w.acct[m] ELSE 0
           /\ i.idempotent /\ w.ok => v.ok
<1>0. /\ w = [ok |-> w.ok, sol |-> w.sol, acct |-> w.acct] /\ w.ok \in BOOLEAN /\ w.sol \in Nat
      /\ DOMAIN w.acct \subseteq Mints /\ w.acct \in [DOMAIN w.acct -> Nat]
  BY DEF IsWallet
<1>1. v \in IF Has(w, i.mint) THEN IF i.idempotent THEN {w} ELSE Failed(w)
            ELSE {[w EXCEPT !.acct = [m \in DOMAIN w.acct \cup {i.mint} |-> IF m = i.mint THEN 0 ELSE w.acct[m]]]}
  BY DEF Run
<1>2. Has(w, i.mint) <=> i.mint \in DOMAIN w.acct
  BY DEF Has, Mints
<1>3. CASE ~Has(w, i.mint)
  <2> DEFINE f == [m \in DOMAIN w.acct \cup {i.mint} |-> IF m = i.mint THEN 0 ELSE w.acct[m]]
  <2>1. v = [ok |-> w.ok, sol |-> w.sol, acct |-> f]
    BY <1>0, <1>1, <1>3
  <2>2. /\ DOMAIN f = DOMAIN w.acct \cup {i.mint}
        /\ \A m \in DOMAIN f : f[m] = IF m \in DOMAIN w.acct THEN w.acct[m] ELSE 0
        /\ f \in [DOMAIN f -> Nat]
    BY <1>0, <1>2, <1>3
  <2> HIDE DEF f
  <2>3. v.ok = w.ok /\ v.sol = w.sol /\ v.acct = f /\ v = [ok |-> v.ok, sol |-> v.sol, acct |-> v.acct]
    BY <2>1
  <2>4. IsWallet(v)
    BY <1>0, <2>2, <2>3 DEF IsWallet
  <2> QED BY <2>2, <2>3, <2>4
<1>4. CASE Has(w, i.mint) /\ i.idempotent
  BY <1>0, <1>1, <1>2, <1>4
<1>5. CASE Has(w, i.mint) /\ ~i.idempotent
  BY <1>1, <1>5, FailedIs
<1> QED BY <1>3, <1>4, <1>5

\* Wrapping lamports.
LEMMA FundRuns ==
    ASSUME NEW w, IsWallet(w), NEW i, i.op = "fund", i.amount \in Nat, NEW v \in Run(i, w)
    PROVE  /\ IsWallet(v)
           /\ v.ok => /\ v.ok = w.ok /\ v.sol = w.sol - i.amount /\ DOMAIN v.acct = DOMAIN w.acct
                      /\ \A m \in DOMAIN w.acct :
                            v.acct[m] = IF m = "WSOL" THEN w.acct[m] + i.amount ELSE w.acct[m]
           /\ w.ok /\ Has(w, "WSOL") /\ w.sol >= i.amount => v.ok
<1>1. CASE Has(w, "WSOL") /\ w.sol >= i.amount
  <2>1. v = Add(Add(w, "SOL", -i.amount), "WSOL", i.amount)
    BY <1>1 DEF Run
  <2>2. /\ "SOL" \in Places /\ "WSOL" \in Places /\ "SOL" # "WSOL" /\ Holds(w, "SOL", i.amount)
    BY <1>1 DEF Places, Mints, Holds, Has, Balance
  <2>3. "SOL" \notin DOMAIN w.acct
    BY DEF IsWallet, Mints
  <2> DEFINE k == i.amount
  <2>4. k \in Nat
    OBVIOUS
  <2> HIDE DEF k
  <2>5. LET u == Add(Add(w, "SOL", -k), "WSOL", k)
        IN  /\ IsWallet(u) /\ u.ok = w.ok /\ DOMAIN u.acct = DOMAIN w.acct
            /\ u.sol = w.sol - k
            /\ \A m \in DOMAIN w.acct :
                  u.acct[m] = IF m = "SOL" THEN w.acct[m] - k ELSE IF m = "WSOL" THEN w.acct[m] + k ELSE w.acct[m]
    BY <1>1, <2>2, <2>4, Moved DEF k
  <2> QED BY <1>1, <2>1, <2>3, <2>5 DEF k
<1>2. CASE ~(Has(w, "WSOL") /\ w.sol >= i.amount)
  <2>1. v \in Failed(w)
    BY <1>2 DEF Run
  <2> QED BY <1>2, <2>1, FailedIs
<1> QED BY <1>1, <1>2

\* Closing an account, whose lamports come back.
LEMMA CloseRuns ==
    ASSUME NEW w, IsWallet(w), NEW i, i.op = "close", i.mint \in Mints, NEW v \in Run(i, w)
    PROVE  /\ IsWallet(v)
           /\ v.ok => /\ v.ok = w.ok /\ i.mint \in DOMAIN w.acct
                      /\ i.mint = "WSOL" \/ w.acct[i.mint] = 0
                      /\ v.sol = w.sol + w.acct[i.mint]
                      /\ DOMAIN v.acct = DOMAIN w.acct \ {i.mint}
                      /\ \A m \in DOMAIN v.acct : v.acct[m] = w.acct[m]
           /\ w.ok /\ Has(w, i.mint) /\ (i.mint = "WSOL" \/ w.acct[i.mint] = 0) => v.ok
<1>0. /\ w = [ok |-> w.ok, sol |-> w.sol, acct |-> w.acct] /\ w.ok \in BOOLEAN /\ w.sol \in Nat
      /\ DOMAIN w.acct \subseteq Mints /\ w.acct \in [DOMAIN w.acct -> Nat]
  BY DEF IsWallet
<1>1. Has(w, i.mint) <=> i.mint \in DOMAIN w.acct
  BY DEF Has, Mints
<1>2. CASE Has(w, i.mint) /\ (i.mint = "WSOL" \/ w.acct[i.mint] = 0)
  <2> DEFINE f == [m \in DOMAIN w.acct \ {i.mint} |-> w.acct[m]]
  <2>1. v = [ok |-> w.ok, sol |-> w.sol + w.acct[i.mint], acct |-> f]
    BY <1>0, <1>2 DEF Run
  <2>2. /\ DOMAIN f = DOMAIN w.acct \ {i.mint} /\ f \in [DOMAIN f -> Nat]
        /\ \A m \in DOMAIN f : f[m] = w.acct[m]
    BY <1>0
  <2> HIDE DEF f
  <2>3. /\ v.ok = w.ok /\ v.sol = w.sol + w.acct[i.mint] /\ v.acct = f
        /\ v = [ok |-> v.ok, sol |-> v.sol, acct |-> v.acct]
    BY <2>1
  <2>4. w.sol + w.acct[i.mint] \in Nat
    BY <1>0, <1>1, <1>2
  <2>5. IsWallet(v)
    BY <1>0, <2>2, <2>3, <2>4 DEF IsWallet
  <2> QED BY <1>1, <1>2, <2>2, <2>3, <2>5
<1>3. CASE ~(Has(w, i.mint) /\ (i.mint = "WSOL" \/ w.acct[i.mint] = 0))
  <2>1. v \in Failed(w)
    BY <1>3 DEF Run
  <2> QED BY <1>3, <2>1, FailedIs
<1> QED BY <1>2, <1>3

\* How a swap may be filled.
LEMMA FillsAre ==
    ASSUME NEW i, IsSwap(i), NEW fill \in Fills(i)
    PROVE  /\ fill[1] \in Nat /\ fill[2] \in Nat /\ fill[1] <= i.in /\ fill[2] >= i.out
           /\ i.mode = "exactIn" => fill[1] = i.in
<1>1. \/ fill = <<i.in, i.out>>
      \/ i.mode = "exactIn" /\ fill = <<i.in, i.out + 1>>
      \/ i.mode # "exactIn" /\ i.in > 1 /\ fill = <<i.in - 1, i.out>>
  BY DEF Fills
<1>2. i.in \in Nat /\ i.out \in Nat
  BY DEF IsSwap
<1> QED BY <1>1, <1>2

Filled(w, i, v, k, j) ==
    /\ j >= i.out /\ (i.mode = "exactIn" => k = i.in)
    /\ Holds(w, i.from, k) /\ Has(w, i.to)
    /\ v.ok = w.ok /\ DOMAIN v.acct = DOMAIN w.acct
    /\ v.sol = IF i.from = "SOL" THEN w.sol - k ELSE IF i.to = "SOL" THEN w.sol + j ELSE w.sol
    /\ \A m \in DOMAIN w.acct :
          v.acct[m] = IF m = i.from THEN w.acct[m] - k ELSE IF m = i.to THEN w.acct[m] + j ELSE w.acct[m]

\* A swap takes what it is filled with and brings it.
LEMMA SwapRuns ==
    ASSUME NEW w, IsWallet(w), NEW i, IsSwap(i), NEW v \in Run(i, w)
    PROVE  /\ IsWallet(v)
           /\ v.ok => \E k \in 0..i.in, j \in Nat : Filled(w, i, v, k, j)
           /\ w.ok /\ Holds(w, i.from, i.in) /\ Has(w, i.to) => v.ok
<1>1. PICK fill \in Fills(i) :
         v = IF Holds(w, i.from, fill[1]) /\ Has(w, i.to)
             THEN Add(Add(w, i.from, -fill[1]), i.to, fill[2]) ELSE [w EXCEPT !.ok = FALSE]
  BY DEF Run, IsSwap
<1> DEFINE k == fill[1]  j == fill[2]  a == i.from  b == i.to
<1>2. /\ k \in 0..i.in /\ k \in Nat /\ j \in Nat /\ k <= i.in /\ j >= i.out /\ (i.mode = "exactIn" => k = i.in)
      /\ i.in \in Nat
  BY FillsAre DEF IsSwap
<1>3. /\ v = IF Holds(w, a, k) /\ Has(w, b) THEN Add(Add(w, a, -k), b, j) ELSE [w EXCEPT !.ok = FALSE]
      /\ a \in Places /\ b \in Places /\ a # b
  BY <1>1 DEF IsSwap
<1> HIDE DEF k, j, a, b
<1>4. CASE Holds(w, a, k) /\ Has(w, b)
  <2>1. v = Add(Add(w, a, -k), b, j)
    BY <1>3, <1>4
  <2>2. /\ IsWallet(v) /\ v.ok = w.ok /\ DOMAIN v.acct = DOMAIN w.acct
        /\ v.sol = IF a = "SOL" THEN w.sol - k ELSE IF b = "SOL" THEN w.sol + j ELSE w.sol
        /\ \A m \in DOMAIN w.acct :
              v.acct[m] = IF m = a THEN w.acct[m] - k ELSE IF m = b THEN w.acct[m] + j ELSE w.acct[m]
    BY <1>2, <1>3, <1>4, <2>1, Moved
  <2>3. Filled(w, i, v, k, j)
    BY <1>2, <1>4, <2>2 DEF Filled, a, b
  <2>4. w.ok => v.ok
    BY <2>2
  <2> QED BY <1>2, <2>2, <2>3, <2>4
<1>5. CASE ~(Holds(w, a, k) /\ Has(w, b))
  <2>1. v \in Failed(w)
    BY <1>3, <1>5 DEF Failed
  <2>2. Holds(w, a, i.in) => Holds(w, a, k)
    <3>1. Has(w, a) => Balance(w, a) \in Nat
      BY <1>3 DEF IsWallet, Has, Balance, Places
    <3> QED BY <1>2, <3>1 DEF Holds
  <2>3. ~(Holds(w, a, i.in) /\ Has(w, b))
    BY <1>5, <2>2
  <2> QED BY <2>1, <2>3, FailedIs DEF a, b
<1> QED BY <1>4, <1>5

\* Instructions keep a wallet a wallet.
LEMMA RunTyped == ASSUME NEW w, IsWallet(w), NEW i, Typed(i), NEW v \in Run(i, w) PROVE IsWallet(v)
<1>1. CASE Quiet(i)
  BY <1>1, CreateRuns, FundRuns, CloseRuns DEF Quiet
<1>2. CASE IsSwap(i)
  BY <1>2, SwapRuns
<1>3. CASE i.op = "move"
  <2>1. v \in {w} \/ v \in Failed(w)
    BY <1>3 DEF Run
  <2> QED BY <2>1, FailedIs
<1>4. CASE i.op = "claim" /\ i.mint \in Places
  <2>1. CASE Has(w, i.mint)
    <3> DEFINE a == i.mint  n == 1
    <3>1. a \in Places /\ n \in Int /\ Has(w, a) /\ v = Add(w, a, n)
      BY <1>4, <2>1 DEF Run
    <3>2. Balance(w, a) \in Nat
      BY <1>4, <2>1 DEF Balance, Has, IsWallet
    <3>3. Balance(w, a) + n >= 0
      BY <3>2
    <3> HIDE DEF a, n
    <3> QED BY <3>1, <3>3, AddIs
  <2>2. CASE ~Has(w, i.mint)
    <3>1. v \in Failed(w)
      BY <1>4, <2>2 DEF Run
    <3> QED BY <3>1, FailedIs
  <2> QED BY <2>1, <2>2
<1> QED BY <1>1, <1>2, <1>3, <1>4 DEF Typed

-----------------------------------------------------------------------------
(* What a plan with one swap costs and brings.                             *)

AllWallets == [ok : BOOLEAN, sol : Nat, acct : UNION {[D -> Nat] : D \in SUBSET Mints}]

\* Wallets are a set.
LEMMA WalletsAre == ASSUME NEW w PROVE IsWallet(w) <=> w \in AllWallets
<1>1. ASSUME IsWallet(w) PROVE w \in AllWallets
  <2>1. w.acct \in UNION {[D -> Nat] : D \in SUBSET Mints}
    BY <1>1 DEF IsWallet
  <2> QED BY <1>1, <2>1 DEF IsWallet, AllWallets
<1>2. ASSUME w \in AllWallets PROVE IsWallet(w)
  <2>1. /\ w = [ok |-> w.ok, sol |-> w.sol, acct |-> w.acct] /\ w.ok \in BOOLEAN /\ w.sol \in Nat
        /\ w.acct \in UNION {[D -> Nat] : D \in SUBSET Mints}
    BY <1>2 DEF AllWallets
  <2>2. PICK D \in SUBSET Mints : w.acct \in [D -> Nat]
    BY <2>1
  <2> QED BY <2>1, <2>2 DEF IsWallet
<1> QED BY <1>1, <1>2

\* Whatever is in a wallet is a number.
LEMMA WorthIs == ASSUME NEW w, IsWallet(w), NEW m PROVE Worth(w, m) \in Nat
BY DEF IsWallet, Worth

\* Creating, wrapping and closing neither cost nor bring anything.
LEMMA QuietWorth ==
    ASSUME NEW w, IsWallet(w), NEW i, Quiet(i), NEW v \in Run(i, w), v.ok
    PROVE  \A m \in Mints : Worth(v, m) = Worth(w, m)
<1>0. w.sol \in Nat /\ \A m \in DOMAIN w.acct : w.acct[m] \in Nat
  BY DEF IsWallet
<1>1. CASE i.op = "create"
  <2>1. /\ v.sol = w.sol /\ DOMAIN v.acct = DOMAIN w.acct \cup {i.mint}
        /\ \A m \in DOMAIN v.acct : v.acct[m] = IF m \in DOMAIN w.acct THEN w.acct[m] ELSE 0
    BY <1>1, CreateRuns DEF Quiet
  <2> QED BY <2>1 DEF Worth
<1>2. CASE i.op = "fund"
  <2>1. /\ v.sol = w.sol - i.amount /\ DOMAIN v.acct = DOMAIN w.acct /\ i.amount \in Nat
        /\ \A m \in DOMAIN w.acct : v.acct[m] = IF m = "WSOL" THEN w.acct[m] + i.amount ELSE w.acct[m]
    BY <1>2, FundRuns DEF Quiet
  <2>2. "WSOL" \in DOMAIN w.acct
    <3>1. CASE Has(w, "WSOL")
      BY <3>1 DEF Has
    <3>2. CASE ~Has(w, "WSOL")
      <4>1. v \in Failed(w)
        BY <1>2, <3>2 DEF Run
      <4> QED BY <4>1, FailedIs
    <3> QED BY <3>1, <3>2
  <2> QED BY <1>0, <2>1, <2>2 DEF Worth
<1>3. CASE i.op = "close"
  <2>1. /\ i.mint \in DOMAIN w.acct /\ (i.mint = "WSOL" \/ w.acct[i.mint] = 0)
        /\ v.sol = w.sol + w.acct[i.mint] /\ DOMAIN v.acct = DOMAIN w.acct \ {i.mint}
        /\ \A m \in DOMAIN v.acct : v.acct[m] = w.acct[m]
    BY <1>3, CloseRuns DEF Quiet
  <2> QED BY <1>0, <2>1 DEF Worth
<1> QED BY <1>1, <1>2, <1>3 DEF Quiet

\* A swap costs at most what it may take and brings at least what it must.
LEMMA SwapWorth ==
    ASSUME NEW w, IsWallet(w), NEW i, IsSwap(i), Canonical(i.from) # Canonical(i.to),
           NEW v \in Run(i, w), v.ok
    PROVE  /\ Worth(v, Canonical(i.from)) >= Worth(w, Canonical(i.from)) - i.in
           /\ Worth(v, Canonical(i.to)) >= Worth(w, Canonical(i.to)) + i.out
           /\ \A m \in Mints \ {Canonical(i.from), Canonical(i.to)} : Worth(v, m) = Worth(w, m)
<1> DEFINE a == i.from  b == i.to
<1>0. /\ w.sol \in Nat /\ (\A m \in DOMAIN w.acct : w.acct[m] \in Nat) /\ "SOL" \notin DOMAIN w.acct
      /\ i.in \in Nat /\ i.out \in Nat /\ "SOL" \notin Mints
  BY DEF IsWallet, IsSwap, Mints
<1>1. PICK k \in 0..i.in, j \in Nat :
         /\ j >= i.out /\ Holds(w, a, k) /\ Has(w, b) /\ DOMAIN v.acct = DOMAIN w.acct
         /\ v.sol = IF a = "SOL" THEN w.sol - k ELSE IF b = "SOL" THEN w.sol + j ELSE w.sol
         /\ \A m \in DOMAIN w.acct :
               v.acct[m] = IF m = a THEN w.acct[m] - k ELSE IF m = b THEN w.acct[m] + j ELSE w.acct[m]
  <2>1. PICK k \in 0..i.in, j \in Nat : Filled(w, i, v, k, j)
    BY SwapRuns
  <2> QED BY <2>1 DEF Filled
<1>2. (a # "SOL" => a \in DOMAIN w.acct) /\ (b # "SOL" => b \in DOMAIN w.acct)
  BY <1>1 DEF Holds, Has
<1>3. /\ Canonical(a) = IF a = "SOL" THEN "WSOL" ELSE a
      /\ Canonical(b) = IF b = "SOL" THEN "WSOL" ELSE b
      /\ Canonical(a) # Canonical(b)
  BY DEF Canonical
<1>4. k \in Nat /\ k <= i.in
  BY <1>0, <1>1
<1> HIDE DEF a, b
<1>5. Worth(v, Canonical(a)) = Worth(w, Canonical(a)) - k
  <2>1. CASE a = "SOL"
    BY <1>0, <1>1, <1>2, <1>3, <1>4, <2>1 DEF Worth
  <2>2. CASE a # "SOL"
    BY <1>0, <1>1, <1>2, <1>3, <1>4, <2>2 DEF Worth
  <2> QED BY <2>1, <2>2
<1>6. Worth(v, Canonical(b)) = Worth(w, Canonical(b)) + j
  <2>1. CASE b = "SOL"
    BY <1>0, <1>1, <1>2, <1>3, <1>4, <2>1 DEF Worth
  <2>2. CASE b # "SOL"
    BY <1>0, <1>1, <1>2, <1>3, <1>4, <2>2 DEF Worth
  <2> QED BY <2>1, <2>2
<1>7. ASSUME NEW m \in Mints, m # Canonical(a), m # Canonical(b) PROVE Worth(v, m) = Worth(w, m)
  BY <1>0, <1>1, <1>3, <1>7 DEF Worth
<1>8. Worth(w, Canonical(a)) \in Nat /\ Worth(w, Canonical(b)) \in Nat
  BY WorthIs
<1> QED BY <1>0, <1>1, <1>4, <1>5, <1>6, <1>7, <1>8 DEF a, b

\* The swap that a trade was asked for, within its limits.
Serves(t, x) ==
    /\ IsSwap(x) /\ t.pays # t.receives /\ t.pays \in Mints /\ t.receives \in Mints
    /\ Canonical(x.from) = t.pays /\ Canonical(x.to) = t.receives
    /\ t.atMost \in Nat /\ t.atLeast \in Nat /\ x.in <= t.atMost /\ x.out >= t.atLeast

\* Plans without a swap, and plans with one.
Still(s) == Plan(s) /\ \A i \in 1..Len(s) : Quiet(s[i])
Swaps(x, s) == Plan(s) /\ \E p \in 1..Len(s) : s[p] = x /\ \A i \in 1..Len(s) : i # p => Quiet(s[i])

Bargain(w, v, t) ==
    /\ Worth(v, t.pays) >= Worth(w, t.pays) - t.atMost
    /\ Worth(v, t.receives) >= Worth(w, t.receives) + t.atLeast
    /\ \A m \in Mints \ {t.pays, t.receives} : Worth(v, m) = Worth(w, m)

\* A plan with the swap of a trade costs and brings what that swap does.
LEMMA PlanIsBargain ==
    ASSUME NEW w, IsWallet(w), NEW t, NEW x, Serves(t, x), NEW s, Swaps(x, s), NEW v \in Outcomes(w, s)
    PROVE  IsWallet(v) /\ (v.ok => Bargain(w, v, t))
<1> DEFINE A == {u \in AllWallets : u.ok => \A m \in Mints : Worth(u, m) = Worth(w, m)}
           B == {u \in AllWallets : u.ok => Bargain(w, u, t)}
<1>1. PICK p \in 1..Len(s) : s[p] = x /\ \A i \in 1..Len(s) : i # p => Quiet(s[i])
  BY DEF Swaps
<1>2. Plan(s) /\ Len(s) \in Nat /\ p \in Nat
  BY DEF Swaps, Plan
<1>3. ASSUME NEW u, IsWallet(u), NEW y, Quiet(y), NEW z \in Step(y, u)
      PROVE  IsWallet(z) /\ (z.ok => u.ok /\ \A m \in Mints : Worth(z, m) = Worth(u, m))
  <2>1. CASE u.ok
    <3>1. z \in Run(y, u)
      BY <1>3, <2>1 DEF Step
    <3> QED BY <1>3, <2>1, <3>1, RunTyped, QuietWorth DEF Typed
  <2>2. CASE ~u.ok
    BY <1>3, <2>2 DEF Step
  <2> QED BY <2>1, <2>2
<1>4. ASSUME NEW y, Quiet(y) PROVE Turns(A, y, A) /\ Turns(B, y, B)
  <2>1. ASSUME NEW u \in A, NEW z \in Step(y, u) PROVE z \in A
    BY <1>3, <1>4, <2>1, WalletsAre
  <2>2. ASSUME NEW u \in B, NEW z \in Step(y, u) PROVE z \in B
    <3>1. IsWallet(u) /\ IsWallet(z) /\ (z.ok => u.ok /\ \A m \in Mints : Worth(z, m) = Worth(u, m))
      BY <1>3, <1>4, <2>2, WalletsAre
    <3>2. ASSUME z.ok PROVE Bargain(w, z, t)
      <4>1. Bargain(w, u, t) /\ t.pays \in Mints /\ t.receives \in Mints
        BY <2>2, <3>1, <3>2 DEF Serves
      <4> QED BY <3>1, <3>2, <4>1 DEF Bargain
    <3> QED BY <3>1, <3>2, WalletsAre
  <2> QED BY <2>1, <2>2 DEF Turns
<1>5. Turns(A, x, B)
  <2>1. ASSUME NEW u \in A, NEW z \in Step(x, u) PROVE z \in B
    <3>1. IsWallet(u)
      BY WalletsAre
    <3>2. CASE u.ok
      <4>1. z \in Run(x, u) /\ IsSwap(x) /\ Canonical(x.from) # Canonical(x.to)
        BY <2>1, <3>2 DEF Step, Serves
      <4>2. IsWallet(z)
        BY <3>1, <4>1, SwapRuns
      <4>3. ASSUME z.ok PROVE Bargain(w, z, t)
        <5>1. /\ Worth(z, t.pays) >= Worth(u, t.pays) - x.in
              /\ Worth(z, t.receives) >= Worth(u, t.receives) + x.out
              /\ \A m \in Mints \ {t.pays, t.receives} : Worth(z, m) = Worth(u, m)
          BY <3>1, <4>1, <4>3, SwapWorth DEF Serves
        <5>2. \A m \in Mints : Worth(u, m) = Worth(w, m)
          BY <2>1, <3>2
        <5>3. /\ t.pays \in Mints /\ t.receives \in Mints /\ x.in \in Nat /\ x.out \in Nat
              /\ t.atMost \in Nat /\ t.atLeast \in Nat /\ x.in <= t.atMost /\ x.out >= t.atLeast
          BY DEF Serves, IsSwap
        <5>4. /\ Worth(z, t.pays) \in Nat /\ Worth(z, t.receives) \in Nat
              /\ Worth(w, t.pays) \in Nat /\ Worth(w, t.receives) \in Nat
          BY <4>2, WorthIs
        <5>5. Worth(u, t.pays) = Worth(w, t.pays) /\ Worth(u, t.receives) = Worth(w, t.receives)
          BY <5>2, <5>3
        <5>6. Worth(z, t.pays) >= Worth(w, t.pays) - t.atMost
          BY <5>1, <5>3, <5>4, <5>5
        <5>7. Worth(z, t.receives) >= Worth(w, t.receives) + t.atLeast
          BY <5>1, <5>3, <5>4, <5>5
        <5>8. \A m \in Mints \ {t.pays, t.receives} : Worth(z, m) = Worth(w, m)
          BY <5>1, <5>2
        <5> QED BY <5>6, <5>7, <5>8 DEF Bargain
      <4> QED BY <4>2, <4>3, WalletsAre
    <3>3. CASE ~u.ok
      BY <2>1, <3>1, <3>3, WalletsAre DEF Step
    <3> QED BY <3>2, <3>3
  <2> QED BY <2>1 DEF Turns
<1>6. w \in A
  BY WalletsAre
<1> HIDE DEF A, B
<1> DEFINE F == [i \in 0..Len(s) |-> IF i < p THEN A ELSE B]
<1>7. F[0] = A /\ F[Len(s)] = B
  BY <1>2
<1>8. ASSUME NEW i \in 1..Len(s) PROVE Turns(F[i - 1], s[i], F[i])
  <2>1. CASE i < p
    <3>1. F[i - 1] = A /\ F[i] = A /\ Quiet(s[i])
      BY <1>1, <1>2, <2>1
    <3> QED BY <1>4, <3>1
  <2>2. CASE i = p
    <3>1. F[i - 1] = A /\ F[i] = B /\ s[i] = x
      BY <1>1, <1>2, <2>2
    <3> QED BY <1>5, <3>1
  <2>3. CASE i > p
    <3>1. F[i - 1] = B /\ F[i] = B /\ Quiet(s[i])
      BY <1>1, <1>2, <2>3
    <3> QED BY <1>4, <3>1
  <2> QED BY <1>2, <2>1, <2>2, <2>3
<1> HIDE DEF F
<1>9. Leads(A, s, B)
  BY <1>2, <1>7, <1>8 DEF Leads
<1>10. v \in B
  BY <1>6, <1>9, LeadsEnd
<1> QED BY <1>10, WalletsAre DEF B

-----------------------------------------------------------------------------
(* The builders: each plan they answer with has the swap that was asked    *)
(* for, and creates, wraps and closes around it.                           *)

\* Instructions without a swap, and with one, put together.
LEMMA StillIs ==
    /\ Still(<<>>)
    /\ \A i : Quiet(i) => Still(<<i>>)
    /\ \A s, t : Still(s) /\ Still(t) => Still(s \o t)
    /\ \A x, s : Still(s) => Swaps(x, s \o <<x>>)
    /\ \A x : Swaps(x, <<x>>)
    /\ \A x, s, t : Swaps(x, s) /\ Still(t) => Swaps(x, s \o t)
<1>1. Still(<<>>) /\ \A i : Quiet(i) => Still(<<i>>)
  <2>1. Plan(<<>>) /\ Len(<<>>) = 0
    BY PlanIs
  <2>2. ASSUME NEW i, Quiet(i) PROVE Still(<<i>>)
    <3>1. Plan(<<i>>) /\ Len(<<i>>) = 1 /\ <<i>>[1] = i
      BY PlanIs
    <3>2. \A j \in 1..1 : j = 1
      OBVIOUS
    <3> QED BY <2>2, <3>1, <3>2 DEF Still
  <2> QED BY <2>1, <2>2 DEF Still
<1>2. ASSUME NEW s, NEW t, Plan(s), Plan(t)
      PROVE  /\ Len(s) \in Nat /\ Len(t) \in Nat /\ Plan(s \o t) /\ Len(s \o t) = Len(s) + Len(t)
             /\ \A i \in 1..Len(s) : i \in 1..Len(s \o t) /\ (s \o t)[i] = s[i]
             /\ \A i \in 1..Len(s \o t) : i \notin 1..Len(s) =>
                    i - Len(s) \in 1..Len(t) /\ (s \o t)[i] = t[i - Len(s)]
  <2>1. /\ Plan(s \o t) /\ Len(s \o t) = Len(s) + Len(t)
        /\ \A i \in 1..Len(s) : (s \o t)[i] = s[i]
        /\ \A i \in 1..Len(t) : (s \o t)[Len(s) + i] = t[i]
    BY <1>2, PlanIs
  <2>2. Len(s) \in Nat /\ Len(t) \in Nat
    BY <1>2 DEF Plan
  <2>3. ASSUME NEW i \in 1..Len(s \o t), i \notin 1..Len(s)
        PROVE  i - Len(s) \in 1..Len(t) /\ (s \o t)[i] = t[i - Len(s)]
    <3> DEFINE j == i - Len(s)
    <3>1. j \in 1..Len(t) /\ Len(s) + j = i
      BY <2>1, <2>2, <2>3
    <3> HIDE DEF j
    <3>2. (s \o t)[Len(s) + j] = t[j]
      BY <2>1, <3>1
    <3> QED BY <3>1, <3>2 DEF j
  <2> QED BY <2>1, <2>2, <2>3
<1>3. ASSUME NEW s, NEW t, Still(s), Still(t) PROVE Still(s \o t)
  <2>1. Plan(s) /\ Plan(t) /\ (\A i \in 1..Len(s) : Quiet(s[i])) /\ \A i \in 1..Len(t) : Quiet(t[i])
    BY <1>3 DEF Still
  <2>2. ASSUME NEW i \in 1..Len(s \o t) PROVE Quiet((s \o t)[i])
    BY <1>2, <2>1
  <2> QED BY <1>2, <2>1, <2>2 DEF Still
<1>4. ASSUME NEW x, NEW s, Still(s) PROVE Swaps(x, s \o <<x>>)
  <2> DEFINE t == <<x>>  p == Len(s) + 1
  <2>1. Plan(s) /\ Plan(t) /\ (\A i \in 1..Len(s) : Quiet(s[i])) /\ Len(t) = 1 /\ t[1] = x
    BY <1>4, PlanIs DEF Still
  <2> HIDE DEF t
  <2>2. /\ Len(s) \in Nat /\ Len(t) \in Nat /\ Plan(s \o t) /\ Len(s \o t) = Len(s) + Len(t)
        /\ \A i \in 1..Len(s) : (s \o t)[i] = s[i]
        /\ \A i \in 1..Len(s \o t) : i \notin 1..Len(s) =>
               i - Len(s) \in 1..Len(t) /\ (s \o t)[i] = t[i - Len(s)]
    BY <1>2, <2>1
  <2>3. p \in 1..Len(s \o t) /\ p \notin 1..Len(s) /\ p - Len(s) = 1
    BY <2>1, <2>2
  <2>4. (s \o t)[p] = x
    BY <2>1, <2>2, <2>3
  <2>5. ASSUME NEW i \in 1..Len(s \o t), i # p PROVE Quiet((s \o t)[i])
    <3>1. i \in 1..Len(s)
      BY <2>1, <2>2, <2>5
    <3> QED BY <2>1, <2>2, <3>1
  <2> HIDE DEF p
  <2>6. Swaps(x, s \o t)
    BY <2>2, <2>3, <2>4, <2>5 DEF Swaps
  <2> QED BY <2>6 DEF t
<1>5. ASSUME NEW x PROVE Swaps(x, <<x>>)
  <2>1. Plan(<<x>>) /\ Len(<<x>>) = 1 /\ <<x>>[1] = x
    BY PlanIs
  <2>2. 1 \in 1..1 /\ \A i \in 1..1 : i = 1
    OBVIOUS
  <2> QED BY <2>1, <2>2 DEF Swaps
<1>6. ASSUME NEW x, NEW s, NEW t, Swaps(x, s), Still(t) PROVE Swaps(x, s \o t)
  <2>1. Plan(s) /\ Plan(t) /\ \A i \in 1..Len(t) : Quiet(t[i])
    BY <1>6 DEF Still, Swaps
  <2>2. PICK p \in 1..Len(s) : s[p] = x /\ \A i \in 1..Len(s) : i # p => Quiet(s[i])
    BY <1>6 DEF Swaps
  <2>3. p \in 1..Len(s \o t) /\ (s \o t)[p] = x
    BY <1>2, <2>1, <2>2
  <2>4. ASSUME NEW i \in 1..Len(s \o t), i # p PROVE Quiet((s \o t)[i])
    <3>1. CASE i \in 1..Len(s)
      BY <1>2, <2>1, <2>2, <2>4, <3>1
    <3>2. CASE i \notin 1..Len(s)
      BY <1>2, <2>1, <3>2
    <3> QED BY <3>1, <3>2
  <2> QED BY <1>2, <2>1, <2>3, <2>4 DEF Swaps
<1> QED BY <1>1, <1>3, <1>4, <1>5, <1>6

\* What a builder puts around its swap.
LEMMA PiecesAreStill ==
    /\ \A m \in Mints : Still(Create(m)) /\ Still(CreateNew(m)) /\ Still(CloseAccount(m))
    /\ \A n \in Nat : Still(wrapSolOnly(n))
    /\ \A n \in Nat, m \in Mints : Still(pushCreateOrWrapUserTokenAccount(m, n))
    /\ \A asked, s : (asked => Still(s)) => Still(When(asked, s))
<1>1. ASSUME NEW m \in Mints PROVE Still(Create(m)) /\ Still(CreateNew(m)) /\ Still(CloseAccount(m))
  <2> DEFINE i == [op |-> "create", mint |-> m, idempotent |-> TRUE]
             j == [op |-> "create", mint |-> m, idempotent |-> FALSE]
             k == [op |-> "close", mint |-> m]
  <2>1. Quiet(i) /\ Quiet(j) /\ Quiet(k)
    BY DEF Quiet
  <2>2. Create(m) = <<i>> /\ CreateNew(m) = <<j>> /\ CloseAccount(m) = <<k>>
    BY DEF Create, CreateNew, CloseAccount
  <2> HIDE DEF i, j, k
  <2> QED BY <2>1, <2>2, StillIs
<1>2. ASSUME NEW n \in Nat PROVE Still(wrapSolOnly(n))
  <2> DEFINE i == [op |-> "fund", amount |-> n]
  <2>1. Quiet(i) /\ wrapSolOnly(n) = <<i>>
    BY DEF Quiet, wrapSolOnly
  <2> HIDE DEF i
  <2> QED BY <2>1, StillIs
<1>3. ASSUME NEW asked, NEW s, asked => Still(s) PROVE Still(When(asked, s))
  BY <1>3, StillIs DEF When
<1>4. ASSUME NEW n \in Nat, NEW m \in Mints PROVE Still(pushCreateOrWrapUserTokenAccount(m, n))
  <2>1. Still(Create(m)) /\ Still(When(m = "WSOL", wrapSolOnly(n)))
    BY <1>1, <1>2, <1>3
  <2> QED BY <2>1, StillIs DEF pushCreateOrWrapUserTokenAccount
<1> QED BY <1>1, <1>2, <1>3, <1>4

\* Slippage makes an amount larger or smaller, and never negative; what is protected
\* rounded down is the smallest.
LEMMA SlippageIs ==
    ASSUME NEW n \in Nat, NEW bps \in Nat, bps <= 9999
    PROVE  /\ More(n, bps) \in Nat /\ More(n, bps) >= n
           /\ Less(n, bps) \in Nat /\ Less(n, bps) <= n /\ AtLeastOne(Less(n, bps)) >= Less(n, bps)
           /\ AtLeastOne(Less(n, bps)) \in Nat
           /\ minimumPumpSwapOutput(n, bps) \in Nat /\ minimumPumpSwapOutput(n, bps) <= Less(n, bps)
<1> DEFINE p == n * bps  q == p \div 10000  m == n * (10000 - bps)
<1>1. p \in Nat /\ p <= n * 10000 /\ m = n * 10000 - p
  OBVIOUS
<1> HIDE DEF p, m
<1>2. q \in Nat /\ q <= n /\ 10000 * q <= p
  BY <1>1
<1>3. More(n, bps) = n + q /\ Less(n, bps) = n - q /\ minimumPumpSwapOutput(n, bps) = m \div 10000
  BY DEF More, Less, minimumPumpSwapOutput, p, m
<1>4. m \div 10000 \in Nat /\ m \div 10000 <= n - q
  BY <1>1, <1>2
<1> HIDE DEF q
<1> QED BY <1>2, <1>3, <1>4 DEF AtLeastOne

\* What a request is.
Sane(r) ==
    /\ r.side \in {"buy", "sell"} /\ r.coin \in Coins /\ r.mint \in {"T", "USDC"} /\ r.sizing \in Sizings
    /\ r.amount \in Nat /\ r.want \in Nat /\ r.estimate \in Nat /\ r.bps \in Nat /\ r.bps <= 9999
    /\ r.close \in BOOLEAN /\ r.policy \in Policies
    /\ r.pool.base \in Mints /\ r.pool.quote \in Mints /\ r.pool.base # r.pool.quote /\ r.pool.minimum \in Nat
    /\ r.pool.dex \in {"pumpfun", "bonk"} => r.pool.base = "T" /\ r.mint = "T"
    /\ r.pool.dex = "pumpfun" => r.pool.variant \in {"V1", "V2", "V3", "any"}
    /\ r.pool.minimum # 0 => r.pool.dex = "pumpfun" /\ r.pool.variant = "V3"
    /\ r.side = "sell" => r.sizing # "WithMaxInput"

\* The assumptions on pools and amounts make every request that is not refused one.
LEMMA RequestIsSane == ASSUME NEW r \in TradeRequests, validateSlippage(r.bps) PROVE Sane(r)
<1>1. /\ r.side \in {"buy", "sell"} /\ r.pool \in Pools /\ r.coin \in Coins /\ r.mint \in {"T", "USDC"}
      /\ r.sizing \in Sizings /\ r.policy \in Policies /\ r.close \in BOOLEAN
      /\ r.amount \in Amounts /\ r.want \in Wanted /\ r.estimate \in Estimates /\ r.bps \in Slippages
      /\ (r.mint = "T" \/ {r.pool.base, r.pool.quote} = {"WSOL", "USDC"})
      /\ r.side = "sell" => r.sizing # "WithMaxInput"
  BY DEF TradeRequests
<1>2. r.amount \in Nat /\ r.want \in Nat /\ r.estimate \in Nat /\ r.bps \in Nat
  BY <1>1, AmountsAssumption
<1>3. r.bps <= 9999
  BY <1>2 DEF validateSlippage
<1> QED BY <1>1, <1>2, <1>3, PoolsAssumption DEF Sane

\* The amounts a builder makes of a request, with the rounding of its venue.
LEMMA AmountsOf ==
    ASSUME NEW r, Sane(r)
    PROVE  /\ r.amount \in Nat /\ r.estimate \in Nat
           /\ More(r.amount, r.bps) \in Nat /\ More(r.amount, r.bps) >= r.amount
           /\ Less(r.estimate, r.bps) \in Nat /\ Less(r.estimate, r.bps) <= r.estimate
           /\ AtLeastOne(Less(r.estimate, r.bps)) \in Nat
           /\ AtLeastOne(Less(r.estimate, r.bps)) >= Less(r.estimate, r.bps)
           /\ minimumPumpSwapOutput(r.estimate, r.bps) \in Nat
           /\ minimumPumpSwapOutput(r.estimate, r.bps) <= Less(r.estimate, r.bps)
           /\ minAmountOut(r) \in {minimumPumpSwapOutput(r.estimate, r.bps), Less(r.estimate, r.bps)}
           /\ minAmountOut(r) \in Nat
<1> DEFINE a == r.amount  n == r.estimate  bps == r.bps
<1>1. a \in Nat /\ n \in Nat /\ bps \in Nat /\ bps <= 9999
  BY DEF Sane
<1>2. minAmountOut(r) \in {minimumPumpSwapOutput(n, bps), Less(n, bps)}
  BY DEF minAmountOut
<1> HIDE DEF a, n, bps
<1>3. More(a, bps) \in Nat /\ More(a, bps) >= a
  BY <1>1, SlippageIs
<1>4. /\ Less(n, bps) \in Nat /\ Less(n, bps) <= n /\ AtLeastOne(Less(n, bps)) >= Less(n, bps)
      /\ AtLeastOne(Less(n, bps)) \in Nat
      /\ minimumPumpSwapOutput(n, bps) \in Nat /\ minimumPumpSwapOutput(n, bps) <= Less(n, bps)
  BY <1>1, SlippageIs
<1>5. minAmountOut(r) \in Nat
  BY <1>2, <1>4
<1> QED BY <1>1, <1>2, <1>3, <1>4, <1>5 DEF a, n, bps

\* The amounts of a request.
LEMMA Limits ==
    ASSUME NEW r, Sane(r), NEW plan
    PROVE  LET t == Intent(r, plan)
           IN  /\ t.atMost \in Nat /\ t.atLeast \in Nat /\ r.amount <= t.atMost
               /\ (~ExactSol(r) => t.atMost = More(r.amount, r.bps))
               /\ (~ExactSol(r) => t.atLeast <= r.estimate)
               /\ (Fixed(r) # 0 => t.atLeast = Fixed(r) /\ ExactSol(r)) /\ Fixed(r) \in Nat
               /\ (V3Minimum(r) = 0 => t.atLeast <= minAmountOut(r) /\ t.atLeast <= Less(r.estimate, r.bps))
               /\ (V3Minimum(r) # 0 /\ ExactSol(r) => t.atLeast = V3Minimum(r))
               /\ (r.pool.dex # "pumpfun" => V3Minimum(r) = Fixed(r))
               /\ (Fixed(r) = 0 => V3Minimum(r) = r.pool.minimum)
               /\ t.plan = plan /\ t.dex = r.pool.dex /\ t.close = r.close
<1>1. /\ More(r.amount, r.bps) \in Nat /\ More(r.amount, r.bps) >= r.amount
      /\ Less(r.estimate, r.bps) \in Nat /\ Less(r.estimate, r.bps) <= r.estimate
      /\ minimumPumpSwapOutput(r.estimate, r.bps) \in Nat
      /\ minimumPumpSwapOutput(r.estimate, r.bps) <= Less(r.estimate, r.bps)
      /\ minAmountOut(r) \in {minimumPumpSwapOutput(r.estimate, r.bps), Less(r.estimate, r.bps)}
  BY AmountsOf
<1>2. Fixed(r) \in Nat /\ (Fixed(r) # 0 => r.sizing = "ExactOutput")
  BY DEF Fixed, Sane
<1>3. V3Minimum(r) = (IF Fixed(r) # 0 THEN Fixed(r) ELSE r.pool.minimum) /\ r.pool.minimum \in Nat
  BY DEF V3Minimum, Sane
<1>4. ExactSol(r) <=> r.sizing # "WithMaxInput"
  BY DEF ExactSol
<1>5. r.pool.dex # "pumpfun" => r.pool.minimum = 0
  BY DEF Sane
<1>6. r.amount \in Nat /\ r.estimate \in Nat
  BY DEF Sane
<1>7. /\ Intent(r, plan).atLeast = IF V3Minimum(r) # 0 /\ ExactSol(r) THEN V3Minimum(r)
                                    ELSE minimumPumpSwapOutput(r.estimate, r.bps)
      /\ Intent(r, plan).atMost = IF r.sizing = "WithMaxInput" THEN More(r.amount, r.bps) ELSE r.amount
      /\ Intent(r, plan).plan = plan /\ Intent(r, plan).dex = r.pool.dex /\ Intent(r, plan).close = r.close
  BY DEF Intent, minimumPumpSwapOutput
<1> QED BY <1>1, <1>2, <1>3, <1>4, <1>5, <1>6, <1>7

\* The swap instruction itself.
SwapStep(mode, from, to, in, out) ==
    [op |-> "swap", mode |-> mode, from |-> from, to |-> to, in |-> in, out |-> out]

\* How a plan begins before its swap x: on the side that pays an account is created and
\* filled, or was there, and on the side that is paid one is created.
BuyOpening(r, e, x) ==
    \/ \E n \in Nat :
          /\ x.in <= n /\ n <= Intent(r, <<>>).atMost /\ x.from \in Mints /\ x.to \in Mints
          /\ \/ e = When(CreatesInput(r), pushCreateOrWrapUserTokenAccount(x.from, n))
                        \o When(CreatesOutput(r), Create(x.to))
             \/ e = When(CreatesOutput(r), Create(x.to))
                        \o When(CreatesInput(r), pushCreateOrWrapUserTokenAccount(x.from, n))
    \/ x.from = "SOL" /\ x.to \in Mints /\ e = When(CreatesOutput(r), Create(x.to))
    \/ x.from = "SOL" /\ x.to \in Mints /\ e = When(CreatesOutput(r), Create(x.to)) \o <<>>
    \/ /\ x.from \in Mints \ {"WSOL"} /\ x.to \in Mints
       /\ e = When(CreatesOutput(r), Create(x.to)) \o When(CreatesInput(r), Create(x.from))
    \/ r.pool.dex = "bonk" /\ Still(e)
SellOpening(r, e, x) ==
    \/ x.to \in Mints /\ e = When(CreatesOutput(r), Create(x.to))
    \/ x.to \in Mints /\ e = <<>> \o When(CreatesOutput(r), Create(x.to))
    \/ x.to = "SOL" /\ e = <<>> \o <<>>
    \/ r.pool.dex = "bonk" /\ Still(e)

\* And how it goes on.
BuyForm(r, plan, x) ==
    \E e : /\ BuyOpening(r, e, x)
           /\ \/ plan = e \o <<x>>
              \/ \E c \in BOOLEAN : /\ c => r.close /\ x.from \in Mints
                                   /\ plan = (e \o <<x>>) \o When(c, CloseAccount("WSOL"))
SellForm(r, plan, x) ==
    /\ x.from \in Mints /\ x.in = r.amount
    /\ \/ x.to = "SOL" /\ plan = <<x>> \o When(r.close, CloseAccount(x.from))
       \/ \E e : /\ SellOpening(r, e, x)
                 /\ \/ plan = (e \o <<x>>) \o When(r.close, CloseAccount(x.from))
                    \/ /\ x.to \in Mints
                       /\ plan = ((e \o <<x>>) \o When(r.close /\ x.to = "WSOL", CloseAccount(x.to)))
                                     \o When(r.close, CloseAccount(x.from))
PlanForm(r, plan, x) ==
    /\ Serves(Intent(r, plan), x)
    /\ IF r.side = "buy" THEN BuyForm(r, plan, x) ELSE SellForm(r, plan, x)

\* Such a plan has one swap.
LEMMA FormSwaps == ASSUME NEW r, NEW plan, NEW x, PlanForm(r, plan, x) PROVE Swaps(x, plan)
<1>1. "WSOL" \in Mints
  BY DEF Mints
<1>2. CASE r.side = "buy"
  <2>1. PICK e : /\ BuyOpening(r, e, x)
                 /\ \/ plan = e \o <<x>>
                    \/ \E c \in BOOLEAN :
                          plan = (e \o <<x>>) \o When(c, CloseAccount("WSOL"))
    BY <1>2 DEF PlanForm, BuyForm
  <2>2. Still(e)
    <3>1. CASE \E n \in Nat :
                 /\ x.in <= n /\ n <= Intent(r, <<>>).atMost /\ x.from \in Mints /\ x.to \in Mints
                 /\ \/ e = When(CreatesInput(r), pushCreateOrWrapUserTokenAccount(x.from, n))
                               \o When(CreatesOutput(r), Create(x.to))
                    \/ e = When(CreatesOutput(r), Create(x.to))
                               \o When(CreatesInput(r), pushCreateOrWrapUserTokenAccount(x.from, n))
      BY <3>1, StillIs, PiecesAreStill
    <3>2. CASE x.to \in Mints /\ e = When(CreatesOutput(r), Create(x.to))
      BY <3>2, PiecesAreStill
    <3>3. CASE x.to \in Mints /\ e = When(CreatesOutput(r), Create(x.to)) \o <<>>
      BY <3>3, StillIs, PiecesAreStill
    <3>4. CASE /\ x.from \in Mints \ {"WSOL"} /\ x.to \in Mints
               /\ e = When(CreatesOutput(r), Create(x.to)) \o When(CreatesInput(r), Create(x.from))
      BY <3>4, StillIs, PiecesAreStill
    <3> QED BY <2>1, <3>1, <3>2, <3>3, <3>4 DEF BuyOpening
  <2>3. Swaps(x, e \o <<x>>)
    BY <2>2, StillIs
  <2>4. \A c \in BOOLEAN : Still(When(c, CloseAccount("WSOL")))
    BY <1>1, PiecesAreStill
  <2> QED BY <2>1, <2>3, <2>4, StillIs
<1>3. CASE r.side # "buy"
  <2>1. SellForm(r, plan, x) /\ x.from \in Mints
    BY <1>3 DEF PlanForm, SellForm
  <2>2. Still(When(r.close, CloseAccount(x.from)))
    BY <2>1, PiecesAreStill
  <2>3. CASE x.to = "SOL" /\ plan = <<x>> \o When(r.close, CloseAccount(x.from))
    BY <2>2, <2>3, StillIs
  <2>4. ASSUME NEW e, SellOpening(r, e, x) PROVE Swaps(x, e \o <<x>>)
    <3>1. CASE x.to \in Mints /\ e = When(CreatesOutput(r), Create(x.to))
      BY <3>1, StillIs, PiecesAreStill
    <3>2. CASE x.to \in Mints /\ e = <<>> \o When(CreatesOutput(r), Create(x.to))
      BY <3>2, StillIs, PiecesAreStill
    <3>3. CASE e = <<>> \o <<>>
      BY <3>3, StillIs
    <3>4. CASE Still(e)
      BY <3>4, StillIs
    <3> QED BY <2>4, <3>1, <3>2, <3>3, <3>4 DEF SellOpening
  <2>5. ASSUME NEW e, SellOpening(r, e, x), plan = (e \o <<x>>) \o When(r.close, CloseAccount(x.from))
        PROVE  Swaps(x, plan)
    BY <2>2, <2>4, <2>5, StillIs
  <2>6. ASSUME NEW e, SellOpening(r, e, x), x.to \in Mints,
               plan = ((e \o <<x>>) \o When(r.close /\ x.to = "WSOL", CloseAccount(x.to)))
                          \o When(r.close, CloseAccount(x.from))
        PROVE  Swaps(x, plan)
    <3>1. Still(When(r.close /\ x.to = "WSOL", CloseAccount(x.to)))
      BY <2>6, PiecesAreStill
    <3> QED BY <2>2, <2>4, <2>6, <3>1, StillIs
  <2> QED BY <2>1, <2>3, <2>5, <2>6 DEF SellForm
<1> QED BY <1>2, <1>3

\* The plans of BuyLayout and SellLayout.
LEMMA LayoutForms ==
    ASSUME NEW r, Sane(r), NEW plan, NEW x, Serves(Intent(r, plan), x), NEW in \in Mints, NEW out \in Mints,
           x.from = in, x.to = out, x.in = r.amount,
           r.side = "buy" => plan = BuyLayout(r, in, out, <<x>>),
           r.side # "buy" => plan = SellLayout(r, in, out, <<x>>)
    PROVE  PlanForm(r, plan, x)
<1>1. CASE r.side = "buy"
  <2> DEFINE e == When(CreatesInput(r), pushCreateOrWrapUserTokenAccount(in, r.amount))
                      \o When(CreatesOutput(r), Create(out))
             c == r.close /\ in = "WSOL"
  <2>1. r.amount \in Nat /\ x.in <= r.amount /\ r.amount <= Intent(r, <<>>).atMost
    BY Limits DEF Sane
  <2>2. BuyOpening(r, e, x)
    BY <2>1 DEF BuyOpening
  <2>3. plan = (e \o <<x>>) \o When(c, CloseAccount("WSOL"))
    BY <1>1 DEF BuyLayout, When
  <2>4. c \in BOOLEAN /\ (c => r.close)
    BY DEF Sane
  <2> HIDE DEF c, e
  <2> QED BY <1>1, <2>2, <2>3, <2>4 DEF PlanForm, BuyForm
<1>2. CASE r.side # "buy"
  <2> DEFINE e == When(CreatesOutput(r), Create(out))
  <2>1. SellOpening(r, e, x)
    BY DEF SellOpening
  <2>2. plan = ((e \o <<x>>) \o When(r.close /\ out = "WSOL", CloseAccount(out)))
                   \o When(r.close, CloseAccount(in))
    BY <1>2 DEF SellLayout
  <2> HIDE DEF e
  <2> QED BY <1>2, <2>1, <2>2 DEF PlanForm, SellForm
<1> QED BY <1>1, <1>2

\* A swap for the limits of most builders.
LEMMA SwapForServes ==
    ASSUME NEW r, Sane(r), r.pool.dex # "pumpfun", NEW plan, NEW in \in Mints, NEW out \in Mints, in # out,
           Intent(r, plan).pays = in, Intent(r, plan).receives = out
    PROVE  \E x : /\ SwapFor(r, in, out) = <<x>> /\ Serves(Intent(r, plan), x)
                  /\ x.from = in /\ x.to = out /\ x.in = r.amount
<1> DEFINE t == Intent(r, plan)
           x == IF Fixed(r) # 0 THEN SwapStep("exactOut", in, out, r.amount, Fixed(r))
                ELSE SwapStep("exactIn", in, out, r.amount, minAmountOut(r))
<1>1. /\ t.atMost \in Nat /\ t.atLeast \in Nat /\ r.amount <= t.atMost /\ Fixed(r) \in Nat
      /\ Fixed(r) # 0 => t.atLeast = Fixed(r)
      /\ Fixed(r) = 0 => t.atLeast <= minAmountOut(r)
  BY Limits
<1>2. SwapFor(r, in, out) = <<x>>
  BY DEF SwapFor, Swap, SwapStep
<1>3. /\ x.op = "swap" /\ x.from = in /\ x.to = out /\ x.in = r.amount
      /\ x.out = IF Fixed(r) # 0 THEN Fixed(r) ELSE minAmountOut(r)
  BY DEF SwapStep
<1>4. r.amount \in Nat /\ minAmountOut(r) \in Nat /\ in \in Places /\ out \in Places
  BY AmountsOf DEF Places
<1> HIDE DEF x
<1>5. IsSwap(x)
  BY <1>1, <1>3, <1>4 DEF IsSwap
<1>6. x.out >= t.atLeast /\ x.in <= t.atMost
  BY <1>1, <1>3, <1>4
<1>7. Canonical(in) = in /\ Canonical(out) = out
  BY DEF Canonical, Mints
<1> HIDE DEF t
<1>8. Serves(t, x)
  BY <1>1, <1>3, <1>5, <1>6, <1>7 DEF Serves, t
<1> QED BY <1>2, <1>3, <1>8 DEF t

\* Plans around such a swap.
LEMMA SidesForm ==
    ASSUME NEW r, Sane(r), r.pool.dex # "pumpfun", NEW in \in Mints, NEW out \in Mints, in # out, NEW plan,
           Intent(r, plan).pays = in, Intent(r, plan).receives = out,
           r.side = "buy" => plan = BuyLayout(r, in, out, SwapFor(r, in, out)),
           r.side # "buy" => plan = SellLayout(r, in, out, SwapFor(r, in, out))
    PROVE  \E x : PlanForm(r, plan, x)
<1>1. PICK x : /\ SwapFor(r, in, out) = <<x>> /\ Serves(Intent(r, plan), x)
               /\ x.from = in /\ x.to = out /\ x.in = r.amount
  BY SwapForServes
<1>2. /\ r.side = "buy" => plan = BuyLayout(r, in, out, <<x>>)
      /\ r.side # "buy" => plan = SellLayout(r, in, out, <<x>>)
  BY <1>1
<1> QED BY <1>1, <1>2, LayoutForms

\* What a trade pays and receives.
LEMMA EndsAre ==
    ASSUME NEW r, Sane(r), NEW plan
    PROVE  /\ Intent(r, plan).pays = IF r.side = "buy" THEN CoinOf(r) ELSE r.mint
           /\ Intent(r, plan).receives = IF r.side = "buy" THEN r.mint ELSE CoinOf(r)
           /\ r.pool.dex \notin {"cpmm", "bonk"} => CoinOf(r) = Canonical(r.coin)
           /\ Canonical(r.coin) \in Mints /\ r.mint \in Mints /\ r.mint # "WSOL"
           /\ \A m \in {r.pool.base, r.pool.quote} :
                 (r.pool.dex \in {"cpmm", "bonk"} /\ m # r.mint /\ r.mint \in {r.pool.base, r.pool.quote})
                     => CoinOf(r) = m
<1>1. ASSUME NEW m \in {r.pool.base, r.pool.quote}, r.pool.dex \in {"cpmm", "bonk"}, m # r.mint,
             r.mint \in {r.pool.base, r.pool.quote}
      PROVE  CoinOf(r) = m
  <2>1. \A n \in {r.pool.base, r.pool.quote} : n # r.mint <=> n = m
    BY <1>1
  <2>2. CoinOf(r) \in {r.pool.base, r.pool.quote} /\ CoinOf(r) # r.mint
    <3>1. CoinOf(r) = CHOOSE n \in {r.pool.base, r.pool.quote} : n # r.mint
      BY <1>1 DEF CoinOf
    <3>2. \E n \in {r.pool.base, r.pool.quote} : n # r.mint
      BY <1>1
    <3> QED BY <3>1, <3>2, Zenon
  <2> QED BY <2>1, <2>2
<1>2. Canonical(r.coin) \in Mints /\ r.mint \in Mints /\ r.mint # "WSOL"
  BY DEF Canonical, Sane, Coins, Mints
<1>3. r.pool.dex \notin {"cpmm", "bonk"} => CoinOf(r) = Canonical(r.coin)
  BY DEF CoinOf
<1> QED BY <1>1, <1>2, <1>3 DEF Intent

\* A mint that answers to the coin that was named.
LEMMA MatchIs ==
    ASSUME NEW r, Sane(r), NEW m \in Mints, isMintMatch(getInputMint(r.coin), m)
    PROVE  Canonical(r.coin) = m
BY DEF isMintMatch, getInputMint, Canonical, Mints

\* CPMM: the side that is wSOL or USDC.
LEMMA CpmmForms ==
    ASSUME NEW r, Sane(r), r.pool.dex = "cpmm", NEW plan,
           r.side = "buy" => plan \in buildRaydiumCpmmBuyInstructions(r),
           r.side # "buy" => plan \in buildRaydiumCpmmSellInstructions(r)
    PROVE  \E x : PlanForm(r, plan, x)
<1>1. r.pool.base \in Mints /\ r.pool.quote \in Mints /\ r.pool.base # r.pool.quote
  BY DEF Sane
<1>2. CASE r.side = "buy"
  <2> DEFINE in == CpmmBuySides(r)[1]  out == CpmmBuySides(r)[2]
  <2>1. r.mint = out /\ plan = BuyLayout(r, in, out, SwapFor(r, in, out))
    BY <1>2 DEF buildRaydiumCpmmBuyInstructions, Thrown
  <2>2. in # out /\ {in, out} = {r.pool.base, r.pool.quote}
    BY <1>1 DEF CpmmBuySides
  <2> HIDE DEF in, out
  <2>3. CoinOf(r) = in
    BY <2>1, <2>2, EndsAre
  <2>4. Intent(r, plan).pays = in /\ Intent(r, plan).receives = out /\ in \in Mints /\ out \in Mints
    BY <1>1, <1>2, <2>1, <2>2, <2>3, EndsAre
  <2> QED BY <1>2, <2>1, <2>2, <2>4, SidesForm
<1>3. CASE r.side # "buy"
  <2> DEFINE in == CpmmSellSides(r)[1]  out == CpmmSellSides(r)[2]
  <2>1. r.mint = in /\ plan = SellLayout(r, in, out, SwapFor(r, in, out))
    BY <1>3 DEF buildRaydiumCpmmSellInstructions, Thrown
  <2>2. in # out /\ {in, out} = {r.pool.base, r.pool.quote}
    BY <1>1 DEF CpmmSellSides
  <2> HIDE DEF in, out
  <2>3. CoinOf(r) = out
    BY <2>1, <2>2, EndsAre
  <2>4. Intent(r, plan).pays = in /\ Intent(r, plan).receives = out /\ in \in Mints /\ out \in Mints
    BY <1>1, <1>3, <2>1, <2>2, <2>3, EndsAre
  <2> QED BY <1>3, <2>1, <2>2, <2>4, SidesForm
<1> QED BY <1>2, <1>3

\* AMM v4: the traded mint and the coin that was named.
LEMMA AmmV4Forms ==
    ASSUME NEW r, Sane(r), r.pool.dex = "ammV4", NEW plan,
           r.side = "buy" => plan \in buildRaydiumAmmV4BuyInstructions(r),
           r.side # "buy" => plan \in buildRaydiumAmmV4SellInstructions(r)
    PROVE  \E x : PlanForm(r, plan, x)
<1> DEFINE in == v2Pair(r)[1]  out == v2Pair(r)[2]
<1>1. in \in Mints /\ out \in Mints /\ in # out
  BY DEF Sane, v2Pair
<1>2. CASE r.side = "buy"
  <2>1. /\ r.mint = out /\ isMintMatch(getInputMint(r.coin), in)
        /\ plan = BuyLayout(r, in, out, SwapFor(r, in, out))
    BY <1>2 DEF buildRaydiumAmmV4BuyInstructions, Thrown
  <2> HIDE DEF in, out
  <2>2. CoinOf(r) = in
    BY <1>1, <2>1, EndsAre, MatchIs
  <2>3. Intent(r, plan).pays = in /\ Intent(r, plan).receives = out
    BY <1>2, <2>1, <2>2, EndsAre
  <2> QED BY <1>1, <1>2, <2>1, <2>3, SidesForm
<1>3. CASE r.side # "buy"
  <2>1. /\ r.mint = in /\ isMintMatch(getInputMint(r.coin), out)
        /\ plan = SellLayout(r, in, out, SwapFor(r, in, out))
    BY <1>3 DEF buildRaydiumAmmV4SellInstructions, Thrown
  <2> HIDE DEF in, out
  <2>2. CoinOf(r) = out
    BY <1>1, <2>1, EndsAre, MatchIs
  <2>3. Intent(r, plan).pays = in /\ Intent(r, plan).receives = out
    BY <1>3, <2>1, <2>2, EndsAre
  <2> QED BY <1>1, <1>3, <2>1, <2>3, SidesForm
<1> QED BY <1>2, <1>3

\* DAMM v2: the output that was given.
LEMMA MeteoraForms ==
    ASSUME NEW r, Sane(r), r.pool.dex \notin {"pumpfun", "bonk", "cpmm"}, NEW plan,
           r.side = "buy" => plan \in buildMeteoraDammV2BuyInstructions(r),
           r.side # "buy" => plan \in buildMeteoraDammV2SellInstructions(r)
    PROVE  \E x : PlanForm(r, plan, x)
<1> DEFINE in == MeteoraSides(r)[1]  out == MeteoraSides(r)[2]
           x == SwapStep(r.pool.variant, in, out, r.amount, Fixed(r))
<1>1. in \in Mints /\ out \in Mints /\ in # out
  BY DEF Sane, MeteoraSides
<1>2. /\ Fixed(r) # 0
      /\ r.side = "buy" => /\ r.mint = out /\ isMintMatch(getInputMint(r.coin), in)
                           /\ plan = BuyLayout(r, in, out, MeteoraSwap(r, in, out))
      /\ r.side # "buy" => /\ r.mint = in /\ isMintMatch(getInputMint(r.coin), out)
                           /\ plan = SellLayout(r, in, out, MeteoraSwap(r, in, out))
  BY DEF buildMeteoraDammV2BuyInstructions, buildMeteoraDammV2SellInstructions, Thrown
<1>3. MeteoraSwap(r, in, out) = <<x>>
  BY DEF MeteoraSwap, Swap, SwapStep
<1>4. x.op = "swap" /\ x.from = in /\ x.to = out /\ x.in = r.amount /\ x.out = Fixed(r)
  BY DEF SwapStep
<1> HIDE DEF in, out, x
<1>5. Intent(r, plan).pays = in /\ Intent(r, plan).receives = out
  <2>1. CoinOf(r) = IF r.side = "buy" THEN in ELSE out
    BY <1>1, <1>2, EndsAre, MatchIs
  <2> QED BY <1>2, <2>1, EndsAre
<1>6. Serves(Intent(r, plan), x)
  <2> DEFINE t == Intent(r, plan)
  <2>1. /\ t.atMost \in Nat /\ t.atLeast \in Nat /\ r.amount <= t.atMost /\ Fixed(r) \in Nat
        /\ t.atLeast = Fixed(r) /\ r.amount \in Nat
    BY <1>2, Limits DEF Sane
  <2>2. Canonical(in) = in /\ Canonical(out) = out /\ in \in Places /\ out \in Places
    BY <1>1 DEF Canonical, Mints, Places
  <2>3. x.out >= t.atLeast /\ x.in <= t.atMost /\ t.pays = in /\ t.receives = out
    BY <1>4, <1>5, <2>1
  <2> HIDE DEF t
  <2>4. IsSwap(x)
    BY <1>1, <1>4, <2>1, <2>2 DEF IsSwap
  <2>5. Serves(t, x)
    BY <1>1, <1>4, <2>1, <2>2, <2>3, <2>4 DEF Serves
  <2> QED BY <2>5 DEF t
<1> QED BY <1>1, <1>2, <1>3, <1>4, <1>6, LayoutForms

\* Bonk: accounts are created as if there were none.
LEMMA BonkForms ==
    ASSUME NEW r, Sane(r), r.pool.dex = "bonk", NEW plan,
           r.side = "buy" => plan \in buildBonkBuyInstructions(r),
           r.side # "buy" => plan \in buildBonkSellInstructions(r)
    PROVE  \E x : PlanForm(r, plan, x)
<1> DEFINE q == r.pool.quote
           in == IF r.side = "buy" THEN q ELSE r.mint
           out == IF r.side = "buy" THEN r.mint ELSE q
           limit == IF Fixed(r) # 0 THEN Fixed(r) ELSE Less(r.estimate, r.bps)
           x == SwapStep("exactIn", in, out, r.amount, limit)
           t == Intent(r, plan)
<1>1. /\ q \in Mints /\ r.mint \in Mints /\ q # r.mint /\ r.amount \in Nat /\ "WSOL" \in Mints
      /\ r.mint \in {r.pool.base, r.pool.quote} /\ r.mint # "WSOL"
  BY DEF Sane, Mints
<1>2. x.op = "swap" /\ x.from = in /\ x.to = out /\ x.in = r.amount /\ x.out = limit
  BY DEF SwapStep
<1>3. BonkSwap(r, in, out) = <<x>>
  BY DEF BonkSwap, Swap, SwapStep
<1> HIDE DEF x
<1>4. t.pays = in /\ t.receives = out
  <2>1. CoinOf(r) = q
    BY <1>1, EndsAre
  <2> QED BY <2>1, EndsAre
<1>5. Serves(t, x)
  <2>1. /\ t.atMost \in Nat /\ t.atLeast \in Nat /\ r.amount <= t.atMost /\ Fixed(r) \in Nat
        /\ t.atLeast <= limit /\ limit \in Nat
    <3>1. Less(r.estimate, r.bps) \in Nat
      BY AmountsOf
    <3>2. /\ t.atMost \in Nat /\ t.atLeast \in Nat /\ r.amount <= t.atMost /\ Fixed(r) \in Nat
          /\ Fixed(r) # 0 => t.atLeast = Fixed(r)
          /\ Fixed(r) = 0 => t.atLeast <= Less(r.estimate, r.bps)
      BY Limits
    <3> QED BY <3>1, <3>2
  <2> HIDE DEF limit, t
  <2>2. in \in Mints /\ out \in Mints /\ in # out
    BY <1>1
  <2>3. in \in Places /\ out \in Places /\ Canonical(in) = in /\ Canonical(out) = out
    BY <2>2 DEF Places, Canonical, Mints
  <2> HIDE DEF in, out
  <2>4. IsSwap(x)
    BY <1>1, <1>2, <2>1, <2>2, <2>3 DEF IsSwap
  <2>5. x.in <= t.atMost /\ x.out >= t.atLeast
    BY <1>2, <2>1
  <2> QED BY <1>2, <1>4, <2>1, <2>2, <2>3, <2>4, <2>5 DEF Serves
<1>6. CASE r.side = "buy"
  <2> DEFINE a == CreatesInput(r) /\ q = "WSOL"  b == CreatesOutput(r)
             e == When(a, CreateNew("WSOL") \o wrapSolOnly(r.amount)) \o When(b, CreateNew(r.mint))
             c == r.close /\ q = "WSOL"
  <2>1. plan = (e \o <<x>>) \o When(c, CloseAccount("WSOL"))
    BY <1>3, <1>6 DEF buildBonkBuyInstructions
  <2>2. Still(e)
    <3>1. Still(CreateNew("WSOL") \o wrapSolOnly(r.amount)) /\ Still(CreateNew(r.mint))
      BY <1>1, StillIs, PiecesAreStill
    <3> HIDE DEF a, b
    <3>2. Still(When(a, CreateNew("WSOL") \o wrapSolOnly(r.amount))) /\ Still(When(b, CreateNew(r.mint)))
      BY <3>1, PiecesAreStill
    <3> QED BY <3>2, StillIs
  <2>3. c \in BOOLEAN /\ (c => r.close /\ x.from \in Mints)
    <3>1. x.from \in Mints
      BY <1>1, <1>2, <1>6
    <3> QED BY <3>1 DEF Sane
  <2> HIDE DEF c, e
  <2>4. BuyOpening(r, e, x)
    BY <2>2 DEF BuyOpening
  <2>5. BuyForm(r, plan, x)
    BY <2>1, <2>3, <2>4 DEF BuyForm
  <2> QED BY <1>5, <1>6, <2>5 DEF PlanForm, t
<1>7. CASE r.side # "buy"
  <2> DEFINE a == CreatesOutput(r) /\ q = "WSOL"
             e == When(a, CreateNew("WSOL"))
  <2>1. plan = ((e \o <<x>>) \o When(r.close /\ q = "WSOL", CloseAccount("WSOL")))
                   \o When(r.close, CloseAccount(r.mint))
    BY <1>3, <1>7 DEF buildBonkSellInstructions
  <2>2. When(r.close /\ q = "WSOL", CloseAccount("WSOL")) = When(r.close /\ x.to = "WSOL", CloseAccount(x.to))
    <3>1. x.to = q
      BY <1>2, <1>7
    <3> QED BY <3>1 DEF When
  <2>3. Still(e)
    <3> HIDE DEF a
    <3> QED BY <1>1, PiecesAreStill
  <2> HIDE DEF e
  <2>4. SellOpening(r, e, x) /\ x.from = r.mint /\ x.from \in Mints /\ x.to \in Mints /\ x.in = r.amount
    BY <1>1, <1>2, <1>7, <2>3 DEF SellOpening
  <2>5. plan = ((e \o <<x>>) \o When(r.close /\ x.to = "WSOL", CloseAccount(x.to)))
                   \o When(r.close, CloseAccount(x.from))
    BY <2>1, <2>2, <2>4
  <2>6. SellForm(r, plan, x)
    BY <2>4, <2>5 DEF SellForm
  <2> QED BY <1>5, <1>7, <2>6 DEF PlanForm, t
<1> QED BY <1>6, <1>7

\* PumpSwap: either way through a pool.
LEMMA PumpSwapForms ==
    ASSUME NEW r, Sane(r), r.pool.dex = "pumpswap", NEW plan,
           r.side = "buy" => plan \in buildBuyInstructions(r),
           r.side # "buy" => plan \in buildSellInstructions(r)
    PROVE  \E x : PlanForm(r, plan, x)
<1> DEFINE in == Endpoints(r)[1]  out == Endpoints(r)[2]  t == Intent(r, plan)
<1>1. /\ in = IF r.side = "buy" THEN Canonical(r.coin) ELSE r.mint
      /\ out = IF r.side = "buy" THEN r.mint ELSE Canonical(r.coin)
  BY DEF Endpoints, getInputMint
<1>2. ASSUME NEW d \in quoteDirection(r) PROVE in # out /\ d \in BOOLEAN
  <2>1. Endpoints(r) = <<in, out>>
    BY DEF Endpoints
  <2>2. /\ Endpoints(r) = <<r.pool.quote, r.pool.base>> \/ Endpoints(r) = <<r.pool.base, r.pool.quote>>
        /\ d \in {r.side = "buy"} \/ d \in {r.side = "sell"}
    BY <1>2 DEF quoteDirection, Thrown
  <2> HIDE DEF in, out
  <2>3. <<in, out>> = <<r.pool.quote, r.pool.base>> \/ <<in, out>> = <<r.pool.base, r.pool.quote>>
    BY <2>1, <2>2
  <2>4. r.pool.base # r.pool.quote
    BY DEF Sane
  <2> QED BY <2>2, <2>3, <2>4
<1> HIDE DEF in, out
<1>3. in \in Mints /\ out \in Mints /\ t.pays = in /\ t.receives = out
  BY <1>1, EndsAre
<1>4. CASE r.side = "buy"
  <2>1. PICK d \in quoteDirection(r) :
           /\ Fixed(r) # 0 => d
           /\ plan = ((When(CreatesInput(r), pushCreateOrWrapUserTokenAccount(in, WrapAmount(r, d)))
                        \o When(CreatesOutput(r), Create(out))) \o PumpSwapSwap(r, in, out, d))
                          \o When(r.close, CloseAccount("WSOL"))
    BY <1>4 DEF buildBuyInstructions, in, out
  <2> DEFINE e == When(CreatesInput(r), pushCreateOrWrapUserTokenAccount(in, WrapAmount(r, d)))
                        \o When(CreatesOutput(r), Create(out))
  <2>2. d \in BOOLEAN /\ in # out
    BY <1>2
  <2>3. /\ t.atMost \in Nat /\ t.atLeast \in Nat /\ r.amount <= t.atMost
        /\ ~ExactSol(r) => t.atMost = More(r.amount, r.bps) /\ t.atLeast <= r.estimate
        /\ Fixed(r) # 0 => ExactSol(r)
        /\ r.amount \in Nat /\ r.estimate \in Nat /\ More(r.amount, r.bps) \in Nat
        /\ More(r.amount, r.bps) >= r.amount
    BY Limits, AmountsOf
  <2>4. \E x : /\ PumpSwapSwap(r, in, out, d) = <<x>> /\ Serves(t, x) /\ x.from = in /\ x.to = out
               /\ x.in <= WrapAmount(r, d) /\ WrapAmount(r, d) <= t.atMost /\ WrapAmount(r, d) \in Nat
    <3>1. CASE d /\ ~ExactSol(r)
      <4> DEFINE x == SwapStep("exactOut", in, out, More(r.amount, r.bps), r.estimate)
      <4>1. PumpSwapSwap(r, in, out, d) = <<x>>
        BY <1>4, <3>1 DEF PumpSwapSwap, Swap, SwapStep
      <4>2. x.op = "swap" /\ x.from = in /\ x.to = out /\ x.in = More(r.amount, r.bps) /\ x.out = r.estimate
        BY DEF SwapStep
      <4> HIDE DEF x, t
      <4>3. in \in Places /\ out \in Places /\ Canonical(in) = in /\ Canonical(out) = out
        BY <1>3 DEF Places, Canonical, Mints
      <4>4. IsSwap(x)
        BY <2>2, <2>3, <4>2, <4>3 DEF IsSwap
      <4>5. x.in <= t.atMost /\ x.out >= t.atLeast
        BY <2>3, <3>1, <4>2
      <4>6. Serves(t, x)
        BY <1>3, <2>2, <2>3, <4>2, <4>3, <4>4, <4>5 DEF Serves
      <4>7. WrapAmount(r, d) = More(r.amount, r.bps)
        BY <2>3, <3>1 DEF WrapAmount
      <4>8. x.in <= WrapAmount(r, d) /\ WrapAmount(r, d) <= t.atMost /\ WrapAmount(r, d) \in Nat
        <5>1. t.atMost = More(r.amount, r.bps) /\ More(r.amount, r.bps) \in Nat
          BY <2>3, <3>1
        <5> QED BY <4>2, <4>7, <5>1
      <4> QED BY <4>1, <4>2, <4>6, <4>8
    <3>2. CASE ~(d /\ ~ExactSol(r))
      <4>1. PICK x : /\ SwapFor(r, in, out) = <<x>> /\ Serves(Intent(r, plan), x)
                     /\ x.from = in /\ x.to = out /\ x.in = r.amount
        BY <1>3, <2>2, SwapForServes
      <4>2. PumpSwapSwap(r, in, out, d) = SwapFor(r, in, out) /\ WrapAmount(r, d) = r.amount
        BY <3>2 DEF PumpSwapSwap, WrapAmount
      <4>3. x.in <= WrapAmount(r, d) /\ WrapAmount(r, d) <= t.atMost /\ WrapAmount(r, d) \in Nat
        BY <2>3, <4>1, <4>2
      <4> HIDE DEF t
      <4> QED BY <4>1, <4>2, <4>3 DEF t
    <3> QED BY <3>1, <3>2
  <2>5. PICK x : /\ PumpSwapSwap(r, in, out, d) = <<x>> /\ Serves(t, x) /\ x.from = in /\ x.to = out
                 /\ x.in <= WrapAmount(r, d) /\ WrapAmount(r, d) <= t.atMost /\ WrapAmount(r, d) \in Nat
    BY <2>4
  <2>6. t.atMost = Intent(r, <<>>).atMost
    BY DEF Intent
  <2>7. BuyOpening(r, e, x)
    <3> DEFINE n == WrapAmount(r, d)
    <3>1. n \in Nat /\ x.in <= n /\ n <= Intent(r, <<>>).atMost /\ x.from = in /\ x.to = out
      BY <2>5, <2>6
    <3>2. e = When(CreatesInput(r), pushCreateOrWrapUserTokenAccount(x.from, n)) \o When(CreatesOutput(r), Create(x.to))
      BY <3>1
    <3> HIDE DEF n, e
    <3> QED BY <1>3, <3>1, <3>2 DEF BuyOpening
  <2>8. /\ plan = (e \o <<x>>) \o When(r.close, CloseAccount("WSOL")) /\ r.close \in BOOLEAN
        /\ x.from \in Mints
    BY <1>3, <2>1, <2>5 DEF Sane
  <2> HIDE DEF e
  <2>9. BuyForm(r, plan, x)
    BY <2>7, <2>8 DEF BuyForm
  <2> QED BY <1>4, <2>5, <2>9 DEF PlanForm
<1>5. CASE r.side # "buy"
  <2>1. PICK d \in quoteDirection(r) : plan = SellLayout(r, in, out, PumpSwapSwap(r, in, out, ~d))
    BY <1>5 DEF buildSellInstructions, in, out
  <2>2. PumpSwapSwap(r, in, out, ~d) = SwapFor(r, in, out)
    BY <1>5 DEF PumpSwapSwap
  <2>3. plan = SellLayout(r, in, out, SwapFor(r, in, out)) /\ in # out
    BY <1>2, <2>1, <2>2
  <2> QED BY <1>3, <1>5, <2>3, SidesForm DEF t
<1> QED BY <1>4, <1>5

\* A purchase from a curve, paid with lamports or with a token.
LEMMA CurveBuyServes ==
    ASSUME NEW r, Sane(r), r.pool.dex = "pumpfun", NEW plan, NEW in \in Places, in # "T",
           Canonical(in) = Intent(r, plan).pays, Intent(r, plan).receives = "T",
           ~(ExactSol(r) /\ Fixed(r) = 0 /\ r.pool.minimum # 0)
    PROVE  \E x : /\ PumpFunBuySwap(r, in) = <<x>> /\ Serves(Intent(r, plan), x) /\ x.from = in /\ x.to = "T"
                  /\ x.in <= WrapAmount(r, TRUE) /\ WrapAmount(r, TRUE) <= Intent(r, plan).atMost
                  /\ WrapAmount(r, TRUE) \in Nat
<1> DEFINE t == Intent(r, plan)
           x == IF Fixed(r) = 0 /\ ExactSol(r)
                THEN SwapStep("exactIn", in, "T", r.amount, AtLeastOne(Less(r.estimate, r.bps)))
                ELSE IF Fixed(r) # 0 THEN SwapStep("exactOut", in, "T", r.amount, Fixed(r))
                ELSE SwapStep("exactOut", in, "T", More(r.amount, r.bps), r.estimate)
<1>1. PumpFunBuySwap(r, in) = <<x>> /\ r.mint = "T"
  BY DEF PumpFunBuySwap, Swap, SwapStep, Sane
<1>2. /\ x.op = "swap" /\ x.from = in /\ x.to = "T"
      /\ x.in = IF ExactSol(r) \/ Fixed(r) # 0 THEN r.amount ELSE More(r.amount, r.bps)
      /\ x.out = IF Fixed(r) # 0 THEN Fixed(r)
                 ELSE IF ExactSol(r) THEN AtLeastOne(Less(r.estimate, r.bps)) ELSE r.estimate
  BY DEF SwapStep
<1> HIDE DEF x
<1>3. /\ t.atMost \in Nat /\ t.atLeast \in Nat /\ r.amount <= t.atMost /\ Fixed(r) \in Nat
      /\ ~ExactSol(r) => t.atMost = More(r.amount, r.bps) /\ t.atLeast <= r.estimate
      /\ Fixed(r) # 0 => t.atLeast = Fixed(r) /\ ExactSol(r)
      /\ Fixed(r) = 0 /\ ExactSol(r) => t.atLeast <= Less(r.estimate, r.bps)
  <2>1. Fixed(r) = 0 /\ ExactSol(r) => V3Minimum(r) = 0
    BY DEF V3Minimum
  <2> QED BY <2>1, Limits
<1>4. /\ r.amount \in Nat /\ r.estimate \in Nat /\ More(r.amount, r.bps) \in Nat
      /\ AtLeastOne(Less(r.estimate, r.bps)) \in Nat
      /\ AtLeastOne(Less(r.estimate, r.bps)) >= Less(r.estimate, r.bps) /\ Less(r.estimate, r.bps) \in Nat
  BY AmountsOf
<1> HIDE DEF t
<1>5. /\ x.in \in Nat /\ x.out \in Nat /\ x.in <= t.atMost /\ x.out >= t.atLeast
  BY <1>2, <1>3, <1>4
<1>6. "T" \in Places /\ Canonical("T") = "T" /\ "T" \in Mints /\ Canonical(in) \in Mints /\ Canonical(in) # "T"
  BY DEF Places, Canonical, Mints
<1>7. IsSwap(x)
  BY <1>2, <1>5, <1>6 DEF IsSwap
<1>8. Serves(t, x)
  BY <1>2, <1>3, <1>5, <1>6, <1>7 DEF Serves, t
<1> DEFINE n == WrapAmount(r, TRUE)
<1>9. n = IF ExactSol(r) \/ Fixed(r) # 0 THEN r.amount ELSE More(r.amount, r.bps)
  BY DEF WrapAmount
<1> HIDE DEF n
<1>10. x.in <= n /\ n <= t.atMost /\ n \in Nat
  BY <1>2, <1>3, <1>4, <1>9
<1> QED BY <1>1, <1>2, <1>8, <1>10 DEF t, n

\* A sale to a curve, for a minimum of its own or the caller's.
LEMMA CurveSellServes ==
    ASSUME NEW r, Sane(r), r.pool.dex = "pumpfun", NEW plan, NEW out \in Places, out # "T",
           Canonical(out) = Intent(r, plan).receives, Intent(r, plan).pays = "T", NEW limit,
           limit = IF V3Minimum(r) # 0 THEN V3Minimum(r) ELSE AtLeastOne(Less(r.estimate, r.bps)),
           r.side # "buy"
    PROVE  LET x == SwapStep("exactIn", "T", out, r.amount, limit)
           IN  Serves(Intent(r, plan), x) /\ x.from = "T" /\ x.to = out /\ x.in = r.amount
<1> DEFINE t == Intent(r, plan)  x == SwapStep("exactIn", "T", out, r.amount, limit)
<1>1. x.op = "swap" /\ x.from = "T" /\ x.to = out /\ x.in = r.amount /\ x.out = limit
  BY DEF SwapStep
<1> HIDE DEF x
<1>2. /\ t.atMost \in Nat /\ t.atLeast \in Nat /\ r.amount <= t.atMost /\ r.amount \in Nat
      /\ V3Minimum(r) # 0 => t.atLeast = V3Minimum(r)
      /\ V3Minimum(r) = 0 => t.atLeast <= Less(r.estimate, r.bps)
  <2>1. ExactSol(r)
    BY DEF Sane, ExactSol
  <2> QED BY <2>1, Limits DEF Sane
<1>3. /\ AtLeastOne(Less(r.estimate, r.bps)) \in Nat
      /\ AtLeastOne(Less(r.estimate, r.bps)) >= Less(r.estimate, r.bps) /\ Less(r.estimate, r.bps) \in Nat
  BY AmountsOf
<1> HIDE DEF t
<1>4. limit \in Nat /\ limit >= t.atLeast
  BY <1>2, <1>3
<1>5. "T" \in Places /\ Canonical("T") = "T" /\ "T" \in Mints /\ Canonical(out) \in Mints /\ Canonical(out) # "T"
  BY DEF Places, Canonical, Mints
<1>6. IsSwap(x)
  BY <1>1, <1>2, <1>4, <1>5 DEF IsSwap
<1>7. Serves(t, x)
  BY <1>1, <1>2, <1>4, <1>5, <1>6 DEF Serves, t
<1> QED BY <1>1, <1>7 DEF t, x

\* V1: lamports for the token, or the token for lamports.
LEMMA V1Forms ==
    ASSUME NEW r, Sane(r), r.pool.dex = "pumpfun", r.pool.minimum = 0, r.coin = "SOL", NEW plan,
           r.side = "buy" => plan = When(CreatesOutput(r), Create(r.mint)) \o PumpFunBuySwap(r, "SOL"),
           r.side # "buy" => plan = PumpFunSellSwap(r, "SOL") \o When(r.close, CloseAccount(r.mint))
    PROVE  \E x : PlanForm(r, plan, x)
<1> DEFINE sol == "SOL"
<1>1. sol \in Places /\ sol # "T" /\ Canonical(sol) = "WSOL" /\ r.mint = "T" /\ "T" \in Mints
  BY DEF Places, Canonical, Sane, Mints
<1>2. CoinOf(r) = "WSOL"
  BY <1>1, EndsAre
<1>3. CASE r.side = "buy"
  <2>1. Intent(r, plan).pays = Canonical(sol) /\ Intent(r, plan).receives = "T"
    BY <1>1, <1>2, <1>3, EndsAre
  <2> HIDE DEF sol
  <2>2. PICK x : /\ PumpFunBuySwap(r, sol) = <<x>> /\ Serves(Intent(r, plan), x) /\ x.from = sol /\ x.to = "T"
                 /\ x.in <= WrapAmount(r, TRUE) /\ WrapAmount(r, TRUE) <= Intent(r, plan).atMost
                 /\ WrapAmount(r, TRUE) \in Nat
    BY <1>1, <2>1, CurveBuyServes
  <2> DEFINE e == When(CreatesOutput(r), Create(r.mint))
  <2>3. plan = e \o <<x>>
    BY <1>3, <2>2 DEF sol
  <2>4. BuyOpening(r, e, x)
    BY <1>1, <2>2 DEF BuyOpening, sol
  <2> HIDE DEF e
  <2>5. BuyForm(r, plan, x)
    BY <2>3, <2>4 DEF BuyForm
  <2> QED BY <1>3, <2>2, <2>5 DEF PlanForm
<1>4. CASE r.side # "buy"
  <2> DEFINE limit == IF V3Minimum(r) # 0 THEN V3Minimum(r) ELSE AtLeastOne(Less(r.estimate, r.bps))
             x == SwapStep("exactIn", "T", sol, r.amount, limit)
  <2>1. Intent(r, plan).receives = Canonical(sol) /\ Intent(r, plan).pays = "T"
    BY <1>1, <1>2, <1>4, EndsAre
  <2>2. PumpFunSellSwap(r, sol) = <<x>>
    BY <1>1 DEF PumpFunSellSwap, Swap, SwapStep, V3Minimum
  <2>3. plan = <<x>> \o When(r.close, CloseAccount(r.mint))
    <3> HIDE DEF x
    <3> QED BY <1>4, <2>2
  <2> HIDE DEF limit, sol
  <2>4. Serves(Intent(r, plan), x) /\ x.from = "T" /\ x.to = sol /\ x.in = r.amount
    BY <1>1, <1>4, <2>1, CurveSellServes DEF limit
  <2> HIDE DEF x
  <2>5. SellForm(r, plan, x)
    BY <1>1, <2>3, <2>4 DEF SellForm, sol
  <2> QED BY <1>4, <2>4, <2>5 DEF PlanForm
<1> QED BY <1>3, <1>4

\* V2: the curve's quote, which is wrapped SOL on a native curve.
LEMMA V2Forms ==
    ASSUME NEW r, Sane(r), r.pool.dex = "pumpfun", r.pool.minimum = 0, NEW plan,
           r.side = "buy" => plan \in buildPumpFunBuyV2Instructions(r),
           r.side # "buy" => plan \in buildPumpFunSellV2Instructions(r)
    PROVE  \E x : PlanForm(r, plan, x)
<1> DEFINE q == r.pool.quote
<1>1. q \in Mints /\ q \in Places /\ q # "T" /\ Canonical(q) = q /\ r.mint = "T" /\ "T" \in Mints
  BY DEF Places, Canonical, Sane, Mints
<1>2. CoinOf(r) = q
  <2>1. validateV2QuoteMint(r)
    BY DEF buildPumpFunBuyV2Instructions, buildPumpFunSellV2Instructions, Thrown
  <2>2. Canonical(r.coin) = q
    BY <1>1, <2>1 DEF validateV2QuoteMint, Native, Canonical
  <2> QED BY <2>2, EndsAre
<1>3. CASE r.side = "buy"
  <2> DEFINE n == WrapAmount(r, TRUE)
             e == When(CreatesOutput(r), Create(r.mint))
                      \o When(CreatesInput(r), pushCreateOrWrapUserTokenAccount(q, n))
             c == r.close /\ Native(r)
  <2>1. Intent(r, plan).pays = Canonical(q) /\ Intent(r, plan).receives = "T"
    BY <1>1, <1>2, <1>3, EndsAre
  <2>2. plan = (e \o PumpFunBuySwap(r, q)) \o When(c, CloseAccount("WSOL"))
    BY <1>3 DEF buildPumpFunBuyV2Instructions, Thrown
  <2> HIDE DEF q
  <2>3. PICK x : /\ PumpFunBuySwap(r, q) = <<x>> /\ Serves(Intent(r, plan), x) /\ x.from = q /\ x.to = "T"
                 /\ x.in <= n /\ n <= Intent(r, plan).atMost /\ n \in Nat
    BY <1>1, <2>1, CurveBuyServes
  <2>4. Intent(r, plan).atMost = Intent(r, <<>>).atMost
    BY DEF Intent
  <2>5. e = When(CreatesOutput(r), Create(x.to)) \o When(CreatesInput(r), pushCreateOrWrapUserTokenAccount(x.from, n))
    BY <1>1, <2>3
  <2>6. c \in BOOLEAN /\ (c => r.close /\ x.from \in Mints) /\ plan = (e \o <<x>>) \o When(c, CloseAccount("WSOL"))
    BY <1>1, <2>2, <2>3 DEF Sane
  <2> HIDE DEF c, e, n
  <2>7. BuyOpening(r, e, x)
    BY <1>1, <2>3, <2>4, <2>5 DEF BuyOpening
  <2>8. BuyForm(r, plan, x)
    BY <2>6, <2>7 DEF BuyForm
  <2> QED BY <1>3, <2>3, <2>8 DEF PlanForm
<1>4. CASE r.side # "buy"
  <2> DEFINE limit == IF V3Minimum(r) # 0 THEN V3Minimum(r) ELSE AtLeastOne(Less(r.estimate, r.bps))
             x == SwapStep("exactIn", "T", q, r.amount, limit)
             e == When(CreatesOutput(r), Create(q))
  <2>1. Intent(r, plan).receives = Canonical(q) /\ Intent(r, plan).pays = "T"
    BY <1>1, <1>2, <1>4, EndsAre
  <2>2. PumpFunSellSwap(r, q) = <<x>>
    BY <1>1 DEF PumpFunSellSwap, Swap, SwapStep, V3Minimum
  <2>3. plan = (e \o <<x>>) \o When(r.close, CloseAccount(r.mint))
    <3> HIDE DEF x
    <3> QED BY <1>4, <2>2 DEF buildPumpFunSellV2Instructions, Thrown
  <2> HIDE DEF limit, q
  <2>4. Serves(Intent(r, plan), x) /\ x.from = "T" /\ x.to = q /\ x.in = r.amount
    BY <1>1, <1>4, <2>1, CurveSellServes DEF limit
  <2>5. SellOpening(r, e, x)
    BY <1>1, <2>4 DEF SellOpening
  <2> HIDE DEF x, e
  <2>6. SellForm(r, plan, x)
    BY <1>1, <2>3, <2>4, <2>5 DEF SellForm
  <2> QED BY <1>4, <2>4, <2>6 DEF PlanForm
<1> QED BY <1>3, <1>4

\* V3: lamports on a native curve, else the curve's quote.
LEMMA V3Forms ==
    ASSUME NEW r, Sane(r), r.pool.dex = "pumpfun", NEW plan, plan \in buildPumpFunV3Instructions(r)
    PROVE  \E x : PlanForm(r, plan, x)
<1> DEFINE q == r.pool.quote
           coin == IF Native(r) THEN "SOL" ELSE q
           least == IF V3Minimum(r) # 0 THEN V3Minimum(r) ELSE AtLeastOne(Less(r.estimate, r.bps))
           exact == ExactSol(r) /\ Fixed(r) = 0 /\ r.pool.minimum # 0
           swap == IF r.side = "sell" THEN Swap("exactIn", r.mint, coin, r.amount, least)
                   ELSE IF exact THEN Swap("exactIn", coin, r.mint, r.amount, r.pool.minimum)
                   ELSE PumpFunBuySwap(r, coin)
           a == r.side = "buy" /\ CreatesOutput(r)
           b == ~Native(r) /\ (IF r.side = "buy" THEN CreatesInput(r) ELSE CreatesOutput(r))
           c == r.side = "sell" /\ r.close
           e == When(a, Create(r.mint)) \o When(b, Create(q))
<1>1. ~V3Refuses(r) /\ plan = (e \o swap) \o When(c, CloseAccount(r.mint))
  BY DEF buildPumpFunV3Instructions, Thrown
<1>2. r.coin = coin
  <2>1. getInputMint(r.coin) = coin
    <3>1. getInputMint(r.coin) # coin => V3Refuses(r)
      BY DEF V3Refuses
    <3>2. ~V3Refuses(r)
      BY <1>1
    <3> HIDE DEF coin
    <3> QED BY <3>1, <3>2
  <2> QED BY <2>1 DEF getInputMint
<1>3. /\ q \in Mints /\ q # "T" /\ r.mint = "T" /\ "T" \in Mints /\ coin \in Places /\ coin # "T"
      /\ (Native(r) <=> q = "WSOL") /\ r.side \in {"buy", "sell"}
  BY DEF Places, Sane, Mints, Native
<1>4. CoinOf(r) = Canonical(coin)
  BY <1>2, EndsAre
<1>5. CASE r.side = "buy"
  <2>1. Intent(r, plan).pays = Canonical(coin) /\ Intent(r, plan).receives = "T"
    BY <1>3, <1>4, <1>5, EndsAre
  <2>2. \E x : swap = <<x>> /\ Serves(Intent(r, plan), x) /\ x.from = coin /\ x.to = "T"
    <3>1. CASE exact
      <4> DEFINE x == SwapStep("exactIn", coin, r.mint, r.amount, r.pool.minimum)  t == Intent(r, plan)
      <4>1. swap = <<x>>
        BY <1>5, <3>1 DEF Swap, SwapStep
      <4>2. x.op = "swap" /\ x.from = coin /\ x.to = "T" /\ x.in = r.amount /\ x.out = r.pool.minimum
        BY <1>3 DEF SwapStep
      <4>3. /\ t.atMost \in Nat /\ t.atLeast \in Nat /\ r.amount <= t.atMost /\ t.atLeast = r.pool.minimum
            /\ r.amount \in Nat /\ r.pool.minimum \in Nat
        BY <3>1, Limits DEF Sane
      <4> HIDE DEF x, t, swap, coin
      <4>4. /\ "T" \in Places /\ Canonical("T") = "T" /\ Canonical(coin) \in Mints /\ Canonical(coin) # "T"
        BY <1>3 DEF Places, Canonical, Mints
      <4>5. IsSwap(x)
        BY <1>3, <4>2, <4>3, <4>4 DEF IsSwap
      <4>6. x.in <= t.atMost /\ x.out >= t.atLeast
        BY <4>2, <4>3
      <4>7. Serves(t, x)
        BY <1>3, <2>1, <4>2, <4>3, <4>4, <4>5, <4>6 DEF Serves, t
      <4> QED BY <4>1, <4>2, <4>7 DEF t
    <3>2. CASE ~exact
      <4>1. swap = PumpFunBuySwap(r, coin)
        BY <1>5, <3>2
      <4> HIDE DEF coin, swap
      <4>2. PICK x : /\ PumpFunBuySwap(r, coin) = <<x>> /\ Serves(Intent(r, plan), x)
                     /\ x.from = coin /\ x.to = "T"
                     /\ x.in <= WrapAmount(r, TRUE) /\ WrapAmount(r, TRUE) <= Intent(r, plan).atMost
                     /\ WrapAmount(r, TRUE) \in Nat
        BY <1>3, <2>1, <3>2, CurveBuyServes
      <4> QED BY <4>1, <4>2
    <3> QED BY <3>1, <3>2
  <2>3. PICK x : swap = <<x>> /\ Serves(Intent(r, plan), x) /\ x.from = coin /\ x.to = "T"
    BY <2>2
  <2>4. plan = (e \o <<x>>) \o When(FALSE, CloseAccount("WSOL"))
    BY <1>1, <1>5, <2>3 DEF When
  <2>5. BuyOpening(r, e, x)
    <3>1. CASE Native(r)
      <4>1. e = When(CreatesOutput(r), Create(x.to)) \o <<>> /\ x.from = "SOL"
        BY <1>3, <1>5, <2>3, <3>1 DEF When
      <4> HIDE DEF e
      <4> QED BY <1>3, <2>3, <4>1 DEF BuyOpening
    <3>2. CASE ~Native(r)
      <4>1. e = When(CreatesOutput(r), Create(x.to)) \o When(CreatesInput(r), Create(x.from)) /\ x.from = q
        BY <1>3, <1>5, <2>3, <3>2 DEF When
      <4> HIDE DEF e
      <4> QED BY <1>3, <2>3, <3>2, <4>1 DEF BuyOpening
    <3> QED BY <3>1, <3>2
  <2> DEFINE no == FALSE
  <2>6. no \in BOOLEAN /\ ~no /\ plan = (e \o <<x>>) \o When(no, CloseAccount("WSOL"))
    BY <2>4
  <2> HIDE DEF e, no
  <2>7. BuyForm(r, plan, x)
    BY <2>5, <2>6 DEF BuyForm
  <2> QED BY <1>5, <2>3, <2>7 DEF PlanForm
<1>6. CASE r.side # "buy"
  <2> DEFINE x == SwapStep("exactIn", "T", coin, r.amount, least)
  <2>1. Intent(r, plan).receives = Canonical(coin) /\ Intent(r, plan).pays = "T"
    BY <1>3, <1>4, <1>6, EndsAre
  <2>2. swap = <<x>> /\ r.side = "sell"
    BY <1>3, <1>6 DEF Swap, SwapStep
  <2>3. Serves(Intent(r, plan), x) /\ x.from = "T" /\ x.to = coin /\ x.in = r.amount
    <3> HIDE DEF coin, x
    <3>1. LET y == SwapStep("exactIn", "T", coin, r.amount, least)
          IN  Serves(Intent(r, plan), y) /\ y.from = "T" /\ y.to = coin /\ y.in = r.amount
      BY <1>3, <1>6, <2>1, CurveSellServes
    <3> QED BY <3>1 DEF x
  <2>4. plan = (e \o <<x>>) \o When(r.close, CloseAccount(x.from))
    <3>1. When(c, CloseAccount(r.mint)) = When(r.close, CloseAccount(x.from))
      BY <1>3, <2>2, <2>3 DEF When
    <3> HIDE DEF x, swap, c
    <3> QED BY <1>1, <2>2, <3>1
  <2>5. SellOpening(r, e, x)
    <3> HIDE DEF x
    <3>1. CASE Native(r)
      <4>1. e = <<>> \o <<>> /\ x.to = "SOL"
        BY <1>3, <1>6, <2>3, <3>1 DEF When
      <4> HIDE DEF e
      <4> QED BY <4>1 DEF SellOpening
    <3>2. CASE ~Native(r)
      <4>1. e = <<>> \o When(CreatesOutput(r), Create(x.to)) /\ x.to = q
        BY <1>3, <1>6, <2>3, <3>2 DEF When
      <4> HIDE DEF e
      <4> QED BY <1>3, <4>1 DEF SellOpening
    <3> QED BY <3>1, <3>2
  <2> HIDE DEF x, e
  <2>6. SellForm(r, plan, x)
    BY <1>3, <2>3, <2>4, <2>5 DEF SellForm
  <2> QED BY <1>6, <2>3, <2>6 DEF PlanForm
<1> QED BY <1>5, <1>6

\* The version of a curve picks the builder.
LEMMA PumpFunForms ==
    ASSUME NEW r, Sane(r), r.pool.dex = "pumpfun", NEW plan,
           r.side = "buy" => plan \in buildPumpFunBuyInstructions(r),
           r.side # "buy" => plan \in buildPumpFunSellInstructions(r)
    PROVE  \E x : PlanForm(r, plan, x)
<1>0. r.pool.variant \in {"V1", "V2", "V3", "any"} /\ (r.pool.variant # "V3" => r.pool.minimum = 0)
  BY DEF Sane
<1>1. CASE r.pool.variant = "V3"
  <2>1. plan \in buildPumpFunV3Instructions(r)
    BY <1>1 DEF buildPumpFunBuyInstructions, buildPumpFunSellInstructions
  <2> QED BY <2>1, V3Forms
<1>2. CASE \/ r.pool.variant = "V2"
           \/ r.pool.variant = "any" /\ usesPumpFunV2Layout(r)
  <2>1. /\ r.side = "buy" => plan \in buildPumpFunBuyV2Instructions(r)
        /\ r.side # "buy" => plan \in buildPumpFunSellV2Instructions(r)
    BY <1>2 DEF buildPumpFunBuyInstructions, buildPumpFunSellInstructions
  <2>2. r.pool.minimum = 0
    BY <1>0, <1>2
  <2> QED BY <2>1, <2>2, V2Forms
<1>3. CASE \/ r.pool.variant = "V1"
           \/ r.pool.variant = "any" /\ ~usesPumpFunV2Layout(r)
  <2>1. /\ r.side = "buy" => plan = When(CreatesOutput(r), Create(r.mint)) \o PumpFunBuySwap(r, "SOL")
        /\ r.side # "buy" => plan = PumpFunSellSwap(r, "SOL") \o When(r.close, CloseAccount(r.mint))
        /\ r.coin = "SOL"
    <3>1. CASE r.pool.variant = "V1"
      BY <3>1 DEF buildPumpFunBuyInstructions, buildPumpFunSellInstructions, Thrown
    <3>2. CASE r.pool.variant = "any" /\ ~usesPumpFunV2Layout(r)
      BY <3>2 DEF buildPumpFunBuyInstructions, buildPumpFunSellInstructions, Thrown
    <3> QED BY <1>3, <3>1, <3>2
  <2>2. r.pool.minimum = 0
    BY <1>0, <1>3
  <2> QED BY <2>1, <2>2, V1Forms
<1> QED BY <1>0, <1>1, <1>2, <1>3

\* Whatever the request, a plan is the swap that was asked for, within its limits, and
\* what is created, wrapped and closed around it.
LEMMA Builds ==
    ASSUME NEW r \in TradeRequests, NEW plan \in buildInstructions(r)
    PROVE  Sane(r) /\ \E x : PlanForm(r, plan, x) /\ Serves(Intent(r, plan), x) /\ Swaps(x, plan)
<1>1. Sane(r)
  <2>1. validateSlippage(r.bps)
    BY DEF buildInstructions, Thrown
  <2> QED BY <2>1, RequestIsSane
<1>2. /\ r.side = "buy" => plan \in BuildersOfBuy(r)
      /\ r.side # "buy" => plan \in BuildersOfSell(r)
  BY DEF buildInstructions, Thrown
<1>3. \E x : PlanForm(r, plan, x)
  <2>1. CASE r.pool.dex = "pumpfun"
    <3>1. /\ r.side = "buy" => plan \in buildPumpFunBuyInstructions(r)
          /\ r.side # "buy" => plan \in buildPumpFunSellInstructions(r)
      BY <1>2, <2>1 DEF BuildersOfBuy, BuildersOfSell
    <3> QED BY <1>1, <2>1, <3>1, PumpFunForms
  <2>2. CASE r.pool.dex = "pumpswap"
    <3>1. /\ r.side = "buy" => plan \in buildBuyInstructions(r)
          /\ r.side # "buy" => plan \in buildSellInstructions(r)
      BY <1>2, <2>2 DEF BuildersOfBuy, BuildersOfSell
    <3> QED BY <1>1, <2>2, <3>1, PumpSwapForms
  <2>3. CASE r.pool.dex = "bonk"
    <3>1. /\ r.side = "buy" => plan \in buildBonkBuyInstructions(r)
          /\ r.side # "buy" => plan \in buildBonkSellInstructions(r)
      BY <1>2, <2>3 DEF BuildersOfBuy, BuildersOfSell
    <3> QED BY <1>1, <2>3, <3>1, BonkForms
  <2>4. CASE r.pool.dex = "cpmm"
    <3>1. /\ r.side = "buy" => plan \in buildRaydiumCpmmBuyInstructions(r)
          /\ r.side # "buy" => plan \in buildRaydiumCpmmSellInstructions(r)
      BY <1>2, <2>4 DEF BuildersOfBuy, BuildersOfSell
    <3> QED BY <1>1, <2>4, <3>1, CpmmForms
  <2>5. CASE r.pool.dex = "ammV4"
    <3>1. /\ r.side = "buy" => plan \in buildRaydiumAmmV4BuyInstructions(r)
          /\ r.side # "buy" => plan \in buildRaydiumAmmV4SellInstructions(r)
      BY <1>2, <2>5 DEF BuildersOfBuy, BuildersOfSell
    <3> QED BY <1>1, <2>5, <3>1, AmmV4Forms
  <2>6. CASE r.pool.dex \notin {"pumpfun", "pumpswap", "bonk", "cpmm", "ammV4"}
    <3>1. /\ r.side = "buy" => plan \in buildMeteoraDammV2BuyInstructions(r)
          /\ r.side # "buy" => plan \in buildMeteoraDammV2SellInstructions(r)
      BY <1>2, <2>6 DEF BuildersOfBuy, BuildersOfSell
    <3> QED BY <1>1, <2>6, <3>1, MeteoraForms
  <2> QED BY <2>1, <2>2, <2>3, <2>4, <2>5, <2>6
<1> QED BY <1>1, <1>3, FormSwaps DEF PlanForm

-----------------------------------------------------------------------------
(* The wallet between transactions.                                        *)

TypedPlan(s) == Plan(s) /\ \A i \in 1..Len(s) : Typed(s[i])

\* What is under way was built for a request, or is a transaction of the wallet's own.
WalletInv ==
    /\ WalletOK
    /\ trade # NoTrade => \/ \E r \in TradeRequests : \E plan \in buildInstructions(r) : trade = Intent(r, plan)
                          \/ trade.dex = "wallet" /\ TypedPlan(trade.plan)

\* Plans that are typed, and what they lead to.
LEMMA TypedPlanIs ==
    /\ \A i : Typed(i) => TypedPlan(<<i>>)
    /\ \A s : Still(s) => TypedPlan(s)
    /\ \A s, t : TypedPlan(s) /\ TypedPlan(t) => TypedPlan(s \o t)
<1>1. ASSUME NEW i, Typed(i) PROVE TypedPlan(<<i>>)
  <2>1. Plan(<<i>>) /\ Len(<<i>>) = 1 /\ <<i>>[1] = i
    BY PlanIs
  <2>2. \A j \in 1..1 : j = 1
    OBVIOUS
  <2> QED BY <1>1, <2>1, <2>2 DEF TypedPlan
<1>2. ASSUME NEW s, Still(s) PROVE TypedPlan(s)
  BY <1>2 DEF Still, TypedPlan, Typed
<1>3. ASSUME NEW s, NEW t, TypedPlan(s), TypedPlan(t) PROVE TypedPlan(s \o t)
  <2>1. /\ Plan(s \o t) /\ Len(s \o t) = Len(s) + Len(t) /\ Len(s) \in Nat /\ Len(t) \in Nat
        /\ \A i \in 1..Len(s) : (s \o t)[i] = s[i]
        /\ \A i \in 1..Len(t) : (s \o t)[Len(s) + i] = t[i]
    <3>1. Plan(s) /\ Plan(t)
      BY <1>3 DEF TypedPlan
    <3> QED BY <3>1, PlanIs DEF Plan
  <2>2. ASSUME NEW i \in 1..Len(s \o t) PROVE Typed((s \o t)[i])
    <3>1. CASE i \in 1..Len(s)
      BY <1>3, <2>1, <3>1 DEF TypedPlan
    <3>2. CASE i \notin 1..Len(s)
      <4> DEFINE j == i - Len(s)
      <4>1. j \in 1..Len(t) /\ Len(s) + j = i
        BY <2>1, <3>2
      <4> HIDE DEF j
      <4>2. (s \o t)[Len(s) + j] = t[j]
        BY <2>1, <4>1
      <4> QED BY <1>3, <4>1, <4>2 DEF TypedPlan
    <3> QED BY <3>1, <3>2
  <2> QED BY <2>1, <2>2 DEF TypedPlan
<1> QED BY <1>1, <1>2, <1>3

\* They leave a wallet.
LEMMA TypedPlanRuns ==
    ASSUME NEW w, IsWallet(w), NEW s, TypedPlan(s), NEW v \in Outcomes(w, s)
    PROVE  IsWallet(v)
<1> DEFINE F == [i \in 0..Len(s) |-> AllWallets]
<1>1. Plan(s) /\ Len(s) \in Nat /\ \A i \in 1..Len(s) : Typed(s[i])
  BY DEF TypedPlan, Plan
<1>2. F[0] = AllWallets /\ F[Len(s)] = AllWallets
  BY <1>1
<1>3. ASSUME NEW i \in 1..Len(s) PROVE Turns(F[i - 1], s[i], F[i])
  <2>1. F[i - 1] = AllWallets /\ F[i] = AllWallets
    BY <1>1
  <2>2. ASSUME NEW u \in AllWallets, NEW z \in Step(s[i], u) PROVE z \in AllWallets
    <3>1. IsWallet(u) /\ Typed(s[i])
      BY <1>1, <2>2, WalletsAre
    <3>2. z \in Run(s[i], u) \/ z = u
      BY <2>2 DEF Step
    <3> QED BY <2>2, <3>1, <3>2, RunTyped, WalletsAre
  <2> QED BY <2>1, <2>2 DEF Turns
<1> HIDE DEF F
<1>4. Leads(AllWallets, s, AllWallets)
  BY <1>1, <1>2, <1>3 DEF Leads
<1> QED BY <1>4, LeadsEnd, WalletsAre

\* The wallet's own transactions.
LEMMA OwnPlansAreTyped ==
    ASSUME NEW n \in Nat
    PROVE  \A plan \in {handleWsol(n), wrapSolOnly(n), wrapWsolToSol(n),
                        wrapWsolToSolWithoutCreate(n), CloseAccount("WSOL"), CloseAccount("T"),
                        Create("WSOL"), claimCashbackPumpfun, claimCashbackPumpswap} : TypedPlan(plan)
<1>1. "WSOL" \in Mints /\ "T" \in Mints /\ "SOL" \in Places /\ "WSOL" \in Places
  BY DEF Mints, Places
<1>2. /\ TypedPlan(Create("WSOL")) /\ TypedPlan(CloseAccount("WSOL")) /\ TypedPlan(CloseAccount("T"))
      /\ TypedPlan(wrapSolOnly(n))
  <2>1. /\ Still(Create("WSOL")) /\ Still(CloseAccount("WSOL")) /\ Still(CloseAccount("T"))
        /\ Still(wrapSolOnly(n))
    BY <1>1, PiecesAreStill
  <2> QED BY <2>1, TypedPlanIs
<1>3. ASSUME NEW i, Typed(i) PROVE TypedPlan(<<i>>)
  BY <1>3, TypedPlanIs
<1>4. TypedPlan(<<[op |-> "move", mint |-> "WSOL", amount |-> n]>>)
  <2> DEFINE i == [op |-> "move", mint |-> "WSOL", amount |-> n]
  <2>1. Typed(i)
    BY DEF Typed
  <2> HIDE DEF i
  <2>2. TypedPlan(<<i>>)
    BY <1>3, <2>1
  <2> QED BY <2>2 DEF i
<1>5. ASSUME NEW m \in Places PROVE TypedPlan(<<[op |-> "claim", mint |-> m]>>)
  <2> DEFINE i == [op |-> "claim", mint |-> m]
  <2>1. Typed(i)
    BY DEF Typed
  <2> HIDE DEF i
  <2>2. TypedPlan(<<i>>)
    BY <1>3, <2>1
  <2> QED BY <2>2 DEF i
<1>6. TypedPlan(claimCashbackPumpfun) /\ TypedPlan(claimCashbackPumpswap)
  BY <1>1, <1>2, <1>5, TypedPlanIs DEF claimCashbackPumpfun, claimCashbackPumpswap
<1>7. TypedPlan(handleWsol(n))
  BY <1>2, TypedPlanIs DEF handleWsol
<1>8. TypedPlan(wrapWsolToSolWithoutCreate(n))
  BY <1>2, <1>4, TypedPlanIs DEF wrapWsolToSolWithoutCreate
<1>9. TypedPlan(wrapWsolToSol(n))
  BY <1>2, <1>8, TypedPlanIs DEF wrapWsolToSol
<1> QED BY <1>2, <1>6, <1>7, <1>8, <1>9

\* What is built leaves a wallet, and one that costs and brings what it should.
LEMMA BuiltRuns ==
    ASSUME WalletInv, trade # NoTrade, NEW v \in Outcomes(wallet, trade.plan)
    PROVE  IsWallet(v) /\ (trade.dex # "wallet" /\ v.ok => Bargain(wallet, v, trade))
<1>1. IsWallet(wallet)
  BY DEF WalletInv, WalletOK
<1>2. CASE \E r \in TradeRequests : \E plan \in buildInstructions(r) : trade = Intent(r, plan)
  <2>0. PICK r \in TradeRequests : \E plan \in buildInstructions(r) : trade = Intent(r, plan)
    BY <1>2
  <2>1. PICK plan \in buildInstructions(r) : trade = Intent(r, plan)
    BY <2>0
  <2>2. PICK x : Serves(trade, x) /\ Swaps(x, plan)
    BY <2>1, Builds
  <2>3. trade.plan = plan
    BY <2>1 DEF Intent
  <2> QED BY <1>1, <2>2, <2>3, PlanIsBargain
<1>3. CASE trade.dex = "wallet" /\ TypedPlan(trade.plan)
  BY <1>1, <1>3, TypedPlanRuns
<1> QED BY <1>2, <1>3 DEF WalletInv

\* The invariant holds at the start, and every step keeps it.
LEMMA WalletInvHolds ==
    /\ BuilderInit => WalletInv
    /\ WalletInv /\ [BuilderNext]_walletVars => WalletInv'
<1>1. ASSUME BuilderInit PROVE WalletInv
  <2>1. wallet \in Wallets /\ trade = NoTrade /\ trades = 0
    BY <1>1 DEF BuilderInit
  <2>2. IsWallet(wallet) /\ wallet.ok /\ trades \in 0..MaxTrades
    BY <2>1, WalletsAssumption
  <2> QED BY <2>1, <2>2 DEF WalletInv, WalletOK
<1>2. ASSUME WalletInv, [BuilderNext]_walletVars PROVE WalletInv'
  <2>0. IsWallet(wallet) /\ wallet.ok /\ trades \in 0..MaxTrades /\ MaxTrades \in Nat
    BY <1>2, WalletsAssumption DEF WalletInv, WalletOK
  <2>1. CASE Trade
    <3>1. PICK r \in TradeRequests : \E plan \in buildInstructions(r) : trade' = Intent(r, plan)
      BY <2>1 DEF Trade
    <3>2. trades < MaxTrades /\ trades' = trades + 1 /\ wallet' = wallet
      BY <2>1 DEF Trade
    <3>3. trades' \in 0..MaxTrades
      BY <2>0, <3>2
    <3> QED BY <2>0, <3>1, <3>2, <3>3 DEF WalletInv, WalletOK
  <2>2. CASE Manage
    <3>1. PICK n \in Amounts :
             \E plan \in {handleWsol(n), wrapSolOnly(n), wrapWsolToSol(n),
                          wrapWsolToSolWithoutCreate(n), CloseAccount("WSOL"), CloseAccount("T"),
                          Create("WSOL"), claimCashbackPumpfun, claimCashbackPumpswap} :
                trade' = [dex |-> "wallet", plan |-> plan]
      BY <2>2 DEF Manage
    <3>2. PICK plan : TypedPlan(plan) /\ trade' = [dex |-> "wallet", plan |-> plan]
      <4>1. n \in Nat
        BY AmountsAssumption
      <4> QED BY <3>1, <4>1, OwnPlansAreTyped
    <3>3. trades < MaxTrades /\ trades' = trades + 1 /\ wallet' = wallet
      BY <2>2 DEF Manage
    <3>4. trades' \in 0..MaxTrades
      BY <2>0, <3>3
    <3> QED BY <2>0, <3>2, <3>3, <3>4 DEF WalletInv, WalletOK
  <2>3. CASE LandTrade
    <3>1. trade # NoTrade /\ wallet' \in Outcomes(wallet, trade.plan) /\ wallet'.ok
      BY <2>3 DEF LandTrade
    <3>2. IsWallet(wallet')
      BY <1>2, <3>1, BuiltRuns
    <3> QED BY <2>0, <2>3, <3>1, <3>2 DEF WalletInv, WalletOK, LandTrade
  <2>4. CASE Fail
    BY <2>0, <2>4 DEF WalletInv, WalletOK, Fail
  <2>5. CASE UNCHANGED walletVars
    BY <1>2, <2>5 DEF WalletInv, WalletOK, walletVars
  <2> QED BY <1>2, <2>1, <2>2, <2>3, <2>4, <2>5 DEF BuilderNext
<1> QED BY <1>1, <1>2

\* A trade that lands costs no more than the caller allowed, brings at least what it was
\* to bring and leaves every other token as it was: pumpfun_builder.ts, pumpswap.ts and
\* the other builders put one swap within those limits into a plan, and around it only
\* what moves lamports between the wallet and its wrapped account.
THEOREM SpendsAsAllowed == BuilderSpec => SpendsWithinAllowance
<1> DEFINE Allowed ==
        trade # NoTrade /\ trade.dex # "wallet" /\ wallet' # wallet =>
            /\ Worth(wallet', trade.pays) >= Worth(wallet, trade.pays) - trade.atMost
            /\ Worth(wallet', trade.receives) >= Worth(wallet, trade.receives) + trade.atLeast
            /\ \A m \in Mints \ {trade.pays, trade.receives} : Worth(wallet', m) = Worth(wallet, m)
<1>1. ASSUME WalletInv, BuilderNext PROVE Allowed
  <2>1. CASE LandTrade
    <3>1. trade # NoTrade /\ wallet' \in Outcomes(wallet, trade.plan) /\ wallet'.ok
      BY <2>1 DEF LandTrade
    <3>2. trade.dex # "wallet" => Bargain(wallet, wallet', trade)
      BY <1>1, <3>1, BuiltRuns
    <3> QED BY <3>2 DEF Bargain
  <2>2. CASE ~LandTrade
    BY <1>1, <2>2 DEF BuilderNext, Trade, Manage, Fail
  <2> QED BY <2>1, <2>2
<1>2. WalletInv /\ [BuilderNext]_walletVars => [Allowed]_walletVars
  BY <1>1
<1> QED BY <1>2, WalletInvHolds, PTL DEF BuilderSpec, SpendsWithinAllowance


-----------------------------------------------------------------------------
(* No instruction of a trade fails for want of an account or of funds.     *)

\* Wallets with n to spend of what a swap takes from a, before and after it is in the
\* account a and an account of b is open; with no more than that, if c.
Funded(a, n, b) ==
    {w \in AllWallets : /\ w.ok /\ Has(w, b)
                        /\ IF a \in {"SOL", "WSOL"} THEN w.sol >= n ELSE Holds(w, a, n)}
Kept(a, n, b, c) ==
    {w \in AllWallets : w.ok /\ Holds(w, a, n) /\ Has(w, b) /\ (c => Balance(w, a) = n)}
\* And those that a swap leaves, with nothing in a if c.
Left(a, b, c) ==
    {w \in AllWallets : w.ok /\ Has(w, a) /\ Has(w, b) /\ (c => Balance(w, a) = 0)}
Fine == {w \in AllWallets : w.ok}

Created(w, v, m) ==
    /\ IsWallet(v) /\ v.ok /\ v.sol = w.sol /\ Has(v, m)
    /\ \A a \in Places : Has(w, a) => Has(v, a) /\ Balance(v, a) = Balance(w, a)

\* An idempotent creation adds an account and changes no other.
LEMMA CreateAdds ==
    ASSUME NEW m \in Mints, NEW A, NEW B,
           \A w, v : w \in A /\ Created(w, v, m) => v \in B, \A w \in A : IsWallet(w) /\ w.ok
    PROVE  Leads(A, Create(m), B)
<1> DEFINE i == [op |-> "create", mint |-> m, idempotent |-> TRUE]
<1>1. i.op = "create" /\ i.mint = m /\ i.idempotent /\ Create(m) = <<i>>
  BY DEF Create
<1> HIDE DEF i
<1>2. ASSUME NEW w \in A, NEW v \in Step(i, w) PROVE v \in B
  <2>1. IsWallet(w) /\ w.ok /\ v \in Run(i, w)
    BY <1>2 DEF Step
  <2>2. /\ IsWallet(v) /\ v.ok /\ v.sol = w.sol /\ DOMAIN v.acct = DOMAIN w.acct \cup {m}
        /\ \A k \in DOMAIN v.acct : v.acct[k] = IF k \in DOMAIN w.acct THEN w.acct[k] ELSE 0
    BY <1>1, <2>1, CreateRuns
  <2>3. Created(w, v, m)
    <3>1. ASSUME NEW a \in Places, Has(w, a) PROVE Has(v, a) /\ Balance(v, a) = Balance(w, a)
      BY <2>2, <3>1 DEF Has, Balance
    <3>2. Has(v, m)
      BY <2>2 DEF Has
    <3> QED BY <2>2, <3>1, <3>2 DEF Created
  <2> QED BY <2>3
<1>3. Turns(A, i, B)
  BY <1>2 DEF Turns
<1> QED BY <1>1, <1>3, LeadsOne

\* What may be spent is still there when an account has been created.
LEMMA CreateLeads ==
    ASSUME NEW m \in Mints, NEW a \in Places, NEW n \in Nat, NEW b \in Places, NEW c \in BOOLEAN
    PROVE  /\ \A o : o = "SOL" => Leads(Funded(a, n, o), Create(m), Funded(a, n, m))
           /\ Leads(Funded(a, n, b), Create(m), Funded(a, n, b))
           /\ \A o : o = "SOL" => Leads(Kept(a, n, o, c), Create(m), Kept(a, n, m, c))
           /\ Leads(Funded(m, n, b), Create(m), Funded(m, n, b) \cap Left(m, b, FALSE))
<1>1. ASSUME NEW w, NEW v, Created(w, v, m), NEW o \in Places, Has(w, o),
             IF a \in {"SOL", "WSOL"} THEN w.sol >= n ELSE Holds(w, a, n)
      PROVE  v \in Funded(a, n, o) /\ v \in Funded(a, n, m)
  BY <1>1, WalletsAre DEF Created, Funded, Holds
<1>2. ASSUME NEW o, o = "SOL" PROVE Leads(Funded(a, n, o), Create(m), Funded(a, n, m))
  <2> DEFINE A == Funded(a, n, o)  B == Funded(a, n, m)
  <2>1. \A w \in A : IsWallet(w) /\ w.ok
    BY WalletsAre DEF Funded
  <2>2. \A w, v : w \in A /\ Created(w, v, m) => v \in B
    BY <1>1, <1>2 DEF Funded, Places
  <2> HIDE DEF A, B
  <2>3. Leads(A, Create(m), B)
    BY <2>1, <2>2, CreateAdds
  <2> QED BY <2>3 DEF A, B
<1>3. Leads(Funded(a, n, b), Create(m), Funded(a, n, b))
  <2> DEFINE A == Funded(a, n, b)
  <2>1. \A w \in A : IsWallet(w) /\ w.ok
    BY WalletsAre DEF Funded
  <2>2. \A w, v : w \in A /\ Created(w, v, m) => v \in A
    BY <1>1 DEF Funded
  <2> HIDE DEF A
  <2>3. Leads(A, Create(m), A)
    BY <2>1, <2>2, CreateAdds
  <2> QED BY <2>3 DEF A
<1>4. ASSUME NEW o, o = "SOL" PROVE Leads(Kept(a, n, o, c), Create(m), Kept(a, n, m, c))
  <2> DEFINE A == Kept(a, n, o, c)  B == Kept(a, n, m, c)
  <2>1. \A w \in A : IsWallet(w) /\ w.ok
    BY WalletsAre DEF Kept
  <2>2. \A w, v : w \in A /\ Created(w, v, m) => v \in B
    BY WalletsAre DEF Kept, Created, Holds
  <2> HIDE DEF A, B
  <2>3. Leads(A, Create(m), B)
    BY <2>1, <2>2, CreateAdds
  <2> QED BY <2>3 DEF A, B
<1>5. Leads(Funded(m, n, b), Create(m), Funded(m, n, b) \cap Left(m, b, FALSE))
  <2> DEFINE A == Funded(m, n, b)  B == Funded(m, n, b) \cap Left(m, b, FALSE)
  <2>1. \A w \in A : IsWallet(w) /\ w.ok
    BY WalletsAre DEF Funded
  <2>2. ASSUME NEW w, NEW v, w \in A, Created(w, v, m) PROVE v \in B
    <3>1. Has(w, b) /\ IF m \in {"SOL", "WSOL"} THEN w.sol >= n ELSE Holds(w, m, n)
      BY <2>2 DEF Funded
    <3>2. v \in Funded(m, n, b)
      BY <2>2, <3>1, WalletsAre DEF Created, Funded, Holds, Places
    <3>3. v \in Left(m, b, FALSE)
      BY <2>2, <3>1, WalletsAre DEF Created, Left
    <3> QED BY <3>2, <3>3
  <2> HIDE DEF A, B
  <2>3. Leads(A, Create(m), B)
    BY <2>1, <2>2, CreateAdds
  <2> QED BY <2>3 DEF A, B
<1> QED BY <1>2, <1>3, <1>4, <1>5

\* An account that is created and, if it is the wrapped one, filled.
LEMMA PushLeads ==
    ASSUME NEW a \in Mints, NEW n \in Nat, NEW k \in Nat, n <= k, NEW b \in Places, b # a,
           NEW c \in BOOLEAN, ~c
    PROVE  Leads(Funded(a, k, b), pushCreateOrWrapUserTokenAccount(a, n), Kept(a, n, b, c))
<1> DEFINE A == Funded(a, k, b)  M == A \cap Left(a, b, FALSE)  B == Kept(a, n, b, c)
<1>1. Leads(A, Create(a), M)
  <2>1. a \in Places /\ TRUE \in BOOLEAN
    BY DEF Places
  <2> QED BY <2>1, CreateLeads
<1>2. Leads(M, When(a = "WSOL", wrapSolOnly(n)), B)
  <2>1. CASE a = "WSOL"
    <3> DEFINE i == [op |-> "fund", amount |-> n]
    <3>1. i.op = "fund" /\ i.amount = n /\ When(a = "WSOL", wrapSolOnly(n)) = <<i>>
      BY <2>1 DEF wrapSolOnly, When
    <3> HIDE DEF i
    <3>2. ASSUME NEW w \in M, NEW v \in Step(i, w) PROVE v \in B
      <4>1. IsWallet(w) /\ w.ok /\ Has(w, a) /\ Has(w, b) /\ w.sol >= k /\ w.sol \in Nat /\ v \in Run(i, w)
        <5>1. IsWallet(w) /\ w.ok /\ Has(w, a) /\ Has(w, b) /\ w.sol >= k
          BY <2>1, WalletsAre DEF Funded, Left
        <5> QED BY <3>2, <5>1 DEF Step, IsWallet
      <4>2. w.sol >= n
        BY <4>1
      <4>3. /\ IsWallet(v) /\ v.ok /\ v.sol = w.sol - n /\ DOMAIN v.acct = DOMAIN w.acct
            /\ \A m \in DOMAIN w.acct : v.acct[m] = IF m = "WSOL" THEN w.acct[m] + n ELSE w.acct[m]
        BY <2>1, <3>1, <4>1, <4>2, FundRuns
      <4>4. a \in DOMAIN w.acct /\ w.acct[a] \in Nat
        BY <2>1, <4>1 DEF Has, IsWallet
      <4>5. Holds(v, a, n) /\ Has(v, b)
        BY <2>1, <4>1, <4>3, <4>4 DEF Holds, Has, Balance
      <4> QED BY <4>3, <4>5, WalletsAre DEF Kept
    <3>3. Leads(M, <<i>>, B)
      <4> HIDE DEF M, B
      <4> QED BY <3>2, LeadsOne DEF Turns
    <3> QED BY <3>1, <3>3
  <2>2. CASE a # "WSOL"
    <3>1. When(a = "WSOL", wrapSolOnly(n)) = <<>>
      BY <2>2 DEF When
    <3>2. M \subseteq B
      <4>1. ASSUME NEW w \in M PROVE w \in B
        <5>1. IsWallet(w) /\ w.ok /\ Has(w, b) /\ Holds(w, a, k) /\ a # "SOL"
          BY <2>2, WalletsAre DEF Funded, Mints
        <5>2. Holds(w, a, n)
          <6>1. Balance(w, a) \in Nat
            BY <5>1 DEF Holds, Has, Balance, IsWallet
          <6> QED BY <5>1, <6>1 DEF Holds
        <5> QED BY <5>1, <5>2, WalletsAre DEF Kept
      <4> QED BY <4>1
    <3> HIDE DEF M, B
    <3> QED BY <3>1, <3>2, LeadsNone
  <2> QED BY <2>1, <2>2
<1> HIDE DEF A, M, B
<1>3. Leads(A, Create(a) \o When(a = "WSOL", wrapSolOnly(n)), B)
  BY <1>1, <1>2, LeadsOn
<1> QED BY <1>3 DEF pushCreateOrWrapUserTokenAccount, A, B

\* The swap, out of an account with enough in it and into one that is open.
LEMMA SwapLeads ==
    ASSUME NEW x, IsSwap(x), NEW c \in BOOLEAN, c => x.mode = "exactIn"
    PROVE  Leads(Kept(x.from, x.in, x.to, c), <<x>>, Left(x.from, x.to, c))
<1> DEFINE A == Kept(x.from, x.in, x.to, c)  B == Left(x.from, x.to, c)
<1>1. ASSUME NEW w \in A, NEW v \in Step(x, w) PROVE v \in B
  <2>1. /\ IsWallet(w) /\ w.ok /\ Holds(w, x.from, x.in) /\ Has(w, x.to) /\ v \in Run(x, w)
        /\ c => Balance(w, x.from) = x.in
    BY <1>1, WalletsAre DEF Kept, Step
  <2>2. IsWallet(v) /\ v.ok
    BY <2>1, SwapRuns
  <2>3. PICK k \in 0..x.in, j \in Nat : Filled(w, x, v, k, j)
    BY <2>1, <2>2, SwapRuns
  <2>4. Has(v, x.from) /\ Has(v, x.to)
    BY <2>1, <2>3 DEF Filled, Has, Holds
  <2>5. ASSUME c PROVE Balance(v, x.from) = 0
    <3>1. k = x.in /\ x.in \in Nat /\ Balance(w, x.from) = x.in
      BY <2>1, <2>3, <2>5 DEF Filled, IsSwap
    <3>2. Balance(v, x.from) = Balance(w, x.from) - k
      BY <2>1, <2>3 DEF Filled, Balance, Holds, Has
    <3> QED BY <3>1, <3>2
  <2> QED BY <2>2, <2>4, <2>5, WalletsAre DEF Left
<1> HIDE DEF A, B
<1>2. Leads(A, <<x>>, B)
  BY <1>1, LeadsOne DEF Turns
<1> QED BY <1>2 DEF A, B

\* Closing what a swap paid from or into.
LEMMA CloseLeads ==
    ASSUME NEW a \in Mints, NEW b \in Places, a # b, NEW c \in BOOLEAN
    PROVE  /\ b = "WSOL" => \A o : o = "SOL" => Leads(Left(a, b, c), CloseAccount(b), Left(a, o, c))
           /\ a = "WSOL" \/ c => Leads(Left(a, b, c), CloseAccount(a), Fine)
<1>1. ASSUME NEW m \in Mints, NEW w, IsWallet(w), w.ok, Has(w, m), m = "WSOL" \/ Balance(w, m) = 0,
             NEW v \in Step([op |-> "close", mint |-> m], w)
      PROVE  /\ IsWallet(v) /\ v.ok /\ DOMAIN v.acct = DOMAIN w.acct \ {m}
             /\ \A k \in DOMAIN v.acct : v.acct[k] = w.acct[k]
  <2> DEFINE i == [op |-> "close", mint |-> m]
  <2>1. i.op = "close" /\ i.mint = m /\ m # "SOL"
    BY DEF Mints
  <2> HIDE DEF i
  <2>2. v \in Run(i, w)
    BY <1>1 DEF Step, i
  <2>3. m = "WSOL" \/ w.acct[m] = 0
    BY <1>1, <2>1 DEF Balance
  <2>4. v.ok
    BY <1>1, <2>1, <2>2, <2>3, CloseRuns
  <2> QED BY <1>1, <2>1, <2>2, <2>4, CloseRuns
<1>2. ASSUME NEW m \in Mints, NEW A, NEW B,
             \A w \in A : IsWallet(w) /\ w.ok /\ Has(w, m) /\ (m = "WSOL" \/ Balance(w, m) = 0),
             \A w \in A : \A v : /\ IsWallet(v) /\ v.ok /\ DOMAIN v.acct = DOMAIN w.acct \ {m}
                                 /\ \A k \in DOMAIN v.acct : v.acct[k] = w.acct[k]
                                 => v \in B
      PROVE  Leads(A, CloseAccount(m), B)
  <2> DEFINE i == [op |-> "close", mint |-> m]
  <2>1. \A w \in A : \A v \in Step(i, w) : v \in B
    BY <1>1, <1>2
  <2> HIDE DEF i
  <2>2. Leads(A, <<i>>, B)
    BY <2>1, LeadsOne DEF Turns
  <2> QED BY <2>2 DEF CloseAccount, i
<1>3. ASSUME b = "WSOL", NEW o, o = "SOL" PROVE Leads(Left(a, b, c), CloseAccount(b), Left(a, o, c))
  <2> DEFINE A == Left(a, b, c)  B == Left(a, o, c)
  <2>1. b \in Mints
    BY <1>3 DEF Mints
  <2>2. \A w \in A : IsWallet(w) /\ w.ok /\ Has(w, b) /\ (b = "WSOL" \/ Balance(w, b) = 0)
    BY <1>3, WalletsAre DEF Left
  <2>3. ASSUME NEW w \in A, NEW v, IsWallet(v), v.ok, DOMAIN v.acct = DOMAIN w.acct \ {b},
               \A k \in DOMAIN v.acct : v.acct[k] = w.acct[k]
        PROVE  v \in B
    <3>1. Has(w, a) /\ (c => Balance(w, a) = 0)
      BY DEF Left
    <3>2. Has(v, a) /\ Has(v, o)
      BY <1>3, <2>3, <3>1 DEF Has
    <3>3. c => Balance(v, a) = 0
      <4>1. a # "SOL"
        BY DEF Mints
      <4> QED BY <2>3, <3>1, <3>2, <4>1 DEF Balance, Has
    <3> QED BY <2>3, <3>2, <3>3, WalletsAre DEF Left
  <2> HIDE DEF A, B
  <2>4. Leads(A, CloseAccount(b), B)
    BY <1>2, <2>1, <2>2, <2>3
  <2> QED BY <2>4 DEF A, B
<1>4. ASSUME a = "WSOL" \/ c PROVE Leads(Left(a, b, c), CloseAccount(a), Fine)
  <2> DEFINE A == Left(a, b, c)
  <2>1. \A w \in A : IsWallet(w) /\ w.ok /\ Has(w, a) /\ (a = "WSOL" \/ Balance(w, a) = 0)
    BY <1>4, WalletsAre DEF Left
  <2>2. \A v : IsWallet(v) /\ v.ok => v \in Fine
    BY WalletsAre DEF Fine
  <2> HIDE DEF A
  <2>3. Leads(A, CloseAccount(a), Fine)
    BY <1>2, <2>1, <2>2
  <2> QED BY <2>3 DEF A
<1> QED BY <1>3, <1>4

\* A purchase, for which both accounts are created.
LEMMA BuyLeads ==
    ASSUME NEW r, Sane(r), NEW plan, NEW x, Serves(Intent(r, plan), x), BuyForm(r, plan, x),
           r.pool.dex # "bonk", CreatesInput(r), CreatesOutput(r), NEW most \in Nat,
           most = Intent(r, <<>>).atMost, x.in <= most, r.close /\ x.from \in Mints => x.from = "WSOL",
           NEW o, o = "SOL"
    PROVE  Leads(Funded(x.from, most, o), plan, Fine)
<1> DEFINE a == x.from  b == x.to
<1>0. /\ IsSwap(x) /\ x.in \in Nat /\ a \in Places /\ b \in Places /\ a # b
      /\ o \in Places
  BY DEF Serves, IsSwap, Places
<1>1. PICK e : /\ BuyOpening(r, e, x)
               /\ \/ plan = e \o <<x>>
                  \/ \E c \in BOOLEAN : /\ c => r.close /\ x.from \in Mints
                                        /\ plan = (e \o <<x>>) \o When(c, CloseAccount("WSOL"))
  BY DEF BuyForm
<1>2. PICK no \in BOOLEAN : ~no
  OBVIOUS
<1> HIDE DEF a, b
<1>3. \A s : When(CreatesInput(r), s) = s /\ When(CreatesOutput(r), s) = s
  BY DEF When
<1>4. ASSUME NEW n \in Nat, x.in <= n PROVE Kept(a, n, b, no) \subseteq Kept(a, x.in, b, no)
  <2>1. ASSUME NEW w \in Kept(a, n, b, no) PROVE w \in Kept(a, x.in, b, no)
    <3>1. IsWallet(w) /\ Has(w, a) /\ Balance(w, a) >= n
      BY WalletsAre DEF Kept, Holds
    <3>2. Balance(w, a) \in Nat
      BY <1>0, <3>1 DEF Balance, Has, IsWallet
    <3>3. Holds(w, a, x.in)
      BY <1>0, <1>4, <3>1, <3>2 DEF Holds
    <3> QED BY <1>2, <3>3 DEF Kept
  <2> QED BY <2>1
<1>5. Leads(Funded(a, most, o), e, Kept(a, x.in, b, no))
  <2>1. ASSUME a \in Mints, b \in Mints, NEW n \in Nat, x.in <= n, n <= most,
               \/ e = pushCreateOrWrapUserTokenAccount(a, n) \o Create(b)
               \/ e = Create(b) \o pushCreateOrWrapUserTokenAccount(a, n)
        PROVE  Leads(Funded(a, most, o), e, Kept(a, x.in, b, no))
    <3>1. o # a
      BY <2>1 DEF Mints
    <3>2. Leads(Funded(a, most, o), pushCreateOrWrapUserTokenAccount(a, n), Kept(a, n, o, no))
      BY <1>0, <1>2, <2>1, <3>1, PushLeads
    <3>3. Leads(Kept(a, n, o, no), Create(b), Kept(a, n, b, no))
      BY <1>0, <2>1, CreateLeads
    <3>4. Leads(Funded(a, most, o), Create(b), Funded(a, most, b))
      BY <1>0, <2>1, CreateLeads
    <3>5. Leads(Funded(a, most, b), pushCreateOrWrapUserTokenAccount(a, n), Kept(a, n, b, no))
      BY <1>0, <1>2, <2>1, PushLeads
    <3>6. Leads(Funded(a, most, o), e, Kept(a, n, b, no))
      BY <2>1, <3>2, <3>3, <3>4, <3>5, LeadsOn
    <3> QED BY <1>4, <2>1, <3>6, LeadsLess
  <2>2. ASSUME b \in Mints, a # "WSOL"
        PROVE  /\ Leads(Funded(a, most, o), Create(b), Funded(a, most, b))
               /\ Funded(a, most, b) \subseteq Kept(a, x.in, b, no)
    <3>1. Leads(Funded(a, most, o), Create(b), Funded(a, most, b))
      BY <1>0, <2>2, CreateLeads
    <3>2. Funded(a, most, b) \subseteq Kept(a, most, b, no)
      BY <1>2, <2>2 DEF Funded, Kept, Holds, Has, Balance
    <3> QED BY <1>4, <3>1, <3>2
  <2>3. CASE \E n \in Nat :
               /\ x.in <= n /\ n <= Intent(r, <<>>).atMost /\ x.from \in Mints /\ x.to \in Mints
               /\ \/ e = When(CreatesInput(r), pushCreateOrWrapUserTokenAccount(x.from, n))
                             \o When(CreatesOutput(r), Create(x.to))
                  \/ e = When(CreatesOutput(r), Create(x.to))
                             \o When(CreatesInput(r), pushCreateOrWrapUserTokenAccount(x.from, n))
    <3>1. PICK n \in Nat :
             /\ x.in <= n /\ n <= most /\ a \in Mints /\ b \in Mints
             /\ \/ e = pushCreateOrWrapUserTokenAccount(a, n) \o Create(b)
                \/ e = Create(b) \o pushCreateOrWrapUserTokenAccount(a, n)
      BY <1>3, <2>3 DEF a, b
    <3> QED BY <2>1, <3>1
  <2>4. CASE x.from = "SOL" /\ x.to \in Mints /\ e = When(CreatesOutput(r), Create(x.to))
    <3>1. a = "SOL" /\ b \in Mints /\ e = Create(b)
      BY <1>3, <2>4 DEF a, b
    <3> QED BY <2>2, <3>1, LeadsLess
  <2>5. CASE x.from = "SOL" /\ x.to \in Mints /\ e = When(CreatesOutput(r), Create(x.to)) \o <<>>
    <3>1. a = "SOL" /\ b \in Mints /\ e = Create(b) \o <<>>
      BY <1>3, <2>5 DEF a, b
    <3>2. Leads(Funded(a, most, b), <<>>, Kept(a, x.in, b, no))
      BY <2>2, <3>1, LeadsNone
    <3> QED BY <2>2, <3>1, <3>2, LeadsOn
  <2>6. CASE /\ x.from \in Mints \ {"WSOL"} /\ x.to \in Mints
             /\ e = When(CreatesOutput(r), Create(x.to)) \o When(CreatesInput(r), Create(x.from))
    <3>1. a \in Mints /\ a # "WSOL" /\ b \in Mints /\ e = Create(b) \o Create(a)
      BY <1>3, <2>6 DEF a, b
    <3>2. Leads(Funded(a, most, b), Create(a), Funded(a, most, b))
      BY <1>0, <3>1, CreateLeads
    <3>3. Leads(Funded(a, most, o), e, Funded(a, most, b))
      BY <2>2, <3>1, <3>2, LeadsOn
    <3> QED BY <2>2, <3>1, <3>3, LeadsLess
  <2> QED BY <1>1, <2>3, <2>4, <2>5, <2>6 DEF BuyOpening
<1>6. Leads(Kept(a, x.in, b, no), <<x>>, Left(a, b, no))
  BY <1>0, <1>2, SwapLeads DEF a, b
<1>7. Leads(Funded(a, most, o), e \o <<x>>, Left(a, b, no))
  BY <1>5, <1>6, LeadsOn
<1>8. Left(a, b, no) \subseteq Fine
  BY DEF Left, Fine
<1>9. CASE plan = e \o <<x>>
  BY <1>7, <1>8, <1>9, LeadsLess DEF a
<1>10. CASE \E c \in BOOLEAN : /\ c => r.close /\ x.from \in Mints
                               /\ plan = (e \o <<x>>) \o When(c, CloseAccount("WSOL"))
  <2>1. PICK c \in BOOLEAN : (c => r.close /\ x.from \in Mints) /\ plan = (e \o <<x>>) \o When(c, CloseAccount("WSOL"))
    BY <1>10
  <2>2. Leads(Left(a, b, no), When(c, CloseAccount("WSOL")), Fine)
    <3>1. CASE c
      <4>1. a = "WSOL" /\ a \in Mints /\ When(c, CloseAccount("WSOL")) = CloseAccount(a)
        BY <2>1, <3>1 DEF When, a
      <4> QED BY <1>0, <4>1, CloseLeads
    <3>2. CASE ~c
      <4>1. When(c, CloseAccount("WSOL")) = <<>>
        BY <3>2 DEF When
      <4> QED BY <1>8, <4>1, LeadsNone
    <3> QED BY <3>1, <3>2
  <2>3. Leads(Funded(a, most, o), plan, Fine)
    BY <1>7, <2>1, <2>2, LeadsOn
  <2> QED BY <2>3 DEF a
<1> QED BY <1>1, <1>9, <1>10

\* A sale, for which the account it is paid into is created, and the sold one is closed
\* if nothing is left in it.
LEMMA SellLeads ==
    ASSUME NEW r, Sane(r), NEW plan, NEW x, Serves(Intent(r, plan), x), SellForm(r, plan, x),
           r.pool.dex # "bonk", CreatesOutput(r), NEW c \in BOOLEAN, c = r.close,
           c => x.mode = "exactIn" /\ (x.to \in Mints => x.to = "WSOL"), NEW o, o = "SOL"
    PROVE  Leads(Kept(x.from, x.in, o, c), plan, Fine)
<1> DEFINE a == x.from  b == x.to
<1>0. /\ IsSwap(x) /\ x.in \in Nat /\ a \in Mints /\ a \in Places /\ b \in Places /\ a # b
      /\ o \in Places /\ o \notin Mints
  BY DEF Serves, IsSwap, Places, SellForm, Mints
<1>1. \/ x.to = "SOL" /\ plan = <<x>> \o When(r.close, CloseAccount(x.from))
      \/ \E e : /\ SellOpening(r, e, x)
                /\ \/ plan = (e \o <<x>>) \o When(r.close, CloseAccount(x.from))
                   \/ /\ x.to \in Mints
                      /\ plan = ((e \o <<x>>) \o When(r.close /\ x.to = "WSOL", CloseAccount(x.to)))
                                    \o When(r.close, CloseAccount(x.from))
  BY DEF SellForm
<1>2. Leads(Kept(a, x.in, b, c), <<x>>, Left(a, b, c))
  BY <1>0, SwapLeads
<1> HIDE DEF a, b
<1>3. ASSUME NEW d \in Places, d # a PROVE Leads(Left(a, d, c), When(c, CloseAccount(a)), Fine)
  <2>1. CASE c
    <3>1. When(c, CloseAccount(a)) = CloseAccount(a)
      BY <2>1 DEF When
    <3> QED BY <1>0, <1>3, <2>1, <3>1, CloseLeads
  <2>2. CASE ~c
    <3>1. When(c, CloseAccount(a)) = <<>> /\ Left(a, d, c) \subseteq Fine
      BY <2>2 DEF When, Left, Fine
    <3> QED BY <3>1, LeadsNone
  <2> QED BY <2>1, <2>2
<1>4. ASSUME x.to = "SOL", plan = <<x>> \o When(r.close, CloseAccount(x.from))
      PROVE  Leads(Kept(a, x.in, o, c), plan, Fine)
  <2>1. b = o /\ plan = <<x>> \o When(c, CloseAccount(a))
    BY <1>4 DEF a, b
  <2> QED BY <1>0, <1>2, <1>3, <2>1, LeadsOn
<1>5. ASSUME NEW e, SellOpening(r, e, x) PROVE Leads(Kept(a, x.in, o, c), e \o <<x>>, Left(a, b, c))
  <2>1. \A s : When(CreatesOutput(r), s) = s
    BY DEF When
  <2>2. ASSUME b \in Mints PROVE Leads(Kept(a, x.in, o, c), Create(b), Kept(a, x.in, b, c))
    BY <1>0, <2>2, CreateLeads
  <2>3. Leads(Kept(a, x.in, o, c), <<>>, Kept(a, x.in, o, c))
    BY LeadsNone
  <2>4. Leads(Kept(a, x.in, o, c), e, Kept(a, x.in, b, c))
    <3>1. CASE x.to \in Mints /\ e = When(CreatesOutput(r), Create(x.to))
      BY <2>1, <2>2, <3>1 DEF b
    <3>2. CASE x.to \in Mints /\ e = <<>> \o When(CreatesOutput(r), Create(x.to))
      <4>1. b \in Mints /\ e = <<>> \o Create(b)
        BY <2>1, <3>2 DEF b
      <4> QED BY <2>2, <2>3, <4>1, LeadsOn
    <3>3. CASE x.to = "SOL" /\ e = <<>> \o <<>>
      <4>1. b = o
        BY <3>3 DEF b
      <4> QED BY <2>3, <3>3, <4>1, LeadsOn
    <3> QED BY <1>5, <3>1, <3>2, <3>3 DEF SellOpening
  <2> QED BY <1>2, <2>4, LeadsOn
<1>6. ASSUME NEW e, SellOpening(r, e, x), plan = (e \o <<x>>) \o When(r.close, CloseAccount(x.from))
      PROVE  Leads(Kept(a, x.in, o, c), plan, Fine)
  <2>1. Leads(Kept(a, x.in, o, c), e \o <<x>>, Left(a, b, c))
    BY <1>5, <1>6
  <2>2. Leads(Left(a, b, c), When(c, CloseAccount(a)), Fine)
    BY <1>0, <1>3
  <2>3. plan = (e \o <<x>>) \o When(c, CloseAccount(a))
    BY <1>6 DEF a
  <2> QED BY <2>1, <2>2, <2>3, LeadsOn
<1>7. ASSUME NEW e, SellOpening(r, e, x), x.to \in Mints,
             plan = ((e \o <<x>>) \o When(r.close /\ x.to = "WSOL", CloseAccount(x.to)))
                        \o When(r.close, CloseAccount(x.from))
      PROVE  Leads(Kept(a, x.in, o, c), plan, Fine)
  <2> DEFINE f == (e \o <<x>>) \o When(c /\ b = "WSOL", CloseAccount(b))
  <2>1. Leads(Kept(a, x.in, o, c), e \o <<x>>, Left(a, b, c))
    BY <1>5, <1>7
  <2>2. plan = f \o When(c, CloseAccount(a))
    BY <1>7 DEF a, b
  <2>3. CASE c
    <3>1. b = "WSOL" /\ When(c /\ b = "WSOL", CloseAccount(b)) = CloseAccount(b)
      BY <1>7, <2>3 DEF When, b
    <3>2. Leads(Left(a, b, c), CloseAccount(b), Left(a, o, c))
      BY <1>0, <3>1, CloseLeads
    <3>3. Leads(Kept(a, x.in, o, c), f, Left(a, o, c))
      BY <2>1, <3>1, <3>2, LeadsOn
    <3>4. Leads(Left(a, o, c), When(c, CloseAccount(a)), Fine)
      <4>1. o # a
        BY <1>0
      <4> QED BY <1>0, <1>3, <4>1
    <3> HIDE DEF f
    <3> QED BY <2>2, <3>3, <3>4, LeadsOn
  <2>4. CASE ~c
    <3>1. When(c /\ b = "WSOL", CloseAccount(b)) = <<>>
      BY <2>4 DEF When
    <3>2. Leads(Left(a, b, c), <<>>, Left(a, b, c))
      BY LeadsNone
    <3>3. Leads(Kept(a, x.in, o, c), f, Left(a, b, c))
      BY <2>1, <3>1, <3>2, LeadsOn
    <3>4. Leads(Left(a, b, c), When(c, CloseAccount(a)), Fine)
      BY <1>0, <1>3
    <3> HIDE DEF f
    <3> QED BY <2>2, <3>3, <3>4, LeadsOn
  <2> QED BY <2>3, <2>4
<1> QED BY <1>1, <1>4, <1>6, <1>7 DEF a

\* What a trade keeps of the request it was built for.
LEMMA IntentFields ==
    ASSUME NEW r, NEW plan, NEW t, t = Intent(r, plan)
    PROVE  /\ t.plan = plan /\ t.dex = r.pool.dex /\ t.close = r.close
           /\ t.creates => (r.side = "sell" \/ CreatesInput(r)) /\ CreatesOutput(r)
<1> DEFINE creates == (r.side = "sell" \/ CreatesInput(r)) /\ CreatesOutput(r)
<1>1. t.plan = plan /\ t.dex = r.pool.dex /\ t.close = r.close
  BY DEF Intent
<1>2. t.creates = creates
  <2> HIDE DEF creates
  <2> QED BY DEF Intent, creates
<1> QED BY <1>1, <1>2

\* A caller who can pay and asks for every account to be created gets a transaction no
\* instruction of which fails for want of an account or of funds in it: the opening of
\* every builder's plan leads to a wallet its swap can be paid from and into, and what is
\* closed after it is there and, if it must be, empty.
THEOREM NothingIsMissing == BuilderSpec => []NoAccountIsMissing
<1>1. ASSUME WalletInv PROVE NoAccountIsMissing
  <2>1. WalletOK
    BY <1>1 DEF WalletInv
  <2>2. ASSUME trade # NoTrade, trade.dex \notin {"wallet", "bonk"}, trade.creates, CanPay(trade),
               CanClose(trade)
        PROVE  \A w \in Outcomes(wallet, trade.plan) : w.ok
    <3>1. PICK r \in TradeRequests : \E plan \in buildInstructions(r) : trade = Intent(r, plan)
      BY <1>1, <2>2 DEF WalletInv
    <3>2. PICK plan \in buildInstructions(r) : trade = Intent(r, plan)
      BY <3>1
    <3>3. PICK x : Sane(r) /\ PlanForm(r, plan, x) /\ Serves(trade, x) /\ Swaps(x, plan)
      BY <3>2, Builds
    <3>4. /\ trade.plan = plan /\ r.pool.dex # "bonk" /\ trade.close = r.close /\ CreatesOutput(r)
          /\ r.side # "sell" => CreatesInput(r)
      <4>1. /\ trade.plan = plan /\ trade.dex = r.pool.dex /\ trade.close = r.close
            /\ trade.creates => (r.side = "sell" \/ CreatesInput(r)) /\ CreatesOutput(r)
        BY <3>2, IntentFields
      <4>2. trade.dex # "bonk" /\ trade.creates
        BY <2>2
      <4> QED BY <4>1, <4>2, Zenon
    <3>5. /\ IsWallet(wallet) /\ wallet.ok /\ trade.atMost \in Nat /\ x.in \in Nat /\ x.in <= trade.atMost
          /\ Canonical(x.from) = trade.pays /\ Canonical(x.to) = trade.receives
          /\ x.from \in Places /\ x.to \in Places
      BY <2>1, <3>3 DEF WalletOK, Serves, IsSwap
    <3> DEFINE o == "SOL"
    <3>6. o = "SOL" /\ Has(wallet, o)
      BY DEF Has
    <3> HIDE DEF o
    <3>7. \E A : wallet \in A /\ Leads(A, plan, Fine)
      <4>1. CASE r.side = "buy"
        <5>1. trade.receives = r.mint /\ r.mint # "WSOL"
          BY <3>2, <3>3, <4>1, EndsAre
        <5>2. trade.atMost = Intent(r, <<>>).atMost
          BY <3>2 DEF Intent
        <5>3. ASSUME r.close, x.from \in Mints PROVE x.from = "WSOL"
          <6>1. trade.pays = "WSOL"
            BY <2>2, <3>4, <5>1, <5>3 DEF CanClose
          <6> QED BY <3>5, <5>3, <6>1 DEF Canonical, Mints
        <5>4. wallet \in Funded(x.from, trade.atMost, o)
          <6>1. IF x.from \in {"SOL", "WSOL"} THEN wallet.sol >= trade.atMost
                ELSE Holds(wallet, x.from, trade.atMost)
            BY <2>2, <3>5 DEF CanPay, Canonical, Holds, Has, Balance
          <6> QED BY <3>5, <3>6, <6>1, WalletsAre DEF Funded
        <5>5. BuyForm(r, plan, x) /\ Serves(Intent(r, plan), x) /\ CreatesInput(r)
          BY <3>2, <3>3, <3>4, <4>1 DEF PlanForm
        <5> DEFINE most == trade.atMost
        <5>6. most \in Nat /\ most = Intent(r, <<>>).atMost /\ x.in <= most
          BY <3>5, <5>2
        <5> HIDE DEF most
        <5>7. Leads(Funded(x.from, most, o), plan, Fine)
          BY <3>3, <3>4, <3>6, <5>3, <5>5, <5>6, BuyLeads
        <5> QED BY <5>4, <5>7 DEF most
      <4>2. CASE r.side # "buy"
        <5>1. SellForm(r, plan, x) /\ x.from \in Mints /\ x.in = r.amount /\ Serves(Intent(r, plan), x)
          BY <3>2, <3>3, <4>2 DEF PlanForm, SellForm
        <5>2. x.from = trade.pays /\ trade.pays # "WSOL" /\ trade.atMost = r.amount
          <6>1. trade.pays = r.mint /\ r.mint # "WSOL"
            BY <3>2, <3>3, <4>2, EndsAre
          <6>2. Canonical(x.from) = x.from
            BY <5>1 DEF Canonical, Mints
          <6>3. trade.atMost = r.amount
            BY <3>2, <3>3, <4>2 DEF Intent, Sane
          <6> QED BY <3>5, <6>1, <6>2, <6>3
        <5>3. x.from # "SOL" /\ Holds(wallet, x.from, x.in)
          BY <2>2, <5>1, <5>2 DEF CanPay, Holds, Has, Balance, Mints
        <5>4. ASSUME r.close PROVE /\ x.mode = "exactIn" /\ (x.to \in Mints => x.to = "WSOL")
                                   /\ Balance(wallet, x.from) = x.in
          <6>1. /\ trade.receives = "WSOL" /\ wallet.acct[trade.pays] = trade.atMost
                /\ \A i \in Range(trade.plan) : i.op = "swap" => i.mode = "exactIn"
            BY <2>2, <3>4, <5>2, <5>4 DEF CanClose
          <6>2. x \in Range(plan) /\ x.op = "swap"
            BY <3>3 DEF Swaps, Plan, Range, Serves, IsSwap
          <6> QED BY <3>4, <3>5, <5>1, <5>2, <5>3, <5>4, <6>1, <6>2 DEF Balance, Canonical, Mints
        <5> DEFINE c == r.close
        <5>5. c \in BOOLEAN /\ c = r.close
          BY <3>3 DEF Sane
        <5>6. wallet \in Kept(x.from, x.in, o, c)
          BY <3>5, <3>6, <5>3, <5>4, WalletsAre DEF Kept
        <5>7. c => x.mode = "exactIn" /\ (x.to \in Mints => x.to = "WSOL")
          BY <5>4
        <5> HIDE DEF c
        <5>8. Leads(Kept(x.from, x.in, o, c), plan, Fine)
          BY <3>3, <3>4, <3>6, <5>1, <5>5, <5>7, SellLeads
        <5> QED BY <5>6, <5>8
      <4> QED BY <4>1, <4>2
    <3>8. Outcomes(wallet, plan) \subseteq Fine
      BY <3>7, LeadsEnd
    <3> QED BY <3>4, <3>8 DEF Fine
  <2> QED BY <2>1, <2>2 DEF NoAccountIsMissing
<1> QED BY <1>1, WalletInvHolds, PTL DEF BuilderSpec

=============================================================================
