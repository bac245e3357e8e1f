--------------------- MODULE ConfirmationMonitor_proofs ---------------------
(***************************************************************************)
(* Proofs about ConfirmationMonitor, for any signatures, monitorings and   *)
(* polls: what callers are told is true, and only an older monitoring of   *)
(* its signature can take an entry out of the map.                         *)
(***************************************************************************)
EXTENDS ConfirmationMonitor, TLAPS

Entries == [sig : Sigs, target : Targets, cached : BOOLEAN]

\* The types, without the bounds on polls and errors.
Types ==
    /\ monitored \in [Sigs -> 0..MaxEntries] /\ cache \in [Sigs -> Statuses]
    /\ entries \in Seq(Entries) /\ Len(entries) <= MaxEntries
    /\ status \in [Ids -> Statuses] /\ errors \in [Ids -> Nat]
    /\ waiting \subseteq Made /\ aborted \subseteq Made
    /\ outcome \in [Ids -> Statuses]
    /\ chain \in [Sigs -> Statuses \ {"TimedOut"}]

\* What is not made yet has no history, and a monitored entry is the newest of its
\* signature.
Order ==
    /\ \A e \in Ids \ Made : status[e] = "NotFound" /\ outcome[e] = "NotFound"
    /\ \A s \in Sigs : monitored[s] # 0 =>
         monitored[s] \in Made /\ \A e \in Made : SigOf(e) = s => e <= monitored[s]

IInv == Types /\ Order /\ Consistent /\ AnswersAreTrue

\* Once maxRetries polls of an entry failed it is not monitored, so that only those
\* already under way can fail.
Polling ==
    /\ isRunning \in BOOLEAN /\ timer \subseteq Made /\ polls \in [Ids -> 0..MaxPolls]
    /\ \A e \in Ids \ Made : polls[e] = 0 /\ errors[e] = 0
    /\ \A e \in Ids : errors[e] + polls[e] < MaxRetries + MaxPolls
    /\ \A s \in Sigs : monitored[s] # 0 => errors[monitored[s]] < MaxRetries

-----------------------------------------------------------------------------
\* The order of the statuses, in numbers.
LEMMA LevelValues ==
    /\ Level["NotFound"] = 0 /\ Level["Processed"] = 1 /\ Level["Confirmed"] = 2
    /\ Level["Finalized"] = 3 /\ Level["Failed"] = 4 /\ Level["TimedOut"] = 4
    /\ \A st \in Statuses : Level[st] \in 0..4
BY DEF Level, Statuses

\* The entries made so far are the first ones, and each is one of a signature.
LEMMA MadeTypes == ASSUME Types
                   PROVE /\ Made = 1..Len(entries) /\ Made \subseteq Ids
                         /\ \A e \in Made : entries[e] \in Entries /\ SigOf(e) \in Sigs
<1>1. Made = 1..Len(entries) /\ Len(entries) \in Nat
  BY DEF Types, Made
<1>2. Made \subseteq Ids
  BY <1>1, MonitorAssumption DEF Types, Ids
<1>3. ASSUME NEW e \in Made PROVE entries[e] \in Entries
  BY <1>1, <1>3 DEF Types
<1>4. \A e \in Made : SigOf(e) \in Sigs
  BY <1>3 DEF SigOf, Entries
<1> QED BY <1>1, <1>2, <1>3, <1>4

\* What a view that ends or does not end the monitoring is.
LEMMA ViewIsTrue ==
    ASSUME Types, NEW e \in Made, NEW seen \in Views(SigOf(e))
    PROVE /\ seen \in Statuses /\ Holds(SigOf(e), seen)
          /\ seen = "Failed" => chain[SigOf(e)] = "Failed"
          /\ Reached(e, seen) /\ seen \in Targets => Level[seen] >= Level[entries[e].target]
          /\ ~Reached(e, seen) => seen \notin Terminal
<1>1. SigOf(e) \in Sigs /\ entries[e].target \in Targets /\ chain[SigOf(e)] \in Statuses
  BY MadeTypes DEF Entries, Types
<1>2. seen \in Statuses /\ Holds(SigOf(e), seen) /\ (seen = "Failed" => chain[SigOf(e)] = "Failed")
  BY <1>1, LevelValues DEF Views, Holds, Statuses, Targets
<1>3. seen \notin {"TimedOut"}
  BY DEF Views, Targets
<1>4. Reached(e, seen) /\ seen \in Targets => Level[seen] >= Level[entries[e].target]
  BY DEF Reached, Targets
<1>5. ~Reached(e, seen) => seen \notin Terminal
  BY <1>1, <1>3, LevelValues DEF Reached, Terminal, Targets, Statuses
<1> QED BY <1>2, <1>4, <1>5

\* completeMonitoring keeps the invariant when the status it ends with is true.
LEMMA CompleteInv ==
    ASSUME IInv, NEW e \in Made, NEW st \in Statuses, Complete(e, st),
           UNCHANGED <<entries, aborted, chain>>,
           errors' \in [Ids -> Nat], \A d \in Ids : errors'[d] >= errors[d],
           Holds(SigOf(e), st),
           st \in Targets => Level[st] >= Level[entries[e].target],
           st = "Failed" => chain[SigOf(e)] = "Failed" \/ errors'[e] >= MaxRetries
    PROVE IInv'
<1> USE DEF IInv
<1>1. /\ e \in Ids /\ SigOf(e) \in Sigs /\ Made' = Made /\ \A d \in Made : SigOf(d)' = SigOf(d)
      /\ Made = 1..Len(entries) /\ Made \subseteq Ids
  BY MadeTypes DEF Made, SigOf
<1>2. Types'
  <2>1. status' \in [Ids -> Statuses] /\ outcome' \in [Ids -> Statuses]
    BY DEF Types, Complete, Report
  <2>2. cache' \in [Sigs -> Statuses] /\ monitored' \in [Sigs -> 0..MaxEntries]
    <3>1. 0 \in 0..MaxEntries
      BY MonitorAssumption
    <3>2. cache' = cache \/ cache' = [cache EXCEPT ![SigOf(e)] = st]
      BY DEF Complete
    <3>3. cache' \in [Sigs -> Statuses]
      BY <1>1, <3>2 DEF Types
    <3>4. monitored' = [monitored EXCEPT ![SigOf(e)] = 0]
      BY DEF Complete
    <3>5. monitored' \in [Sigs -> 0..MaxEntries]
      BY <1>1, <3>1, <3>4 DEF Types
    <3> QED BY <3>3, <3>5
  <2>3. waiting' \subseteq Made
    BY DEF Types, Complete
  <2> QED BY <1>1, <2>1, <2>2, <2>3 DEF Types
<1>3. Order'
  <2>1. \A d \in Ids \ Made : status'[d] = status[d] /\ outcome'[d] = outcome[d]
    BY DEF Complete, Report, Types
  <2>2. \A s \in Sigs : monitored'[s] \in {0, monitored[s]}
    BY DEF Complete, Types
  <2> QED BY <1>1, <2>1, <2>2 DEF Order
<1>4. Consistent'
  <2>1. ASSUME NEW s \in Sigs, monitored'[s] # 0
        PROVE /\ entries'[monitored'[s]].sig = s /\ monitored'[s] \notin aborted'
              /\ monitored'[s] \in waiting' /\ status'[monitored'[s]] \notin Terminal
    <3>1. s # SigOf(e) /\ monitored'[s] = monitored[s] /\ monitored[s] # 0
      BY <1>1, <2>1 DEF Complete, Types
    <3>2. monitored[s] \in Made /\ SigOf(monitored[s]) = s /\ monitored[s] # e
      BY <3>1 DEF Consistent, Order
    <3>3. monitored[s] \notin aborted /\ monitored[s] \in waiting /\ status[monitored[s]] \notin Terminal
      BY <3>1 DEF Consistent
    <3>4. status'[monitored[s]] = status[monitored[s]] /\ monitored[s] \in waiting'
      BY <1>1, <3>2, <3>3 DEF Complete, Report, Types
    <3> QED BY <3>1, <3>2, <3>3, <3>4 DEF SigOf
  <2>2. ASSUME NEW d \in waiting', monitored'[entries'[d].sig] # d
        PROVE d \in aborted' \/ Older(d)' # {}
    <3>1. d \in waiting /\ d # e /\ d \in Made /\ Older(d)' = Older(d)
      BY <1>1 DEF Complete, Older, Types, SigOf
    <3>2. CASE monitored[SigOf(d)] = d
      <4>1. SigOf(d) = SigOf(e)
        BY <1>1, <2>2, <3>1, <3>2 DEF Complete, Types, SigOf
      <4>2. e <= d /\ d # 0
        BY <1>1, <3>1, <3>2, <4>1 DEF Order
      <4>3. e < d
        BY <1>1, <3>1, <4>2
      <4> QED BY <1>1, <3>1, <4>1, <4>3 DEF Older
    <3>3. CASE monitored[SigOf(d)] # d
      BY <3>1, <3>3 DEF Consistent
    <3> QED BY <3>2, <3>3
  <2> QED BY <2>1, <2>2 DEF Consistent, SigOf
<1>5. AnswersAreTrue'
  <2>1. ASSUME NEW s \in Sigs PROVE Holds(s, cache[s])'
    BY DEF AnswersAreTrue, Complete, Holds, Types
  <2>2. ASSUME NEW d \in Made
        PROVE /\ Holds(SigOf(d), outcome[d])'
              /\ outcome'[d] \in Targets => Level[outcome'[d]] >= Level[entries'[d].target]
              /\ outcome'[d] = "Failed" => chain'[SigOf(d)'] = "Failed" \/ errors'[d] >= MaxRetries
    <3>1. CASE d = e /\ e \in waiting
      BY <1>1, <3>1 DEF Complete, Holds, Types, SigOf
    <3>2. CASE ~(d = e /\ e \in waiting)
      <4>1. outcome'[d] = outcome[d] /\ errors'[d] >= errors[d] /\ errors[d] \in Nat /\ errors'[d] \in Nat
        BY <1>1, <3>2 DEF Complete, Types
      <4> QED BY <1>1, <4>1, MonitorAssumption DEF AnswersAreTrue, Holds, SigOf
    <3> QED BY <3>1, <3>2
  <2> QED BY <1>1, <2>1, <2>2 DEF AnswersAreTrue
<1> QED BY <1>2, <1>3, <1>4, <1>5

\* A monitor that was just constructed satisfies the invariant.
LEMMA InitInv == Init => IInv
<1> SUFFICES ASSUME Init PROVE IInv
  OBVIOUS
<1>1. Made = {}
  BY DEF Init, Made
<1> QED BY <1>1, MonitorAssumption
        DEF Init, IInv, Types, Order, Consistent, AnswersAreTrue, Holds, Statuses, Targets, Ids

\* A step that leaves entries, map, waits and answers alone, and no status of a
\* monitored entry terminal, keeps the invariant.
LEMMA QuietInv ==
    ASSUME IInv, UNCHANGED <<entries, monitored, waiting, aborted, outcome, chain>>,
           cache' \in [Sigs -> Statuses], \A s \in Sigs : cache'[s] \in {cache[s], "NotFound"},
           status' \in [Ids -> Statuses], errors' \in [Ids -> Nat],
           \A e \in Ids : errors'[e] >= errors[e],
           \A e \in Ids : status'[e] = status[e] \/ (e \in Made /\ status'[e] \notin Terminal)
    PROVE IInv'
<1> USE DEF IInv
<1>1. /\ Made' = Made /\ Made \subseteq Ids
      /\ \A d \in Made : SigOf(d)' = SigOf(d) /\ Older(d)' = Older(d)
  BY MadeTypes DEF Made, SigOf, Older
<1>2. Types' /\ Order'
  BY <1>1 DEF Types, Order
<1>3. Consistent'
  BY <1>1 DEF Consistent, Types, Order
<1>4. AnswersAreTrue'
  <2>1. \A s \in Sigs : Holds(s, cache[s])'
    BY DEF AnswersAreTrue, Holds, Targets
  <2>2. \A d \in Made : errors'[d] >= errors[d] /\ errors[d] \in Nat /\ errors'[d] \in Nat
    BY <1>1 DEF Types
  <2> QED BY <1>1, <2>1, <2>2, MonitorAssumption DEF AnswersAreTrue, Holds, SigOf
<1> QED BY <1>2, <1>3, <1>4

\* Releasing monitored signatures keeps the invariant when their entries are
\* cancelled.
LEMMA ReleaseInv ==
    ASSUME IInv, NEW S \in SUBSET Sigs, \A s \in S : monitored[s] # 0,
           monitored' = [t \in Sigs |-> IF t \in S THEN 0 ELSE monitored[t]],
           aborted' = aborted \cup {monitored[s] : s \in S},
           UNCHANGED <<cache, entries, status, errors, waiting, outcome, chain>>
    PROVE IInv'
<1> USE DEF IInv
<1>1. /\ Made' = Made /\ Made \subseteq Ids
      /\ \A d \in Made : SigOf(d)' = SigOf(d) /\ SigOf(d) \in Sigs /\ Older(d)' = Older(d)
  BY MadeTypes DEF Made, SigOf, Older
<1>2. \A s \in Sigs : monitored'[s] \in {0, monitored[s]}
  OBVIOUS
<1>3. Types'
  <2>1. 0 \in 0..MaxEntries
    BY MonitorAssumption
  <2>2. monitored' \in [Sigs -> 0..MaxEntries]
    BY <2>1 DEF Types
  <2>3. aborted' \subseteq Made
    BY DEF Types, Order
  <2> QED BY <1>1, <2>2, <2>3 DEF Types
<1>4. Order'
  BY <1>1, <1>2 DEF Order
<1>5. Consistent'
  <2>1. ASSUME NEW t \in Sigs, monitored'[t] # 0
        PROVE /\ entries'[monitored'[t]].sig = t /\ monitored'[t] \notin aborted'
              /\ monitored'[t] \in waiting' /\ status'[monitored'[t]] \notin Terminal
    <3>1. monitored'[t] = monitored[t] /\ monitored[t] # 0 /\ t \notin S
      BY <2>1
    <3>2. /\ SigOf(monitored[t]) = t /\ monitored[t] \notin aborted
          /\ monitored[t] \in waiting /\ status[monitored[t]] \notin Terminal
      BY <3>1 DEF Consistent
    <3>3. \A s \in S : SigOf(monitored[s]) = s
      BY DEF Consistent
    <3>4. monitored[t] \notin aborted'
      BY <3>1, <3>2, <3>3
    <3> QED BY <3>1, <3>2, <3>4 DEF SigOf
  <2>2. ASSUME NEW d \in waiting', monitored'[entries'[d].sig] # d
        PROVE d \in aborted' \/ Older(d)' # {}
    <3>1. d \in waiting /\ d \in Made /\ SigOf(d)' = SigOf(d) /\ SigOf(d) \in Sigs /\ Older(d)' = Older(d)
      BY <1>1 DEF Types
    <3>2. CASE monitored[SigOf(d)] = d
      BY <2>2, <3>1, <3>2 DEF SigOf
    <3>3. CASE monitored[SigOf(d)] # d
      BY <3>1, <3>3 DEF Consistent
    <3> QED BY <3>2, <3>3
  <2> QED BY <2>1, <2>2 DEF Consistent, SigOf
<1>6. AnswersAreTrue'
  BY <1>1 DEF AnswersAreTrue, Holds
<1> QED BY <1>3, <1>4, <1>5, <1>6

\* What holds of a signature goes on holding as the chain advances.
LEMMA ChainInv == ASSUME IInv, NEW s \in Sigs, ChainAdvances(s) PROVE IInv'
<1> USE DEF IInv
<1>1. /\ Made' = Made /\ Made \subseteq Ids
      /\ \A d \in Made : SigOf(d)' = SigOf(d) /\ SigOf(d) \in Sigs /\ Older(d)' = Older(d)
  BY MadeTypes DEF Made, SigOf, Older, ChainAdvances
<1>2. UNCHANGED <<monitored, cache, entries, status, errors, aborted, waiting, outcome>>
  BY DEF ChainAdvances, entryVars
<1>3. PICK v \in Targets \cup {"Failed"} :
        /\ chain' = [chain EXCEPT ![s] = v] /\ chain[s] # "Failed"
        /\ v = "Failed" => chain[s] = "NotFound"
        /\ Level[v] >= Level[chain[s]]
  BY LevelValues DEF ChainAdvances, Targets
<1>4. ASSUME NEW t \in Sigs
      PROVE chain'[t] = chain[t] \/ (t = s /\ chain'[t] = v)
  <2>1. chain' = [chain EXCEPT ![s] = v] /\ chain \in [Sigs -> Statuses \ {"TimedOut"}]
    BY <1>3 DEF Types
  <2>2. CASE t = s
    BY <2>1, <2>2
  <2>3. CASE t # s
    BY <2>1, <2>3
  <2> QED BY <2>2, <2>3
<1>5. chain' \in [Sigs -> Statuses \ {"TimedOut"}]
  BY <1>3 DEF Types, Targets, Statuses
<1>6. ASSUME NEW t \in Sigs, NEW st \in Statuses, Holds(t, st)
      PROVE Holds(t, st)' /\ (chain[t] = "Failed" => chain'[t] = "Failed")
  <2>1. CASE chain'[t] = chain[t]
    BY <1>6, <2>1 DEF Holds
  <2>2. CASE t = s /\ chain'[t] = v
    <3>1. chain[s] \in Statuses /\ v \in Statuses
      BY DEF Types, Targets, Statuses
    <3>2. Level[v] \in Nat /\ Level[chain[s]] \in Nat /\ Level[st] \in Nat
      BY <3>1, LevelValues
    <3>3. v = "Failed" => st \notin Targets
      BY <1>3, <1>6, <2>2, LevelValues DEF Holds, Targets
    <3> QED BY <1>3, <1>6, <2>2, <3>2, <3>3 DEF Holds
  <2> QED BY <1>4, <2>1, <2>2
<1>7. Types' /\ Order' /\ Consistent'
  BY <1>1, <1>2, <1>5 DEF Types, Order, Consistent
<1>8. AnswersAreTrue'
  <2>1. \A t \in Sigs : Holds(t, cache[t])'
    BY <1>2, <1>6 DEF AnswersAreTrue, Types
  <2>2. ASSUME NEW d \in Made
        PROVE /\ Holds(SigOf(d), outcome[d])'
              /\ outcome[d] = "Failed" => chain'[SigOf(d)] = "Failed" \/ errors[d] >= MaxRetries
    <3>1. outcome[d] \in Statuses /\ SigOf(d) \in Sigs
      BY <1>1 DEF Types
    <3>2. Holds(SigOf(d), outcome[d])
      BY DEF AnswersAreTrue
    <3>3. /\ outcome[d] \in Targets => chain'[SigOf(d)] # "Failed" /\ Level[chain'[SigOf(d)]] >= Level[outcome[d]]
          /\ chain[SigOf(d)] = "Failed" => chain'[SigOf(d)] = "Failed"
      BY <1>6, <3>1, <3>2 DEF Holds
    <3> QED BY <1>1, <1>2, <3>3 DEF AnswersAreTrue, Holds
  <2> QED BY <1>1, <1>2, <2>1, <2>2 DEF AnswersAreTrue
<1> QED BY <1>7, <1>8

\* Every call, poll, answer and timer of the monitor keeps it.
LEMMA StepInv == IInv /\ [Next]_vars => IInv'
<1> SUFFICES ASSUME IInv, [Next]_vars PROVE IInv'
  OBVIOUS
<1> USE DEF IInv
<1>0. /\ Made = 1..Len(entries) /\ Made \subseteq Ids
      /\ \A e \in Made : entries[e] \in Entries /\ SigOf(e) \in Sigs
      /\ \A e \in Ids : errors[e] >= errors[e]
  BY MadeTypes DEF Types
<1>1. ASSUME NEW s \in Sigs, NEW target \in Asked, NEW c \in BOOLEAN, Monitor(s, target, c)
      PROVE IInv'
  <2>0. PICK e \in Nat : e = Len(entries) + 1
    BY DEF Types
  <2>1. /\ entries' = Append(entries, [sig |-> s, target |-> target, cached |-> c])
        /\ monitored' = [monitored EXCEPT ![s] = e] /\ monitored[s] = 0
        /\ waiting' = waiting \cup {e}
        /\ UNCHANGED <<cache, status, errors, aborted, outcome, chain>>
        /\ Len(entries) < MaxEntries
    BY <1>1, <2>0 DEF Monitor
  <2>2. /\ Made' = Made \cup {e} /\ e \in Ids \ Made /\ e # 0
        /\ entries'[e].sig = s /\ \A d \in Made : entries'[d] = entries[d] /\ d < e
        /\ entries' \in Seq(Entries) /\ Len(entries') <= MaxEntries
    <3>1. [sig |-> s, target |-> target, cached |-> c] \in Entries
      BY MonitorAssumption DEF Entries, Targets
    <3>2. Len(entries) \in Nat /\ entries \in Seq(Entries)
      BY DEF Types
    <3>3. entries' \in Seq(Entries) /\ Len(entries') = e /\ DOMAIN entries' = 1..e
      BY <2>0, <2>1, <3>1, <3>2
    <3>4. entries'[e] = [sig |-> s, target |-> target, cached |-> c]
      BY <2>0, <2>1, <3>2
    <3>5. \A d \in Made : entries'[d] = entries[d] /\ d < e
      BY <1>0, <2>0, <2>1, <3>2
    <3>6. e \in Ids \ Made /\ e # 0 /\ Made' = Made \cup {e}
      BY <1>0, <2>0, <2>1, <3>2, <3>3, MonitorAssumption DEF Ids, Made
    <3>7. Len(entries') <= MaxEntries
      BY <2>0, <2>1, <3>2, <3>3, MonitorAssumption
    <3>8. entries'[e].sig = s
      BY <3>4
    <3> QED BY <3>3, <3>5, <3>6, <3>7, <3>8
  <2>3. Types'
    BY <2>1, <2>2 DEF Types, Ids
  <2>4. Order'
    <3>1. \A d \in Ids \ Made' : status'[d] = "NotFound" /\ outcome'[d] = "NotFound"
      BY <2>1, <2>2 DEF Order
    <3>2. ASSUME NEW t \in Sigs, monitored'[t] # 0
          PROVE monitored'[t] \in Made' /\ \A d \in Made' : entries'[d].sig = t => d <= monitored'[t]
      <4>1. CASE t = s
        <5>1. monitored'[t] = e
          BY <4>1, <2>1 DEF Types
        <5>2. \A d \in Made' : d <= e
          BY <2>2, <1>0
        <5> QED BY <5>1, <5>2, <2>2
      <4>2. CASE t # s
        <5>1. monitored'[t] = monitored[t] /\ monitored[t] # 0
          BY <4>2, <3>2, <2>1 DEF Types
        <5> QED BY <5>1, <4>2, <2>2 DEF Order, SigOf
      <4> QED BY <4>1, <4>2
    <3> QED BY <3>1, <3>2 DEF Order, SigOf
  <2>5. Consistent'
    <3>1. ASSUME NEW t \in Sigs, monitored'[t] # 0
          PROVE /\ entries'[monitored'[t]].sig = t /\ monitored'[t] \notin aborted'
                /\ monitored'[t] \in waiting' /\ status'[monitored'[t]] \notin Terminal
      <4>1. CASE t = s
        <5>1. monitored'[t] = e
          BY <4>1, <2>1 DEF Types
        <5>2. e \notin aborted /\ status[e] = "NotFound"
          BY <2>2 DEF Types, Order
        <5> QED BY <5>1, <5>2, <4>1, <2>1, <2>2 DEF Terminal
      <4>2. CASE t # s
        <5>1. monitored'[t] = monitored[t] /\ monitored[t] # 0
          BY <4>2, <3>1, <2>1 DEF Types
        <5>2. monitored[t] \in Made
          BY <5>1 DEF Order
        <5>3. /\ SigOf(monitored[t]) = t /\ monitored[t] \notin aborted
              /\ monitored[t] \in waiting /\ status[monitored[t]] \notin Terminal
          BY <5>1 DEF Consistent
        <5>4. entries'[monitored[t]] = entries[monitored[t]]
          BY <5>2, <2>2
        <5>5. aborted' = aborted /\ status' = status /\ monitored[t] \in waiting'
          BY <5>3, <2>1
        <5> QED BY <5>1, <5>3, <5>4, <5>5 DEF SigOf
      <4> QED BY <4>1, <4>2
    <3>2. ASSUME NEW d \in waiting', monitored'[entries'[d].sig] # d
          PROVE d \in aborted' \/ Older(d)' # {}
      <4>1. d # e
        <5>1. monitored'[s] = e
          BY <2>1 DEF Types
        <5> QED BY <3>2, <5>1, <2>2
      <4>2. d \in Made /\ d \in waiting /\ entries'[d].sig = SigOf(d)
        BY <4>1, <2>1, <2>2 DEF Types, SigOf
      <4>3. Older(d) \subseteq Older(d)'
        BY <4>2, <2>2 DEF Older, SigOf
      <4>4. monitored[SigOf(d)] # d
        BY <1>0, <3>2, <4>2, <2>1, <2>2 DEF Types
      <4> QED BY <4>2, <4>3, <4>4, <2>1 DEF Consistent
    <3> QED BY <3>1, <3>2 DEF Consistent, SigOf
  <2>6. AnswersAreTrue'
    <3>1. outcome'[e] = "NotFound"
      BY <2>1, <2>2 DEF Order
    <3>2. \A t \in Sigs : Holds(t, cache[t])'
      BY <2>1 DEF AnswersAreTrue, Holds
    <3>3. ASSUME NEW d \in Made
          PROVE /\ Holds(SigOf(d), outcome[d])'
                /\ outcome'[d] \in Targets => Level[outcome'[d]] >= Level[entries'[d].target]
                /\ outcome'[d] = "Failed" => chain'[SigOf(d)'] = "Failed" \/ errors'[d] >= MaxRetries
      <4>1. entries'[d] = entries[d] /\ outcome' = outcome /\ chain' = chain /\ errors' = errors
        BY <2>1, <2>2
      <4>2. SigOf(d)' = SigOf(d)
        BY <4>1 DEF SigOf
      <4> QED BY <4>1, <4>2 DEF AnswersAreTrue, Holds
    <3>4. /\ Holds(SigOf(e), outcome[e])'
          /\ outcome'[e] \notin Targets \cup {"Failed"}
      BY <3>1 DEF Holds, Targets
    <3>5. \A d \in Made' : d \in Made \/ d = e
      BY <2>2
    <3> QED BY <3>2, <3>3, <3>4, <3>5 DEF AnswersAreTrue
  <2> QED BY <2>3, <2>4, <2>5, <2>6
<1>2. ASSUME NEW s \in Sigs, Cancel(s) PROVE IInv'
  <2>1. /\ monitored[s] # 0 /\ aborted' = aborted \cup {monitored[t] : t \in {s}}
        /\ monitored' = [t \in Sigs |-> IF t \in {s} THEN 0 ELSE monitored[t]]
        /\ UNCHANGED <<cache, entries, status, errors, waiting, outcome, chain>>
    BY <1>2 DEF Cancel, Types
  <2>2. {s} \in SUBSET Sigs /\ \A t \in {s} : monitored[t] # 0
    BY <2>1
  <2> QED BY <2>1, <2>2, ReleaseInv
<1>3. ASSUME Stop PROVE IInv'
  <2> DEFINE S == {s \in Sigs : monitored[s] # 0}
  <2>1. /\ aborted' = aborted \cup {monitored[s] : s \in S}
        /\ monitored' = [t \in Sigs |-> IF t \in S THEN 0 ELSE monitored[t]]
        /\ UNCHANGED <<cache, entries, status, errors, waiting, outcome, chain>>
    BY <1>3 DEF Stop, Types
  <2>2. S \in SUBSET Sigs /\ \A s \in S : monitored[s] # 0
    OBVIOUS
  <2> HIDE DEF S
  <2> QED BY <2>1, <2>2, ReleaseInv
<1>4. ASSUME NEW s \in Sigs, CacheExpires(s) PROVE IInv'
  <2>1. /\ cache' \in [Sigs -> Statuses]
        /\ \A t \in Sigs : cache'[t] \in {cache[t], "NotFound"}
    BY <1>4 DEF CacheExpires, Types, Statuses
  <2> QED BY <1>0, <1>4, <2>1, QuietInv DEF CacheExpires, entryVars, Types
<1>5. ASSUME \/ \E s \in Sigs : Poll(s)
             \/ Start
             \/ UNCHANGED vars
      PROVE IInv'
  <2>1. UNCHANGED <<monitored, cache, entries, entryVars, chain>>
    BY <1>5 DEF Poll, Start, vars
  <2> QED BY <1>0, <2>1, QuietInv DEF entryVars, Types
<1>6. ASSUME NEW s \in Sigs, ChainAdvances(s) PROVE IInv'
  BY <1>6, ChainInv
<1>7. ASSUME NEW e \in Made, PollCompletes(e) PROVE IInv'
  <2>1. PICK seen \in Views(SigOf(e)) : Reached(e, seen) /\ Complete(e, seen)
    BY <1>7 DEF PollCompletes
  <2>2. UNCHANGED <<entries, errors, aborted, chain>>
    BY <1>7 DEF PollCompletes
  <2>3. /\ seen \in Statuses /\ Holds(SigOf(e), seen)
        /\ seen = "Failed" => chain[SigOf(e)] = "Failed"
        /\ seen \in Targets => Level[seen] >= Level[entries[e].target]
    BY <2>1, ViewIsTrue
  <2> QED BY <1>0, <2>1, <2>2, <2>3, CompleteInv DEF Types
<1>8. ASSUME NEW e \in Made, PollReports(e) PROVE IInv'
  <2>1. PICK seen \in Views(SigOf(e)) : ~Reached(e, seen) /\ Report(e, seen)
    BY <1>8 DEF PollReports
  <2>2. UNCHANGED <<monitored, cache, entries, errors, aborted, waiting, outcome, chain>>
    BY <1>8 DEF PollReports
  <2>3. seen \in Statuses /\ seen \notin Terminal
    BY <2>1, ViewIsTrue
  <2>4. status' \in [Ids -> Statuses] /\ \A d \in Ids : status'[d] = status[d] \/ (d \in Made /\ status'[d] \notin Terminal)
    BY <1>0, <2>1, <2>3 DEF Report, Types
  <2> QED BY <1>0, <2>2, <2>4, QuietInv DEF Types
<1>9. ASSUME NEW e \in Made, PollErrs(e) PROVE IInv'
  <2>1. /\ errors' \in [Ids -> Nat] /\ \A d \in Ids : errors'[d] >= errors[d]
    <3>1. errors' = [errors EXCEPT ![e] = errors[e] + 1]
      BY <1>9 DEF PollErrs
    <3>2. e \in Ids /\ errors \in [Ids -> Nat]
      BY <1>0 DEF Types
    <3> QED BY <3>1, <3>2
  <2>2. UNCHANGED <<entries, aborted, chain>>
    BY <1>9 DEF PollErrs
  <2>3. CASE errors'[e] >= MaxRetries
    <3>1. Complete(e, "Failed")
      BY <1>9, <2>3 DEF PollErrs
    <3>2. "Failed" \in Statuses /\ "Failed" \notin Targets /\ Holds(SigOf(e), "Failed")
      BY DEF Statuses, Targets, Holds
    <3> QED BY <2>1, <2>2, <2>3, <3>1, <3>2, CompleteInv
  <2>4. CASE ~(errors'[e] >= MaxRetries)
    <3>1. UNCHANGED <<status, cache, outcome, waiting, monitored>>
      BY <1>9, <2>4 DEF PollErrs
    <3> QED BY <2>1, <2>2, <3>1, QuietInv DEF Types
  <2> QED BY <2>3, <2>4
<1>10. ASSUME NEW e \in Made, Timeout(e) PROVE IInv'
  <2>1. UNCHANGED <<entries, errors, aborted, chain>>
    BY <1>10 DEF Timeout
  <2>2. CASE Complete(e, "TimedOut")
    <3>1. "TimedOut" \in Statuses /\ "TimedOut" \notin Targets /\ Holds(SigOf(e), "TimedOut")
      BY DEF Statuses, Targets, Holds
    <3> QED BY <1>0, <2>1, <2>2, <3>1, CompleteInv DEF Types
  <2>3. CASE UNCHANGED <<status, cache, outcome, waiting, monitored>>
    BY <1>0, <2>1, <2>3, QuietInv DEF Types
  <2> QED BY <1>10, <2>2, <2>3 DEF Timeout
<1> QED BY <1>1, <1>2, <1>3, <1>4, <1>5, <1>6, <1>7, <1>8, <1>9, <1>10 DEF Next

-----------------------------------------------------------------------------
\* The state of the monitor has its types, what is not made yet has no history, and
\* the two properties below hold, with any signatures, monitorings and polls.
THEOREM Invariance == Spec => []IInv
<1> QED BY InitInv, StepInv, PTL DEF Spec

\* What callers and the cache are told of a signature is true, however late, doubled or
\* out of order the node's answers are.
THEOREM AnswersTrue == Spec => []AnswersAreTrue
<1>1. IInv => AnswersAreTrue
  BY DEF IInv
<1> QED BY <1>1, Invariance, PTL

\* The map of monitored signatures points to open entries of their own signature, and
\* an entry with callers leaves it by a cancellation or by an older entry's end.
THEOREM MapConsistent == Spec => []Consistent
<1>1. IInv => Consistent
  BY DEF IInv
<1> QED BY <1>1, Invariance, PTL

\* The polls that have failed of an entry, and those that still can.
LEMMA PollingStep == ASSUME IInv, Polling, [Next]_vars PROVE Polling'
<1>0. /\ MaxPolls \in Nat /\ MaxPolls > 0 /\ MaxRetries \in Nat /\ MaxRetries > 0
      /\ monitored \in [Sigs -> 0..MaxEntries] /\ errors \in [Ids -> Nat]
      /\ Made = 1..Len(entries) /\ Made \subseteq Ids /\ Len(entries) \in Nat
      /\ \A e \in Made : SigOf(e) \in Sigs
      /\ \A s \in Sigs : monitored[s] # 0 => monitored[s] \in Made /\ SigOf(monitored[s]) = s
  BY MonitorAssumption, MadeTypes DEF IInv, Types, Order, Consistent
<1>1. /\ isRunning \in BOOLEAN /\ timer \subseteq Made /\ polls \in [Ids -> 0..MaxPolls]
      /\ \A e \in Ids \ Made : polls[e] = 0 /\ errors[e] = 0
      /\ \A e \in Ids : errors[e] + polls[e] < MaxRetries + MaxPolls
      /\ \A s \in Sigs : monitored[s] # 0 => errors[monitored[s]] < MaxRetries
  BY DEF Polling
\* No poll starts or fails, and nothing is monitored that was not.
<1>2. ASSUME UNCHANGED <<entries, errors>>, isRunning' \in BOOLEAN, timer' \subseteq Made,
             polls' \in [Ids -> 0..MaxPolls], \A e \in Ids : polls'[e] <= polls[e],
             \A s \in Sigs : monitored'[s] \in {0, monitored[s]}
      PROVE Polling'
  <2>1. ASSUME NEW e \in Ids PROVE errors[e] + polls'[e] < MaxRetries + MaxPolls
    <3>1. errors[e] \in Nat /\ polls[e] \in Nat /\ polls'[e] \in Nat
      BY <1>0, <1>1, <1>2
    <3> QED BY <1>0, <1>1, <1>2, <3>1
  <2>2. ASSUME NEW e \in Ids \ Made PROVE polls'[e] = 0
    <3>1. polls'[e] \in Nat
      BY <1>2
    <3> QED BY <1>1, <1>2, <3>1
  <2>3. Made' = Made
    BY <1>2 DEF Made
  <2>4. \A s \in Sigs : monitored'[s] # 0 => errors'[monitored'[s]] < MaxRetries
    BY <1>1, <1>2
  <2>5. \A e \in Ids \ Made : polls'[e] = 0 /\ errors'[e] = 0
    BY <1>1, <1>2, <2>2
  <2>6. \A e \in Ids : errors'[e] + polls'[e] < MaxRetries + MaxPolls
    BY <1>2, <2>1
  <2> QED BY <1>2, <2>3, <2>4, <2>5, <2>6 DEF Polling
<1>3. ASSUME NEW e \in Made, PollEnds(e)
      PROVE /\ polls' = [polls EXCEPT ![e] = @ - 1] /\ polls[e] > 0
            /\ polls' \in [Ids -> 0..MaxPolls] /\ \A d \in Ids : polls'[d] <= polls[d]
  <2>1. polls' = [polls EXCEPT ![e] = @ - 1] /\ polls[e] > 0 /\ e \in Ids
    BY <1>0, <1>3 DEF PollEnds
  <2>2. ASSUME NEW d \in Ids PROVE polls'[d] \in 0..MaxPolls /\ polls'[d] <= polls[d]
    <3>1. polls[d] \in 0..MaxPolls /\ polls'[d] = IF d = e THEN polls[d] - 1 ELSE polls[d]
      BY <1>1, <2>1
    <3> QED BY <1>0, <2>1, <3>1
  <2>3. polls' \in [Ids -> 0..MaxPolls]
    BY <1>1, <2>1, <2>2
  <2> QED BY <2>1, <2>2, <2>3
<1>4. ASSUME NEW e \in Made, NEW st, Complete(e, st)
      PROVE monitored' = [monitored EXCEPT ![SigOf(e)] = 0]
  BY <1>4 DEF Complete
<1>5. ASSUME NEW s \in Sigs, NEW target \in Asked, NEW c \in BOOLEAN, Monitor(s, target, c)
      PROVE Polling'
  <2> DEFINE e == Len(entries) + 1
  <2>1. /\ isRunning' = TRUE /\ UNCHANGED <<errors, polls>> /\ timer' = timer \cup {e}
        /\ monitored' = [monitored EXCEPT ![s] = e] /\ Len(entries) < MaxEntries
    BY <1>5 DEF Monitor
  <2>2. Made' = Made \cup {e}
    <3>1. Len(entries') = e /\ DOMAIN entries' = 1..e
      BY <1>5 DEF Monitor, IInv, Types
    <3> QED BY <1>0, <3>1 DEF Made
  <2>3. e \in Ids \ Made
    BY <1>0, <2>1, MonitorAssumption DEF Ids
  <2>4. \A t \in Sigs : monitored'[t] # 0 => errors[monitored'[t]] < MaxRetries
    BY <1>0, <1>1, <2>1, <2>3
  <2> HIDE DEF e
  <2> QED BY <1>1, <2>1, <2>2, <2>4 DEF Polling
<1>6. ASSUME NEW s \in Sigs, Poll(s) PROVE Polling'
  <2> DEFINE m == monitored[s]
  <2>1. m \in Made /\ m \in Ids /\ errors[m] < MaxRetries /\ errors[m] \in Nat /\ polls[m] \in Nat
    BY <1>0, <1>1, <1>6 DEF Poll
  <2>2. polls[m] + 0 < MaxPolls
    BY <1>6, <2>1 DEF Poll
  <2>3. /\ polls' = [polls EXCEPT ![m] = @ + 1]
        /\ UNCHANGED <<isRunning, monitored, entries, errors, timer>>
    BY <1>6 DEF Poll, entryVars
  <2> HIDE DEF m
  <2>4. polls' \in [Ids -> 0..MaxPolls]
    BY <1>0, <1>1, <2>1, <2>2, <2>3
  <2>5. ASSUME NEW e \in Ids PROVE errors[e] + polls'[e] < MaxRetries + MaxPolls
    BY <1>0, <1>1, <2>1, <2>2, <2>3
  <2>6. \A e \in Ids \ Made : polls'[e] = 0
    BY <1>1, <2>1, <2>3
  <2>7. Made' = Made
    BY <2>3 DEF Made
  <2> QED BY <1>1, <2>3, <2>4, <2>5, <2>6, <2>7 DEF Polling
<1>7. ASSUME NEW e \in Made, PollErrs(e) PROVE Polling'
  <2>1. /\ polls' = [polls EXCEPT ![e] = @ - 1] /\ polls[e] > 0
        /\ polls' \in [Ids -> 0..MaxPolls] /\ errors' = [errors EXCEPT ![e] = @ + 1]
        /\ UNCHANGED <<isRunning, entries, timer>>
    BY <1>3, <1>7 DEF PollErrs
  <2>2. e \in Ids /\ errors[e] \in Nat /\ polls[e] \in Nat /\ errors'[e] = errors[e] + 1
    BY <1>0, <1>1, <2>1
  <2>3. ASSUME NEW d \in Ids PROVE errors'[d] + polls'[d] < MaxRetries + MaxPolls
    BY <1>0, <1>1, <2>1, <2>2
  <2>4. \A d \in Ids \ Made : polls'[d] = 0 /\ errors'[d] = 0
    BY <1>1, <2>1
  <2>5. ASSUME NEW s \in Sigs, monitored'[s] # 0 PROVE errors'[monitored'[s]] < MaxRetries
    <3>1. CASE errors'[e] >= MaxRetries
      <4>1. monitored' = [monitored EXCEPT ![SigOf(e)] = 0]
        BY <1>4, <1>7, <3>1 DEF PollErrs
      <4>2. s # SigOf(e) /\ monitored'[s] = monitored[s] /\ monitored[s] # e
        BY <1>0, <2>5, <4>1
      <4> QED BY <1>0, <1>1, <2>1, <2>5, <4>2
    <3>2. CASE ~(errors'[e] >= MaxRetries)
      <4>1. monitored' = monitored
        BY <1>7, <3>2 DEF PollErrs
      <4> QED BY <1>0, <1>1, <2>1, <2>2, <2>5, <3>2, <4>1
    <3> QED BY <3>1, <3>2
  <2>6. timer' \subseteq Made'
    BY <1>1, <2>1 DEF Made
  <2>7. Made' = Made
    BY <2>1 DEF Made
  <2> QED BY <1>1, <2>1, <2>3, <2>4, <2>5, <2>6, <2>7 DEF Polling
<1>8. ASSUME NEW e \in Made, PollCompletes(e) PROVE Polling'
  <2>1. monitored' = [monitored EXCEPT ![SigOf(e)] = 0]
    BY <1>4, <1>8 DEF PollCompletes
  <2>2. UNCHANGED <<entries, errors, isRunning, timer>>
    BY <1>8 DEF PollCompletes
  <2> QED BY <1>0, <1>1, <1>2, <1>3, <1>8, <2>1, <2>2 DEF PollCompletes
<1>9. ASSUME NEW e \in Made, PollReports(e) PROVE Polling'
  BY <1>1, <1>2, <1>3, <1>9 DEF PollReports
<1>10. ASSUME NEW e \in Made, Timeout(e) PROVE Polling'
  <2>1. \A s \in Sigs : monitored'[s] \in {0, monitored[s]}
    BY <1>0, <1>4, <1>10 DEF Timeout
  <2>2. UNCHANGED <<entries, errors, isRunning, polls>> /\ timer' \subseteq timer
    BY <1>10 DEF Timeout
  <2> QED BY <1>0, <1>1, <1>2, <2>1, <2>2
<1>11. CASE \/ \E s \in Sigs : Cancel(s) \/ CacheExpires(s) \/ ChainAdvances(s)
            \/ Start \/ Stop \/ UNCHANGED vars
  <2>1. /\ UNCHANGED <<entries, errors, timer, polls>> /\ isRunning' \in BOOLEAN
        /\ \A s \in Sigs : monitored'[s] \in {0, monitored[s]}
    BY <1>0, <1>1, <1>11 DEF Cancel, CacheExpires, ChainAdvances, Start, Stop, vars, entryVars
  <2> QED BY <1>0, <1>1, <1>2, <2>1
<1> QED BY <1>5, <1>6, <1>7, <1>8, <1>9, <1>10, <1>11 DEF Next

\* However many polls are under way, at most maxPolls - 1 can fail after the one that
\* ended the monitoring: the whole state keeps its types.
THEOREM FailedPollsBounded == Spec => []TypeOK
<1>1. Init => Polling
  <2> SUFFICES ASSUME Init PROVE Polling
    OBVIOUS
  <2>1. Made = {} /\ timer = {} /\ isRunning \in BOOLEAN
    BY DEF Init, Made
  <2>2. /\ polls = [e \in Ids |-> 0] /\ errors = [e \in Ids |-> 0]
        /\ monitored = [s \in Sigs |-> 0]
    BY DEF Init
  <2> QED BY <2>1, <2>2, MonitorAssumption DEF Polling
<1>2. IInv /\ Polling /\ [Next]_vars => Polling'
  BY PollingStep
<1>3. IInv /\ Polling => TypeOK
  <2> SUFFICES ASSUME IInv, Polling PROVE TypeOK
    OBVIOUS
  <2>1. errors \in [Ids -> 0..(MaxRetries + MaxPolls - 1)]
    <3>1. \A e \in Ids : errors[e] \in Nat /\ polls[e] \in Nat
                         /\ errors[e] + polls[e] < MaxRetries + MaxPolls
      BY DEF IInv, Types, Polling
    <3>2. \A e \in Ids : errors[e] \in 0..(MaxRetries + MaxPolls - 1)
      BY <3>1, MonitorAssumption
    <3> QED BY <3>2 DEF IInv, Types
  <2> QED BY <2>1 DEF TypeOK, IInv, Types, Polling, Entries
<1> QED BY <1>1, <1>2, <1>3, Invariance, PTL DEF Spec
=============================================================================
