------------------------ MODULE RetryHandler_proofs ------------------------
(***************************************************************************)
(* Proofs about RetryHandler, for any calls, delays, thresholds and        *)
(* windows, and every strategy: an open circuit runs nothing, and a call   *)
(* is told what its own last attempt came to.                              *)
(***************************************************************************)
EXTENDS RetryHandler, TLAPS

Circuits == [state : {"Closed", "Open", "HalfOpen"},
             openAge : 0..resetTimeout, successes : 0..successThreshold,
             failures : [0..failureWindow - 1 -> Nat]]

\* A call that runs has made its first attempt, and one that sleeps has one left.
Attempts ==
    \A c \in Calls : /\ phase[c] \in {"running", "sleeping"} => attempt[c] >= 1
                     /\ phase[c] = "sleeping" => attempt[c] < maxAttempts

\* The circuit's own clock is never ahead of the history, and a circuit that lets
\* calls through has waited.
Waited ==
    IF circuit.state = "Open" THEN circuit.openAge <= sinceOpen
                              ELSE sinceOpen = resetTimeout

IInv == TypeOK /\ Attempts /\ Waited

\* How one step of a call may change the circuit: it leaves the open state only when
\* the reset timeout has passed, and waits anew when it enters it.
Moves(b, r) ==
    IF r.state = "Open" THEN r.openAge <= IF b.state = "Open" THEN b.openAge ELSE 0
    ELSE b.state = "Open" => b.openAge >= resetTimeout

-----------------------------------------------------------------------------
(* The helpers. *)

\* Least and Greatest choose one of two numbers.
LEMMA Smaller == ASSUME NEW a \in Int, NEW b \in Int
                 PROVE  /\ Least(a, b) \in {a, b} /\ Least(a, b) <= a /\ Least(a, b) <= b
                        /\ Greatest(a, b) \in {a, b}
                        /\ Greatest(a, b) >= a /\ Greatest(a, b) >= b
BY DEF Least, Greatest

\* Becoming open starts the wait, becoming closed or half-open changes the state.
LEMMA TransitionTypes ==
    ASSUME NEW b \in Circuits, NEW to \in {"Closed", "Open", "HalfOpen"}
    PROVE  /\ transitionTo(b, to) \in Circuits /\ transitionTo(b, to).state = to
           /\ to = "Open" => transitionTo(b, to).openAge = 0
<1>1. 0 \in 0..resetTimeout /\ 0 \in 0..successThreshold
  BY RetryAssumption
<1>2. CASE to = "Open"
  BY <1>1, <1>2 DEF transitionTo, Circuits
<1>3. CASE to = "Closed"
  BY <1>1, <1>3 DEF transitionTo, Circuits
<1>4. CASE to = "HalfOpen"
  BY <1>4 DEF transitionTo, Circuits
<1> QED BY <1>2, <1>3, <1>4

\* getState and canExecute move an open circuit on only when it has waited.
LEMMA UpdateState ==
    ASSUME NEW b \in Circuits
    PROVE  /\ updateState(b) \in Circuits /\ Moves(b, updateState(b))
           /\ MayAdmit(updateState(b)) => b.state # "Open" \/ b.openAge >= resetTimeout
<1>1. b.openAge \in 0..resetTimeout /\ b.openAge \in Int
  BY DEF Circuits
<1>2. CASE b.state = "Open" /\ b.openAge >= resetTimeout
  BY <1>2, TransitionTypes DEF updateState, Moves
<1>3. CASE ~(b.state = "Open" /\ b.openAge >= resetTimeout)
  <2>1. updateState(b) = b
    BY <1>3 DEF updateState
  <2> QED BY <1>1, <1>3, <2>1 DEF Moves, MayAdmit
<1> QED BY <1>2, <1>3

\* A success closes a half-open circuit, or leaves the state as it was.
LEMMA RecordSuccess ==
    ASSUME NEW b \in Circuits
    PROVE  recordSuccess(b) \in Circuits /\ Moves(b, recordSuccess(b))
<1> DEFINE r == [b EXCEPT !.successes = Least(@ + 1, successThreshold)]
<1>1. /\ b.successes + 1 \in Nat /\ successThreshold \in Nat
      /\ b.openAge \in 0..resetTimeout /\ b.openAge \in Int
  BY RetryAssumption DEF Circuits
<1>2. Least(b.successes + 1, successThreshold) \in 0..successThreshold
  BY <1>1, Smaller DEF Circuits
<1>3. r \in Circuits /\ r.state = b.state /\ r.openAge = b.openAge
  BY <1>2 DEF Circuits
<1>4. CASE b.state = "HalfOpen" /\ r.successes >= successThreshold
  <2>1. recordSuccess(b) = transitionTo(r, "Closed")
    BY <1>4 DEF recordSuccess
  <2> QED BY <1>3, <1>4, <2>1, TransitionTypes DEF Moves
<1>5. CASE ~(b.state = "HalfOpen" /\ r.successes >= successThreshold)
  <2>1. recordSuccess(b) = r
    BY <1>5 DEF recordSuccess
  <2> QED BY <1>1, <1>3, <2>1 DEF Moves
<1> QED BY <1>4, <1>5

\* A failure opens the circuit, makes it wait anew, or leaves the state as it was.
LEMMA RecordFailure ==
    ASSUME NEW b \in Circuits
    PROVE  recordFailure(b) \in Circuits /\ Moves(b, recordFailure(b))
<1> DEFINE r == [b EXCEPT !.successes = 0, !.failures[0] = @ + 1]
<1>1. b.openAge \in 0..resetTimeout /\ b.openAge \in Int /\ 0 \in 0..failureWindow - 1
  BY RetryAssumption DEF Circuits
<1>2. r \in Circuits /\ r.state = b.state /\ r.openAge = b.openAge
  <2> DEFINE f == [b.failures EXCEPT ![0] = @ + 1]
  <2>1. b.failures \in [0..failureWindow - 1 -> Nat]
    BY DEF Circuits
  <2>2. f \in [0..failureWindow - 1 -> Nat]
    <3>1. b.failures[0] \in Nat
      BY <1>1, <2>1, Zenon
    <3>2. b.failures[0] + 1 \in Nat
      BY <3>1
    <3> QED BY <1>1, <2>1, <3>2
  <2>3. r = [b EXCEPT !.successes = 0, !.failures = f]
    BY DEF Circuits
  <2>4. 0 \in 0..successThreshold
    BY RetryAssumption
  <2> HIDE DEF f, r
  <2> QED BY <2>2, <2>3, <2>4 DEF Circuits
<1>3. recordFailure(b) = transitionTo(r, "Open") \/ recordFailure(b) = r
  BY DEF recordFailure
<1> HIDE DEF r
<1>4. CASE recordFailure(b) = transitionTo(r, "Open")
  BY <1>1, <1>2, <1>4, TransitionTypes DEF Moves
<1>5. CASE recordFailure(b) = r
  BY <1>1, <1>2, <1>5 DEF Moves
<1> QED BY <1>3, <1>4, <1>5

\* No delay is negative, whatever the strategy and the jitter.
LEMMA DelayTypes ==
    ASSUME NEW k \in 1..maxAttempts
    PROVE  calculateDelay(k) \subseteq Nat
<1>1. initialDelay \in Nat /\ maxDelay \in Nat /\ k \in Nat
  BY RetryAssumption
<1>2. Least(initialDelay * k, maxDelay) \in Nat
  <2>1. initialDelay * k \in Nat
    BY <1>1
  <2> QED BY <1>1, <2>1, Smaller
<1>3. Exponential(k) \in Nat
  <2> DEFINE e == backoffMultiplier ^ (k - 1)
  <2>1. e \in Nat
    BY PowersAssumption
  <2> HIDE DEF e
  <2>2. initialDelay * e \in Nat
    BY <1>1, <2>1
  <2>3. Least(initialDelay * e, maxDelay) \in Nat
    BY <1>1, <2>2, Smaller
  <2> QED BY <2>3 DEF Exponential, e
<1>4. /\ Exponential(k) \div 4 \in Nat
      /\ Exponential(k) - Exponential(k) \div 4 .. Exponential(k) + Exponential(k) \div 4
            \subseteq Nat
  BY <1>3
<1>5. CASE strategy = "None"
  BY <1>5 DEF calculateDelay
<1>6. CASE strategy = "Fixed"
  BY <1>1, <1>6 DEF calculateDelay
<1>7. CASE strategy = "Linear"
  BY <1>2, <1>7 DEF calculateDelay
<1>8. CASE strategy = "Exponential"
  BY <1>3, <1>8 DEF calculateDelay
<1>9. CASE strategy = "ExponentialJitter"
  BY <1>4, <1>9 DEF calculateDelay
<1> QED BY <1>5, <1>6, <1>7, <1>8, <1>9, RetryAssumption

-----------------------------------------------------------------------------
(* The calls. *)

\* After a failed attempt a call sleeps with an attempt left, or is answered.
LEMMA FailedStep ==
    ASSUME TypeOK, Attempts, NEW c \in Calls, NEW k \in 1..maxAttempts, NEW error \in Errors,
           NEW b \in Circuits, Failed(c, k, error, b)
    PROVE  /\ circuit' = b
           /\ attempt' \in [Calls -> 0..maxAttempts] /\ left' \in [Calls -> Nat \cup {Awake}]
           /\ phase' \in [Calls -> {"idle", "waiting", "released", "running", "sleeping",
                                    "answered"}]
           /\ answer' \in [Calls -> [success : BOOLEAN, attempts : -1..maxAttempts,
                                     error : Errors \cup {"none"}]]
           /\ Attempts'
           /\ phase' = [phase EXCEPT ![c] = phase'[c]] /\ phase'[c] \in {"sleeping", "answered"}
<1>1. k \in Nat /\ k >= 1 /\ k <= maxAttempts /\ maxAttempts \in Nat \ {0}
  BY RetryAssumption
<1>2. /\ attempt' = [attempt EXCEPT ![c] = k]
      /\ attempt' \in [Calls -> 0..maxAttempts]
  BY <1>1 DEF Failed, TypeOK
<1>3. CASE shouldRetry(error, k)
  <2>1. /\ k < maxAttempts /\ phase' = [phase EXCEPT ![c] = "sleeping"] /\ answer' = answer
        /\ \E d \in calculateDelay(k) : left' = [left EXCEPT ![c] = d]
    BY <1>3 DEF Failed, shouldRetry
  <2>2. left' \in [Calls -> Nat \cup {Awake}]
    BY <2>1, DelayTypes DEF TypeOK
  <2>3. Attempts'
    BY <1>1, <1>2, <2>1 DEF Attempts, TypeOK
  <2> QED BY <1>2, <2>1, <2>2, <2>3 DEF Failed, TypeOK
<1>4. CASE ~shouldRetry(error, k)
  <2> DEFINE result == [success |-> FALSE, attempts |-> maxAttempts, error |-> error]
  <2>1. /\ phase' = [phase EXCEPT ![c] = "answered"]
        /\ answer' = [answer EXCEPT ![c] = result] /\ left' = [left EXCEPT ![c] = 0]
    BY <1>4 DEF Failed, Settled
  <2>2. result \in [success : BOOLEAN, attempts : -1..maxAttempts, error : Errors \cup {"none"}]
    BY <1>1
  <2> HIDE DEF result
  <2>3. Attempts'
    BY <1>1, <1>2, <2>1 DEF Attempts, TypeOK
  <2> QED BY <1>2, <2>1, <2>2, <2>3 DEF Failed, TypeOK
<1> QED BY <1>3, <1>4

\* What a step of call c keeps: everything but the history.
Kept(c) ==
    /\ circuit' \in Circuits /\ Moves(circuit, circuit')
    /\ attempt' \in [Calls -> 0..maxAttempts] /\ left' \in [Calls -> Nat \cup {Awake}]
    /\ phase' \in [Calls -> {"idle", "waiting", "released", "running", "sleeping", "answered"}]
    /\ answer' \in [Calls -> [success : BOOLEAN, attempts : -1..maxAttempts,
                              error : Errors \cup {"none"}]]
    /\ fns' \in [Calls -> [1..maxAttempts -> {"none", "running", "ok", "transient", "fatal"}]]
    /\ Attempts'
    /\ \A d \in Calls : Starts(d) => circuit.state # "Open" \/ circuit.openAge >= resetTimeout

\* An attempt begins where the circuit lets it through, and fails where it does not.
LEMMA BeginStep ==
    ASSUME TypeOK, Attempts, NEW c \in Calls, NEW k \in 1..maxAttempts, Begin(c, k)
    PROVE  Kept(c)
<1> DEFINE b == updateState(circuit)
<1>1. circuit \in Circuits
  BY DEF TypeOK, Circuits
<1>2. /\ b \in Circuits /\ Moves(circuit, b)
      /\ MayAdmit(b) => circuit.state # "Open" \/ circuit.openAge >= resetTimeout
  BY <1>1, UpdateState
<1> HIDE DEF b
<1>3. k \in Nat /\ k >= 1 /\ k <= maxAttempts /\ maxAttempts \in Nat \ {0} /\ k \in 0..maxAttempts
  BY RetryAssumption
<1>4. CASE /\ MayAdmit(b) /\ circuit' = b
           /\ phase' = [phase EXCEPT ![c] = "running"]
           /\ attempt' = [attempt EXCEPT ![c] = k]
           /\ left' = [left EXCEPT ![c] = Armed(c, k)]
           /\ fns' = [fns EXCEPT ![c][k] = "running"]
           /\ UNCHANGED answer
  <2>1. Armed(c, k) \in Nat \cup {Awake}
    BY RetryAssumption DEF Armed
  <2>2. fns' \in [Calls -> [1..maxAttempts -> {"none", "running", "ok", "transient", "fatal"}]]
    BY <1>4 DEF TypeOK
  <2>3. Attempts'
    BY <1>3, <1>4 DEF Attempts, TypeOK
  <2>4. /\ attempt' \in [Calls -> 0..maxAttempts] /\ left' \in [Calls -> Nat \cup {Awake}]
        /\ phase' \in [Calls -> {"idle", "waiting", "released", "running", "sleeping",
                                 "answered"}]
        /\ answer' = answer
    BY <1>3, <1>4, <2>1 DEF TypeOK
  <2> QED BY <1>2, <1>4, <2>2, <2>3, <2>4 DEF Kept, TypeOK
<1>5. CASE MayRefuse(b) /\ Failed(c, k, "open", b) /\ UNCHANGED fns
  <2>1. \A d \in Calls : ~Starts(d)
    BY <1>5 DEF Starts
  <2>2. /\ circuit' = b
        /\ attempt' \in [Calls -> 0..maxAttempts] /\ left' \in [Calls -> Nat \cup {Awake}]
        /\ phase' \in [Calls -> {"idle", "waiting", "released", "running", "sleeping",
                                 "answered"}]
        /\ answer' \in [Calls -> [success : BOOLEAN, attempts : -1..maxAttempts,
                                  error : Errors \cup {"none"}]]
        /\ Attempts'
        /\ phase' = [phase EXCEPT ![c] = phase'[c]] /\ phase'[c] \in {"sleeping", "answered"}
    BY <1>2, <1>5, FailedStep, "open" \in Errors DEF Errors
  <2> QED BY <1>2, <1>5, <2>1, <2>2 DEF Kept, TypeOK
<1> QED BY <1>4, <1>5 DEF Begin, b

\* Whatever a step of one call does, the circuit opens and reopens in order.
LEMMA CallStep ==
    ASSUME TypeOK, Attempts, NEW c \in Calls, Step(c)
    PROVE  /\ Kept(c)
           /\ \/ UNCHANGED limiterVars
              \/ queue' = Append(queue, c) /\ UNCHANGED <<sinceSubmit, limiterLeft>>
           /\ sinceOpen' = IF circuit.state # "Open" /\ circuit'.state = "Open"
                           THEN 0 ELSE sinceOpen
<1>0. circuit \in Circuits /\ circuit.openAge \in Int
  BY DEF TypeOK, Circuits
<1>1. maxAttempts \in Nat \ {0} /\ 1 \in 1..maxAttempts
  BY RetryAssumption
<1>2. CASE Wait(c)
  <2>1. Attempts'
    BY <1>2 DEF Wait, Attempts, TypeOK
  <2>2. /\ phase' = [phase EXCEPT ![c] = "waiting"] /\ queue' = Append(queue, c)
        /\ UNCHANGED <<circuit, attempt, left, fns, answer, sinceSubmit, limiterLeft>>
    BY <1>2 DEF Wait
  <2>3. sinceOpen' = sinceOpen
    BY <2>2 DEF Step
  <2>4. Moves(circuit, circuit')
    BY <1>0, <2>2 DEF Moves
  <2>5. \A d \in Calls : ~Starts(d)
    BY <2>2 DEF Starts, TypeOK
  <2>6. Kept(c)
    BY <1>0, <2>1, <2>2, <2>4, <2>5 DEF Kept, TypeOK
  <2> QED BY <2>2, <2>3, <2>6
<1>3. CASE Execute(c)
  <2> DEFINE b == updateState(circuit)
             refused == [success |-> FALSE, attempts |-> 0, error |-> "open"]
  <2>1. CASE /\ circuit' = b
             /\ Settled(c, refused)
             /\ UNCHANGED <<attempt, left, fns>>
    <3>1. refused \in [success : BOOLEAN, attempts : -1..maxAttempts, error : Errors \cup {"none"}]
      BY <1>1 DEF Errors
    <3> HIDE DEF refused
    <3>2. b \in Circuits /\ Moves(circuit, b)
      BY <1>0, UpdateState
    <3> HIDE DEF b
    <3>3. Attempts'
      BY <2>1 DEF Settled, Attempts, TypeOK
    <3> QED BY <2>1, <3>1, <3>2, <3>3, <1>3 DEF Settled, Kept, Starts, TypeOK, Execute, Step
  <2>2. CASE Begin(c, 1)
    BY <1>1, <1>3, <2>2, BeginStep DEF Execute, Step
  <2> QED BY <1>3, <2>1, <2>2 DEF Execute
<1>4. CASE Wake(c)
  <2>1. attempt[c] + 1 \in 1..maxAttempts
    BY <1>1, <1>4 DEF Wake, Attempts, TypeOK
  <2> QED BY <1>4, <2>1, BeginStep DEF Wake, Step
<1>5. CASE Timeout(c)
  <2>1. attempt[c] \in 1..maxAttempts
    BY <1>1, <1>5 DEF Timeout, Attempts, TypeOK
  <2>2. recordFailure(circuit) \in Circuits /\ Moves(circuit, recordFailure(circuit))
    BY <1>0, RecordFailure
  <2>3. \A d \in Calls : ~Starts(d)
    BY <1>5 DEF Timeout, Starts
  <2>4. /\ circuit' = recordFailure(circuit)
        /\ attempt' \in [Calls -> 0..maxAttempts] /\ left' \in [Calls -> Nat \cup {Awake}]
        /\ phase' \in [Calls -> {"idle", "waiting", "released", "running", "sleeping",
                                 "answered"}]
        /\ answer' \in [Calls -> [success : BOOLEAN, attempts : -1..maxAttempts,
                                  error : Errors \cup {"none"}]]
        /\ Attempts'
        /\ phase' = [phase EXCEPT ![c] = phase'[c]] /\ phase'[c] \in {"sleeping", "answered"}
    BY <1>5, <2>1, <2>2, FailedStep, "timeout" \in Errors DEF Timeout, Errors
  <2> QED BY <1>5, <2>2, <2>3, <2>4 DEF Kept, TypeOK, Timeout, Step
<1>6. ASSUME NEW k \in 1..maxAttempts, NEW outcome \in {"ok", "transient", "fatal"},
             Answer(c, k, outcome)
      PROVE  Kept(c) /\ UNCHANGED limiterVars
  <2>1. /\ fns' \in [Calls -> [1..maxAttempts -> {"none", "running", "ok", "transient", "fatal"}]]
        /\ \A d \in Calls : ~Starts(d)
    BY <1>6 DEF Answer, Starts, TypeOK
  <2>2. UNCHANGED limiterVars
    BY <1>6 DEF Answer
  <2>3. CASE ~(phase[c] = "running" /\ attempt[c] = k)
    <3>1. UNCHANGED <<circuit, phase, attempt, left, answer>>
      BY <1>6, <2>3 DEF Answer, Heard
    <3> QED BY <1>0, <2>1, <2>2, <3>1 DEF Kept, Moves, Attempts, TypeOK
  <2>4. CASE phase[c] = "running" /\ attempt[c] = k /\ outcome = "ok"
    <3> DEFINE result == [success |-> TRUE, attempts |-> k, error |-> "none"]
    <3>1. /\ circuit' = recordSuccess(circuit)
          /\ phase' = [phase EXCEPT ![c] = "answered"]
          /\ answer' = [answer EXCEPT ![c] = result]
          /\ left' = [left EXCEPT ![c] = 0] /\ attempt' = attempt
      BY <1>6, <2>4 DEF Answer, Heard, Settled
    <3>2. circuit' \in Circuits /\ Moves(circuit, circuit')
      BY <1>0, <3>1, RecordSuccess
    <3>3. result \in [success : BOOLEAN, attempts : -1..maxAttempts, error : Errors \cup {"none"}]
      BY <1>1
    <3> HIDE DEF result
    <3>4. Attempts'
      BY <3>1 DEF Attempts, TypeOK
    <3> QED BY <2>1, <2>2, <3>1, <3>2, <3>3, <3>4 DEF Kept, TypeOK
  <2>5. CASE phase[c] = "running" /\ attempt[c] = k /\ outcome # "ok"
    <3>1. Failed(c, k, outcome, recordFailure(circuit)) /\ outcome \in Errors
      BY <1>6, <2>5 DEF Answer, Heard, Errors
    <3>2. recordFailure(circuit) \in Circuits /\ Moves(circuit, recordFailure(circuit))
      BY <1>0, RecordFailure
    <3>3. /\ circuit' = recordFailure(circuit)
          /\ attempt' \in [Calls -> 0..maxAttempts] /\ left' \in [Calls -> Nat \cup {Awake}]
          /\ phase' \in [Calls -> {"idle", "waiting", "released", "running", "sleeping",
                                   "answered"}]
          /\ answer' \in [Calls -> [success : BOOLEAN, attempts : -1..maxAttempts,
                                    error : Errors \cup {"none"}]]
          /\ Attempts'
          /\ phase' = [phase EXCEPT ![c] = phase'[c]] /\ phase'[c] \in {"sleeping", "answered"}
      BY <3>1, <3>2, FailedStep
    <3> QED BY <2>1, <2>2, <3>2, <3>3 DEF Kept
  <2> QED BY <2>3, <2>4, <2>5
<1> QED BY <1>2, <1>3, <1>4, <1>5, <1>6 DEF Step

\* No step of a call breaks the invariant.
LEMMA CallKeeps ==
    ASSUME IInv, NEW c \in Calls, Step(c)
    PROVE  IInv'
<1>1. /\ Kept(c)
      /\ \/ UNCHANGED limiterVars
         \/ queue' = Append(queue, c) /\ UNCHANGED <<sinceSubmit, limiterLeft>>
      /\ sinceOpen' = IF circuit.state # "Open" /\ circuit'.state = "Open" THEN 0 ELSE sinceOpen
  BY CallStep DEF IInv
<1>2. queue' \in Seq(Calls) /\ sinceSubmit' = sinceSubmit /\ limiterLeft' = limiterLeft
  <2>1. queue \in Seq(Calls)
    BY DEF IInv, TypeOK
  <2>2. Append(queue, c) \in Seq(Calls)
    BY <2>1
  <2> QED BY <1>1, <2>1, <2>2 DEF limiterVars
<1>3. sinceOpen' \in 0..resetTimeout
  BY <1>1, RetryAssumption DEF IInv, TypeOK
<1>4. Waited'
  <2>1. /\ circuit.openAge \in 0..resetTimeout /\ circuit'.openAge \in 0..resetTimeout
        /\ sinceOpen \in 0..resetTimeout /\ resetTimeout \in Nat
    BY <1>1, RetryAssumption DEF IInv, TypeOK, Kept, Circuits
  <2>2. Moves(circuit, circuit') /\ Waited
    BY <1>1 DEF Kept, IInv
  <2> QED BY <1>1, <2>1, <2>2 DEF Waited, Moves
<1> QED BY <1>1, <1>2, <1>3, <1>4 DEF IInv, TypeOK, Kept, Circuits

\* The limiter, the program's own hand on the circuit, and time keep it too.
LEMMA OtherKeeps ==
    ASSUME IInv, \/ TakeTurn /\ UNCHANGED sinceOpen
                 \/ Operate \/ Tick
    PROVE  IInv' /\ \A c \in Calls : ~Starts(c)
<1>0. circuit \in Circuits /\ sinceOpen \in 0..resetTimeout
  BY DEF IInv, TypeOK, Circuits
<1>1. CASE TakeTurn /\ UNCHANGED sinceOpen
  <2>1. /\ limiterLeft \in -1..minDelay /\ minDelay \in Nat /\ sinceSubmit \in 0..minDelay
        /\ queue \in Seq(Calls) /\ queue # <<>>
    BY <1>1, RetryAssumption DEF IInv, TypeOK, TakeTurn
  <2>2. UNCHANGED <<circuit, attempt, left, fns, answer, sinceOpen>>
    BY <1>1 DEF TakeTurn
  <2>3. sinceSubmit' \in 0..minDelay /\ limiterLeft' \in -1..minDelay
    BY <1>1, <2>1 DEF TakeTurn, Awake
  <2>4. /\ queue' \in Seq(Calls)
        /\ phase' = phase \/ phase' = [phase EXCEPT ![Head(queue)] = "released"]
    <3>1. Tail(queue) \in Seq(Calls)
      BY <2>1
    <3>2. \/ queue' = Tail(queue) /\ phase' = [phase EXCEPT ![Head(queue)] = "released"]
          \/ queue' = queue /\ phase' = phase
      BY <1>1 DEF TakeTurn
    <3> QED BY <2>1, <3>1, <3>2
  <2>5. Head(queue) \in Calls
    BY <2>1
  <2>6. Attempts'
    BY <2>2, <2>4, <2>5 DEF IInv, Attempts, TypeOK
  <2>7. Waited'
    BY <2>2 DEF IInv, Waited
  <2> QED BY <2>2, <2>3, <2>4, <2>5, <2>6, <2>7 DEF IInv, TypeOK, Starts
<1>2. CASE Operate
  <2>1. UNCHANGED <<callVars, limiterVars>>
    BY <1>2 DEF Operate
  <2>2. circuit' \in Circuits /\ sinceOpen' \in 0..resetTimeout /\ Waited'
    <3>0. resetTimeout \in Nat /\ circuit.openAge \in 0..resetTimeout
      BY <1>0, RetryAssumption DEF Circuits
    <3>1. CASE circuit' = transitionTo(circuit, "Open") /\ sinceOpen' = 0
      BY <1>0, <3>0, <3>1, TransitionTypes DEF Waited
    <3>2. CASE circuit' = transitionTo(circuit, "Closed") /\ sinceOpen' = resetTimeout
      BY <1>0, <3>0, <3>2, TransitionTypes DEF Waited
    <3>3. CASE circuit' = updateState(circuit) /\ UNCHANGED sinceOpen
      <4>1. circuit' \in Circuits /\ Moves(circuit, circuit')
        BY <1>0, <3>3, UpdateState
      <4>2. circuit'.openAge \in 0..resetTimeout
        BY <4>1 DEF Circuits
      <4>3. Waited
        BY DEF IInv
      <4> QED BY <1>0, <3>0, <3>3, <4>1, <4>2, <4>3 DEF Waited, Moves
    <3> QED BY <1>2, <3>1, <3>2, <3>3 DEF Operate
  <2>3. TypeOK'
    BY <2>1, <2>2 DEF IInv, TypeOK, Circuits, callVars, limiterVars
  <2> QED BY <2>1, <2>2, <2>3 DEF IInv, Attempts, Starts, callVars
<1>3. CASE Tick
  <2>1. UNCHANGED <<phase, attempt, fns, answer, queue>>
    BY <1>3 DEF Tick
  <2>2. circuit' \in Circuits
        /\ circuit'.state = circuit.state /\ circuit'.openAge = Least(circuit.openAge + 1, resetTimeout)
    <3> DEFINE f == [a \in DOMAIN circuit.failures |->
                        IF a = 0 THEN 0 ELSE circuit.failures[a - 1]]
               o == Least(circuit.openAge + 1, resetTimeout)
    <3>1. circuit' = [circuit EXCEPT !.openAge = o, !.failures = f]
      BY <1>3 DEF Tick
    <3>2. f \in [0..failureWindow - 1 -> Nat]
      <4>1. circuit.failures \in [0..failureWindow - 1 -> Nat] /\ failureWindow \in Nat
        BY <1>0, RetryAssumption DEF Circuits
      <4>2. \A a \in 0..failureWindow - 1 : a # 0 => a - 1 \in 0..failureWindow - 1
        BY <4>1
      <4> QED BY <4>1, <4>2
    <3>3. o \in 0..resetTimeout
      <4>1. circuit.openAge + 1 \in Nat /\ resetTimeout \in Nat
        BY <1>0, RetryAssumption DEF Circuits
      <4> QED BY <4>1 DEF Least
    <3> HIDE DEF f, o
    <3>4. circuit' \in Circuits /\ circuit'.state = circuit.state /\ circuit'.openAge = o
      BY <1>0, <3>1, <3>2, <3>3 DEF Circuits
    <3> QED BY <3>4 DEF o
  <2>3. left' \in [Calls -> Nat \cup {Awake}]
    <3>1. \A n \in Nat \cup {Awake} : Younger(n) \in Nat \cup {Awake}
      BY DEF Younger, Greatest, Least, Awake
    <3> QED BY <1>3, <3>1 DEF Tick, IInv, TypeOK
  <2>4. sinceSubmit' \in 0..minDelay /\ limiterLeft' \in -1..minDelay
    <3>1. minDelay \in Nat /\ sinceSubmit \in 0..minDelay /\ limiterLeft \in -1..minDelay
      BY RetryAssumption DEF IInv, TypeOK
    <3>2. /\ sinceSubmit' = Least(sinceSubmit + 1, minDelay)
          /\ limiterLeft' = Younger(limiterLeft)
      BY <1>3 DEF Tick
    <3> QED BY <3>1, <3>2 DEF Least, Greatest, Younger
  <2>5. sinceOpen' \in 0..resetTimeout /\ Waited'
    <3>1. resetTimeout \in Nat /\ circuit.openAge \in 0..resetTimeout /\ Waited
      BY <1>0, RetryAssumption DEF Circuits, IInv
    <3>2. sinceOpen' = Least(sinceOpen + 1, resetTimeout)
      BY <1>3 DEF Tick
    <3> QED BY <1>0, <2>2, <3>1, <3>2 DEF Waited, Least
  <2>6. TypeOK'
    BY <2>1, <2>2, <2>3, <2>4, <2>5 DEF IInv, TypeOK, Circuits
  <2> QED BY <2>1, <2>5, <2>6 DEF IInv, Attempts, Starts
<1> QED BY <1>1, <1>2, <1>3

-----------------------------------------------------------------------------
(* What the calls are told. *)

\* A call that has not begun made no attempt, none is run out of turn, and what the
\* property says of it holds.
Fine(c) ==
    /\ phase[c] \in {"idle", "waiting", "released"} => attempt[c] = 0
    /\ \A j \in 1..maxAttempts : j > attempt[c] => fns[c][j] = "none"
    /\ phase[c] = "answered" => Told(c)
    /\ phase[c] = "running" => fns[c][attempt[c]] = "running"
    /\ c \notin Timed => \A j \in 1..maxAttempts :
           phase[c] = "sleeping" \/ j < attempt[c] => fns[c][j] \notin {"running", "ok"}

\* Nothing of the calls but c changes.
Alone(c) ==
    \A d \in Calls \ {c} : /\ phase'[d] = phase[d] /\ attempt'[d] = attempt[d]
                           /\ fns'[d] = fns[d] /\ answer'[d] = answer[d]

\* Where nothing of a call changes it stays fine.
LEMMA StaysFine ==
    ASSUME NEW c \in Calls, Fine(c), phase'[c] = phase[c], attempt'[c] = attempt[c],
           fns'[c] = fns[c], answer'[c] = answer[c]
    PROVE  Fine(c)'
BY DEF Fine, Told

\* A call whose attempt failed so is told so, or sleeps with nothing under way.
LEMMA FailedTells ==
    ASSUME TypeOK, NEW c \in Calls, NEW k \in 1..maxAttempts, NEW error \in Errors,
           NEW b, Failed(c, k, error, b),
           \A j \in 1..maxAttempts : j > k => fns'[c][j] = "none",
           c \notin Timed =>
               \A j \in 1..maxAttempts : j <= k => fns'[c][j] \notin {"running", "ok"},
           error = "open" => fns'[c][k] = "none",
           error = "timeout" => c \in Timed /\ fns'[c][k] # "none",
           error \in {"transient", "fatal"} => fns'[c][k] = error
    PROVE  /\ Fine(c)'
           /\ \A d \in Calls \ {c} : /\ phase'[d] = phase[d] /\ attempt'[d] = attempt[d]
                                     /\ answer'[d] = answer[d]
<1>1. /\ attempt'[c] = k /\ k \in Nat /\ k >= 1
      /\ \A d \in Calls \ {c} : attempt'[d] = attempt[d]
  BY DEF Failed, TypeOK
<1>2. \A d \in Calls \ {c} : phase'[d] = phase[d] /\ answer'[d] = answer[d]
  BY DEF Failed, Settled, TypeOK
<1>3. \A j \in 1..maxAttempts : (j > k \/ j <= k) /\ (j < k => j <= k)
  BY <1>1, RetryAssumption
<1>4. CASE phase'[c] = "sleeping"
  BY <1>1, <1>2, <1>3, <1>4 DEF Fine
<1>5. CASE phase'[c] = "answered" /\ answer'[c] = [success |-> FALSE, attempts |-> maxAttempts,
                                                  error |-> error]
  <2>1. Told(c)'
    BY <1>1, <1>5 DEF Told, Errors
  <2> QED BY <1>1, <1>2, <1>3, <1>5, <2>1 DEF Fine
<1> QED BY <1>4, <1>5 DEF Failed, Settled, TypeOK

\* A call that begins its next attempt has no other under way, unless it has a timeout.
LEMMA BeginTells ==
    ASSUME TypeOK, NEW c \in Calls, NEW k \in 1..maxAttempts, Begin(c, k), Fine(c),
           k = attempt[c] + 1, phase[c] \in {"released", "sleeping"}
    PROVE  Fine(c)' /\ Alone(c)
<1>1. k \in Nat /\ attempt[c] \in Nat /\ fns \in [Calls -> [1..maxAttempts ->
                        {"none", "running", "ok", "transient", "fatal"}]]
  BY DEF TypeOK
<1>2. /\ \A j \in 1..maxAttempts : j >= k => fns[c][j] = "none"
      /\ c \notin Timed => \A j \in 1..maxAttempts : fns[c][j] \notin {"running", "ok"}
  BY <1>1 DEF Fine
<1>3. CASE /\ phase' = [phase EXCEPT ![c] = "running"]
           /\ attempt' = [attempt EXCEPT ![c] = k]
           /\ fns' = [fns EXCEPT ![c][k] = "running"]
           /\ UNCHANGED answer
  <2>1. /\ phase'[c] = "running" /\ attempt'[c] = k /\ fns'[c][k] = "running"
        /\ \A j \in 1..maxAttempts : j # k => fns'[c][j] = fns[c][j]
    BY <1>1, <1>3 DEF TypeOK
  <2>2. Alone(c)
    BY <1>1, <1>3 DEF Alone, TypeOK
  <2>3. \A j \in 1..maxAttempts : (j > k => j >= k /\ j # k) /\ (j < k => j # k)
    BY <1>1
  <2> QED BY <1>2, <2>1, <2>2, <2>3 DEF Fine
<1>4. ASSUME NEW b, Failed(c, k, "open", b), UNCHANGED fns
      PROVE  Fine(c)' /\ Alone(c)
  <2>1. PICK error \in Errors : error = "open"
    BY DEF Errors
  <2>2. Failed(c, k, error, b)
    BY <1>4, <2>1
  <2>3. /\ \A j \in 1..maxAttempts : j > k => fns'[c][j] = "none"
        /\ c \notin Timed =>
               \A j \in 1..maxAttempts : j <= k => fns'[c][j] \notin {"running", "ok"}
        /\ fns'[c][k] = "none"
    BY <1>1, <1>2, <1>4
  <2>4. /\ Fine(c)'
        /\ \A d \in Calls \ {c} : /\ phase'[d] = phase[d] /\ attempt'[d] = attempt[d]
                                  /\ answer'[d] = answer[d]
    BY <2>1, <2>2, <2>3, FailedTells
  <2> QED BY <1>4, <2>4 DEF Alone
<1> QED BY <1>3, <1>4 DEF Begin

\* Whoever is in the limiter's queue waits, and is in it once.
Orderly ==
    /\ \A i \in 1..Len(queue) : phase[queue[i]] = "waiting"
    /\ \A i, j \in 1..Len(queue) : queue[i] = queue[j] => i = j

\* Whoever leaves the queue had waited, and the others go on waiting.
LEMMA TurnKeeps ==
    ASSUME TypeOK, Orderly, TakeTurn
    PROVE  /\ Orderly'
           /\ \A c \in Calls : \/ phase'[c] = phase[c]
                               \/ (phase'[c] = "released" /\ phase[c] = "waiting")
<1>1. /\ queue \in Seq(Calls) /\ Len(queue) \in Nat \ {0}
      /\ Head(queue) = queue[1] /\ 1 \in 1..Len(queue)
      /\ phase \in [Calls -> {"idle", "waiting", "released", "running", "sleeping",
                            "answered"}]
  <2>1. queue \in Seq(Calls) /\ queue # <<>>
    BY DEF TypeOK, TakeTurn
  <2>2. Len(queue) \in Nat \ {0} /\ Head(queue) = queue[1]
    BY <2>1
  <2> QED BY <2>1, <2>2 DEF TypeOK
<1>2. CASE UNCHANGED <<queue, phase>>
  <2>1. Orderly'
    BY <1>2 DEF Orderly
  <2>2. phase' = phase
    BY <1>2
  <2> QED BY <2>1, <2>2
<1>3. CASE queue' = Tail(queue) /\ phase' = [phase EXCEPT ![Head(queue)] = "released"]
  <2>1. \A c \in Calls : phase'[c] = IF c = queue[1] THEN "released" ELSE phase[c]
    BY <1>1, <1>3
  <2>2. /\ Len(queue') = Len(queue) - 1
        /\ \A i \in 1..Len(queue') : /\ i + 1 \in 1..Len(queue) /\ queue'[i] = queue[i + 1]
                                     /\ queue[i + 1] \in Calls
    BY <1>1, <1>3
  <2>3. \A i \in 1..Len(queue') : phase'[queue'[i]] = "waiting"
    <3> SUFFICES ASSUME NEW i \in 1..Len(queue') PROVE phase'[queue'[i]] = "waiting"
      OBVIOUS
    <3>1. i \in Nat /\ i >= 1 /\ i + 1 # 1
      BY <1>1, <2>2
    <3>2. queue[i + 1] # queue[1] /\ phase[queue[i + 1]] = "waiting"
      BY <1>1, <2>2, <3>1 DEF Orderly
    <3> QED BY <2>1, <2>2, <3>2
  <2>4. \A i, j \in 1..Len(queue') : queue'[i] = queue'[j] => i = j
    <3> SUFFICES ASSUME NEW i \in 1..Len(queue'), NEW j \in 1..Len(queue'),
                        queue'[i] = queue'[j]
                 PROVE  i = j
      OBVIOUS
    <3>1. i + 1 = j + 1
      BY <2>2 DEF Orderly
    <3>2. i \in Nat /\ j \in Nat
      BY <1>1, <2>2
    <3> QED BY <3>1, <3>2
  <2>5. phase[queue[1]] = "waiting"
    BY <1>1 DEF Orderly
  <2>6. Orderly'
    BY <2>3, <2>4 DEF Orderly
  <2>7. \A c \in Calls : \/ phase'[c] = phase[c]
                         \/ (phase'[c] = "released" /\ phase[c] = "waiting")
    BY <2>1, <2>5
  <2> QED BY <2>6, <2>7
<1>4. \/ UNCHANGED <<queue, phase>>
      \/ queue' = Tail(queue) /\ phase' = [phase EXCEPT ![Head(queue)] = "released"]
  BY DEF TakeTurn
<1> QED BY <1>2, <1>3, <1>4

\* A call joins the queue when it begins to wait, and nothing else moves whoever waits.
LEMMA StepOrderly ==
    ASSUME TypeOK, Orderly, NEW c \in Calls, Step(c), Alone(c)
    PROVE  Orderly'
<1>1. /\ queue \in Seq(Calls) /\ Len(queue) \in Nat
      /\ \A i \in 1..Len(queue) : queue[i] \in Calls
  BY DEF TypeOK
<1>2. CASE Wait(c)
  <2>1. /\ phase[c] = "idle" /\ phase'[c] = "waiting" /\ queue' = Append(queue, c)
        /\ \A d \in Calls \ {c} : phase'[d] = phase[d]
    BY <1>2 DEF Wait, TypeOK
  <2>2. /\ Len(queue') = Len(queue) + 1
        /\ \A i \in 1..Len(queue') : \/ i = Len(queue) + 1 /\ queue'[i] = c
                                     \/ i \in 1..Len(queue) /\ queue'[i] = queue[i]
    BY <1>1, <2>1
  <2>3. \A i \in 1..Len(queue) : queue[i] # c
    BY <2>1 DEF Orderly
  <2>4. \A i \in 1..Len(queue') : phase'[queue'[i]] = "waiting"
    BY <1>1, <2>1, <2>2, <2>3 DEF Orderly
  <2>5. \A i, j \in 1..Len(queue') : queue'[i] = queue'[j] => i = j
    BY <2>2, <2>3 DEF Orderly
  <2> QED BY <2>4, <2>5 DEF Orderly
<1>3. CASE phase[c] # "waiting" /\ UNCHANGED queue
  <2>1. \A i \in 1..Len(queue) : phase'[queue[i]] = phase[queue[i]]
    BY <1>1, <1>3 DEF Orderly, Alone
  <2> QED BY <1>3, <2>1 DEF Orderly
<1>4. CASE Execute(c) \/ Wake(c) \/ Timeout(c)
  <2>1. phase[c] # "waiting" /\ UNCHANGED queue
    BY <1>4 DEF Execute, Wake, Timeout, limiterVars
  <2> QED BY <1>3, <2>1
<1>5. ASSUME NEW k \in 1..maxAttempts, NEW outcome \in {"ok", "transient", "fatal"},
             Answer(c, k, outcome)
      PROVE  Orderly'
  <2>1. CASE ~Heard(c, k)
    BY <1>5, <2>1 DEF Answer, Orderly, limiterVars
  <2>2. CASE Heard(c, k)
    <3>1. phase[c] # "waiting" /\ UNCHANGED queue
      BY <1>5, <2>2 DEF Answer, Heard, limiterVars
    <3> QED BY <1>3, <3>1
  <2> QED BY <2>1, <2>2
<1> QED BY <1>2, <1>4, <1>5 DEF Step

\* Whatever a step of a call does, it is told what its last attempt came to.
LEMMA StepTells ==
    ASSUME TypeOK, Attempts, NEW c \in Calls, Step(c), Fine(c)
    PROVE  Fine(c)' /\ Alone(c)
<1>1. /\ maxAttempts \in Nat \ {0} /\ 1 \in 1..maxAttempts /\ attempt[c] \in Nat
      /\ fns \in [Calls -> [1..maxAttempts -> {"none", "running", "ok", "transient", "fatal"}]]
  BY RetryAssumption DEF TypeOK
<1>2. CASE Wait(c)
  <2>1. /\ phase[c] = "idle" /\ phase'[c] = "waiting"
        /\ UNCHANGED <<attempt, fns, answer>>
        /\ \A d \in Calls \ {c} : phase'[d] = phase[d]
    BY <1>2 DEF Wait, TypeOK
  <2> QED BY <2>1 DEF Fine, Alone
<1>3. CASE Execute(c)
  <2>1. phase[c] = "released" /\ attempt[c] = 0
    BY <1>3 DEF Execute, Fine
  <2>2. CASE /\ Settled(c, [success |-> FALSE, attempts |-> 0, error |-> "open"])
             /\ UNCHANGED <<attempt, left, fns>>
    <3>1. /\ phase'[c] = "answered" /\ ~answer'[c].success /\ answer'[c].error = "open"
          /\ UNCHANGED <<attempt, fns>>
          /\ \A d \in Calls \ {c} : phase'[d] = phase[d] /\ answer'[d] = answer[d]
      BY <2>2 DEF Settled, TypeOK
    <3>2. Told(c)'
      BY <2>1, <3>1 DEF Told
    <3> QED BY <1>1, <2>1, <3>1, <3>2 DEF Fine, Alone
  <2>3. CASE Begin(c, 1)
    <3>1. PICK k \in 1..maxAttempts : k = 1
      BY <1>1
    <3>2. Begin(c, k) /\ k = attempt[c] + 1
      BY <2>1, <2>3, <3>1
    <3> QED BY <2>1, <3>2, BeginTells
  <2> QED BY <1>3, <2>2, <2>3 DEF Execute
<1>4. CASE Wake(c)
  <2>1. attempt[c] + 1 \in 1..maxAttempts
    BY <1>1, <1>4 DEF Wake, Attempts, TypeOK
  <2> QED BY <1>4, <2>1, BeginTells DEF Wake
<1>5. CASE Timeout(c)
  <2>1. /\ phase[c] = "running" /\ c \in Timed /\ attempt[c] \in 1..maxAttempts
        /\ Failed(c, attempt[c], "timeout", recordFailure(circuit)) /\ UNCHANGED fns
    BY <1>1, <1>5 DEF Timeout, Attempts, TypeOK
  <2>2. PICK error \in Errors : error = "timeout"
    BY DEF Errors
  <2>3. /\ Fine(c)'
        /\ \A d \in Calls \ {c} : /\ phase'[d] = phase[d] /\ attempt'[d] = attempt[d]
                                  /\ answer'[d] = answer[d]
    BY <2>1, <2>2, FailedTells DEF Fine
  <2> QED BY <2>1, <2>3 DEF Alone
<1>6. ASSUME NEW k \in 1..maxAttempts, NEW outcome \in {"ok", "transient", "fatal"},
             Answer(c, k, outcome)
      PROVE  Fine(c)' /\ Alone(c)
  <2>1. /\ fns[c][k] = "running" /\ fns'[c][k] = outcome
        /\ \A j \in 1..maxAttempts : j # k => fns'[c][j] = fns[c][j]
        /\ \A d \in Calls \ {c} : fns'[d] = fns[d]
    BY <1>1, <1>6 DEF Answer
  <2>2. k <= attempt[c] /\ k \in Nat /\ k # 0
    BY <1>1, <2>1 DEF Fine
  <2>3. CASE ~Heard(c, k)
    <3>1. UNCHANGED <<phase, attempt, answer>>
      BY <1>6, <2>3 DEF Answer
    <3>2. phase[c] = "running" => k # attempt[c]
      BY <2>3 DEF Heard
    <3>3. ASSUME c \notin Timed PROVE FALSE
      <4>1. phase[c] # "sleeping" /\ k = attempt[c]
        BY <1>1, <2>1, <2>2, <3>3 DEF Fine
      <4>2. phase[c] = "answered" => fns[c][k] # "running"
        BY <2>2, <3>3, <4>1 DEF Fine, Told, TypeOK, Errors
      <4>3. phase[c] \notin {"idle", "waiting", "released"}
        BY <2>2, <4>1 DEF Fine
      <4> QED BY <2>1, <3>2, <4>1, <4>2, <4>3 DEF TypeOK
    <3>4. phase[c] = "answered" => Told(c)'
      <4>1. SUFFICES ASSUME phase[c] = "answered" PROVE Told(c)'
        OBVIOUS
      <4>2. Told(c)
        BY <4>1 DEF Fine
      <4>3. CASE k = attempt[c]
        <5>1. ~answer[c].success /\ answer[c].error = "timeout" /\ c \in Timed
          BY <2>1, <2>2, <3>3, <4>2, <4>3 DEF Told, TypeOK, Errors
        <5> QED BY <2>1, <3>1, <4>3, <5>1 DEF Told
      <4>4. CASE k # attempt[c]
        <5>1. attempt[c] \in 1..maxAttempts
          BY <1>1, <2>2 DEF TypeOK
        <5> QED BY <2>1, <3>1, <4>2, <4>4, <5>1 DEF Told
      <4> QED BY <4>3, <4>4
    <3>5. phase[c] = "running" => fns'[c][attempt[c]] = "running"
      <4>1. attempt[c] \in 1..maxAttempts
        BY <1>1, <2>2 DEF TypeOK
      <4> QED BY <2>1, <3>2, <4>1 DEF Fine
    <3> QED BY <1>1, <2>1, <2>2, <3>1, <3>3, <3>4, <3>5 DEF Fine, Alone
  <2>4. CASE Heard(c, k) /\ outcome = "ok"
    <3>1. /\ phase'[c] = "answered" /\ answer'[c].success /\ answer'[c].attempts = k
          /\ attempt' = attempt /\ attempt[c] = k /\ phase[c] = "running"
          /\ \A d \in Calls \ {c} : phase'[d] = phase[d] /\ answer'[d] = answer[d]
      BY <1>6, <2>4 DEF Answer, Heard, Settled, TypeOK
    <3>2. Told(c)'
      BY <2>1, <2>4, <3>1 DEF Told
    <3> QED BY <1>1, <2>1, <2>2, <3>1, <3>2 DEF Fine, Alone
  <2>5. CASE Heard(c, k) /\ outcome # "ok"
    <3>1. /\ Failed(c, k, outcome, recordFailure(circuit)) /\ outcome \in Errors
          /\ attempt[c] = k /\ phase[c] = "running"
      BY <1>6, <2>5 DEF Answer, Heard, Errors
    <3>2. /\ \A j \in 1..maxAttempts : j > k => fns'[c][j] = "none"
          /\ c \notin Timed =>
               \A j \in 1..maxAttempts : j <= k => fns'[c][j] \notin {"running", "ok"}
      BY <2>1, <2>2, <2>5, <3>1 DEF Fine
    <3>3. outcome # "open" /\ outcome # "timeout"
      OBVIOUS
    <3>4. /\ Fine(c)'
          /\ \A d \in Calls \ {c} : /\ phase'[d] = phase[d] /\ attempt'[d] = attempt[d]
                                    /\ answer'[d] = answer[d]
      BY <2>1, <3>1, <3>2, <3>3, FailedTells
    <3> QED BY <2>1, <3>4 DEF Alone
  <2> QED BY <2>3, <2>4, <2>5
<1> QED BY <1>2, <1>3, <1>4, <1>5, <1>6 DEF Step

-----------------------------------------------------------------------------
(* The theorems. *)

\* The calls, the limiter and the circuit keep their types, no call makes more
\* attempts than it may, and the circuit's clock is never ahead of what happened.
THEOREM RetryInvariant == Spec => []IInv
<1>1. Init => IInv
  <2> SUFFICES ASSUME Init PROVE IInv
    OBVIOUS
  <2>0. /\ resetTimeout \in Nat /\ successThreshold \in Nat /\ failureWindow \in Nat \ {0}
        /\ minDelay \in Nat /\ maxAttempts \in Nat \ {0}
    BY RetryAssumption
  <2>1. circuit \in Circuits /\ circuit.state = "Closed"
    <3>1. [a \in 0..failureWindow - 1 |-> 0] \in [0..failureWindow - 1 -> Nat]
      OBVIOUS
    <3> QED BY <2>0, <3>1 DEF Init, Circuits
  <2>2. NoAnswer \in [success : BOOLEAN, attempts : -1..maxAttempts, error : Errors \cup {"none"}]
    BY <2>0 DEF NoAnswer
  <2>3. TypeOK
    BY <2>0, <2>1, <2>2 DEF Init, TypeOK, Awake, Circuits
  <2> QED BY <2>1, <2>3 DEF Init, IInv, Attempts, Waited
<1>2. IInv /\ [Next]_vars => IInv'
  <2> SUFFICES ASSUME IInv, [Next]_vars PROVE IInv'
    OBVIOUS
  <2>1. CASE \E c \in Calls : Step(c)
    BY <2>1, CallKeeps
  <2>2. CASE (TakeTurn /\ UNCHANGED sinceOpen) \/ Operate \/ Tick
    BY <2>2, OtherKeeps
  <2>3. CASE UNCHANGED vars
    BY <2>3 DEF vars, callVars, limiterVars, IInv, TypeOK, Attempts, Waited
  <2> QED BY <2>1, <2>2, <2>3 DEF Next
<1> QED BY <1>1, <1>2, PTL DEF Spec

\* From its opening until the reset timeout has passed, the circuit lets nothing run:
\* no call, no retry, no probe, whatever the strategy and the thresholds.
THEOREM OpenIsQuiet == Spec => QuietWhileOpen
<1> DEFINE Late == \A c \in Calls : Starts(c) => sinceOpen >= resetTimeout
<1>1. IInv => TypeOK
  BY DEF IInv
<1>2. IInv /\ [Next]_vars => [Late]_vars
  <2> SUFFICES ASSUME IInv, Next PROVE Late
    BY DEF vars
  <2>1. CASE (TakeTurn /\ UNCHANGED sinceOpen) \/ Operate \/ Tick
    BY <2>1, OtherKeeps
  <2>2. ASSUME NEW c \in Calls, Step(c) PROVE Late
    <3>1. Kept(c)
      BY <2>2, CallStep DEF IInv
    <3>2. /\ circuit.openAge \in 0..resetTimeout /\ sinceOpen \in 0..resetTimeout
          /\ resetTimeout \in Nat /\ Waited
      BY RetryAssumption DEF IInv, TypeOK
    <3> QED BY <3>1, <3>2 DEF Kept, Waited
  <2> QED BY <2>1, <2>2 DEF Next
<1> QED BY <1>1, <1>2, RetryInvariant, PTL DEF Spec, QuietWhileOpen

\* A call is told what its own last attempt came to, however late the others answer, and
\* runs its function twice only where it has a timeout.
THEOREM ResultsAreHonest == Spec => []HonestResult
<1> DEFINE AllFine == Orderly /\ \A c \in Calls : Fine(c)
<1>1. Init => AllFine
  <2>1. \A j \in 1..maxAttempts : ~(j < 0)
    BY RetryAssumption
  <2>2. Init => Len(queue) = 0
    BY DEF Init
  <2> QED BY <2>1, <2>2 DEF Init, Fine, Orderly
<1>2. IInv /\ AllFine /\ [Next]_vars => AllFine'
  <2> SUFFICES ASSUME IInv, AllFine, [Next]_vars PROVE AllFine'
    OBVIOUS
  <2>1. ASSUME NEW d \in Calls, Step(d) PROVE AllFine'
    <3>1. Fine(d)' /\ Alone(d)
      BY <2>1, StepTells DEF IInv
    <3>2. ASSUME NEW c \in Calls PROVE Fine(c)'
      <4>1. CASE c = d
        BY <3>1, <4>1
      <4>2. CASE c # d
        BY <3>1, <4>2, StaysFine DEF Alone
      <4> QED BY <4>1, <4>2
    <3>3. Orderly'
      BY <2>1, <3>1, StepOrderly DEF IInv
    <3> QED BY <3>2, <3>3
  <2>2. CASE TakeTurn
    <3>1. UNCHANGED <<attempt, fns, answer>>
      BY <2>2 DEF TakeTurn
    <3>2. /\ Orderly'
          /\ \A c \in Calls : \/ phase'[c] = phase[c]
                              \/ (phase'[c] = "released" /\ phase[c] = "waiting")
      BY <2>2, TurnKeeps DEF IInv
    <3>3. ASSUME NEW c \in Calls PROVE Fine(c)'
      <4>1. CASE phase'[c] = phase[c]
        BY <3>1, <4>1, StaysFine
      <4>2. CASE phase'[c] = "released" /\ phase[c] = "waiting"
        BY <3>1, <4>2 DEF Fine
      <4> QED BY <3>2, <4>1, <4>2
    <3> QED BY <3>2, <3>3
  <2>3. CASE Operate \/ Tick \/ UNCHANGED vars
    <3>1. UNCHANGED <<phase, attempt, fns, answer, queue>>
      BY <2>3 DEF Operate, Tick, vars, callVars, limiterVars
    <3>2. \A c \in Calls : Fine(c)'
      BY <3>1, StaysFine
    <3> QED BY <3>1, <3>2 DEF Orderly
  <2> QED BY <2>1, <2>2, <2>3 DEF Next
<1>3. AllFine => HonestResult
  BY DEF Fine, HonestResult
<1> QED BY <1>1, <1>2, <1>3, RetryInvariant, PTL DEF Spec
=============================================================================
