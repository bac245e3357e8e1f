---------------------------- MODULE RetryHandler ----------------------------
(***************************************************************************)
(* The exported helpers of src/trading/core/retry-handler.ts and the       *)
(* RateLimiter of src/trading/executor.ts, as a program uses them: every   *)
(* call takes its turn with wait(), then runs a function of the program    *)
(* through execute or executeWithTimeout of one RetryHandler, whose        *)
(* CircuitBreaker all calls share.                                         *)
(*                                                                         *)
(* A function that timed out is not stopped: it runs on while the next     *)
(* attempt runs it again, and what it answers then is dropped.             *)
(*                                                                         *)
(* Time is a Tick that makes everything older; an age stops growing where  *)
(* nothing reads a larger one.  Timers may fire late.                      *)
(***************************************************************************)
EXTENDS Integers, Sequences, Functions

CONSTANTS Calls,
          Timed,              \* the calls made with executeWithTimeout
          maxAttempts, initialDelay, maxDelay, backoffMultiplier, strategy,
          attemptTimeout,
          retryAllErrors, retryOnTimeout,
          Retryable,          \* what retryableErrorCodes and -Messages match
          failureThreshold, resetTimeout, successThreshold, failureWindow,
          minDelay            \* of the RateLimiter

Errors == {"transient", "fatal", "open", "timeout"}

ASSUME RetryAssumption ==
    /\ Timed \subseteq Calls
    /\ maxAttempts \in Nat \ {0} /\ attemptTimeout \in Nat \ {0}
    /\ initialDelay \in Nat /\ maxDelay \in Nat /\ backoffMultiplier \in Nat \ {0}
    /\ strategy \in {"None", "Fixed", "Linear", "Exponential", "ExponentialJitter"}
    /\ retryAllErrors \in BOOLEAN /\ retryOnTimeout \in BOOLEAN
    /\ Retryable \subseteq {"transient", "open"}
    /\ {failureThreshold, resetTimeout, successThreshold, failureWindow}
           \subseteq Nat \ {0}
    /\ minDelay \in Nat

\* A fact of arithmetic that proofs need.
ASSUME PowersAssumption == \A k \in 1..maxAttempts : backoffMultiplier ^ (k - 1) \in Nat

VARIABLES circuit,     \* the CircuitBreaker
          phase, attempt, left,
          fns,         \* what has become of each run of the function of a call
          answer,      \* the RetryResult of each call
          queue,       \* calls waiting for the limiter, in the order of wait()
          sinceSubmit, \* age of the limiter's lastSubmit
          limiterLeft, \* the limiter's timer, Awake without one
          sinceOpen    \* history: how long ago the circuit opened

callVars    == <<phase, attempt, left, fns, answer>>
limiterVars == <<queue, sinceSubmit, limiterLeft>>
vars == <<circuit, callVars, limiterVars, sinceOpen>>

Awake == -1
Least(a, b)    == IF a < b THEN a ELSE b
Greatest(a, b) == IF a > b THEN a ELSE b
NoAnswer == [success |-> FALSE, attempts |-> -1, error |-> "none"]

Init ==
    /\ circuit = [state |-> "Closed", openAge |-> resetTimeout, successes |-> 0,
                  failures |-> [a \in 0..failureWindow - 1 |-> 0]]
    /\ phase = [c \in Calls |-> "idle"]
    /\ attempt = [c \in Calls |-> 0] /\ left = [c \in Calls |-> 0]
    /\ fns = [c \in Calls |-> [k \in 1..maxAttempts |-> "none"]]
    /\ answer = [c \in Calls |-> NoAnswer]
    /\ queue = <<>> /\ sinceSubmit = minDelay /\ limiterLeft = Awake
    /\ sinceOpen = resetTimeout

------------------------------------------------------------------------------
(* ExponentialBackoff *)

\* The delays calculateDelay may choose before the attempt after k.  Jitter moves a
\* delay by up to a quarter of it, either way.
Exponential(k) == Least(initialDelay * backoffMultiplier ^ (k - 1), maxDelay)
calculateDelay(k) ==
    CASE strategy = "None"   -> {0}
      [] strategy = "Fixed"  -> {initialDelay}
      [] strategy = "Linear" -> {Least(initialDelay * k, maxDelay)}
      [] strategy = "Exponential" -> {Exponential(k)}
      [] OTHER -> LET jitter == Exponential(k) \div 4
                  IN  Exponential(k) - jitter .. Exponential(k) + jitter

shouldRetry(error, k) ==
    /\ k < maxAttempts
    /\ \/ retryAllErrors
       \/ error \in Retryable
       \/ retryOnTimeout /\ error = "timeout"

------------------------------------------------------------------------------
(* CircuitBreaker *)

\* The time of the first opening is kept for the later ones.
transitionToBug(b, to) ==
    CASE to = "Open"   -> [b EXCEPT !.state = to,
                                    !.openAge = IF b.state = "Closed" THEN 0 ELSE @]
      [] to = "Closed" -> [b EXCEPT !.state = to, !.successes = 0,
                                    !.failures = [a \in DOMAIN b.failures |-> 0]]
      [] OTHER         -> [b EXCEPT !.state = to]

\* A circuit that opens starts to wait anew; one that closes forgets its failures.
\* One that becomes half-open keeps its failures and its successes.
transitionTo(b, to) ==
    CASE to = "Open"   -> [b EXCEPT !.state = to, !.openAge = 0]
      [] to = "Closed" -> [b EXCEPT !.state = to, !.successes = 0,
                                    !.failures = [a \in DOMAIN b.failures |-> 0]]
      [] OTHER         -> [b EXCEPT !.state = to]

updateState(b) == IF b.state = "Open" /\ b.openAge >= resetTimeout
                  THEN transitionTo(b, "HalfOpen") ELSE b

\* Any success counts, also that of a call which began before the circuit opened.
recordSuccess(b) ==
    LET r == [b EXCEPT !.successes = Least(@ + 1, successThreshold)]
    IN  IF b.state = "HalfOpen" /\ r.successes >= successThreshold
        THEN transitionTo(r, "Closed") ELSE r

\* Also a failure that arrives while the circuit is open is recorded, and makes the
\* circuit wait anew if the window holds enough of them.
recordFailure(b) ==
    LET r == [b EXCEPT !.successes = 0, !.failures[0] = @ + 1]
    IN  IF \/ b.state = "HalfOpen"
           \/ FoldFunction(+, 0, r.failures) >= failureThreshold
        THEN transitionTo(r, "Open") ELSE r

\* canExecute: a half-open circuit lets some through, at random.
MayAdmit(b)  == b.state \in {"Closed", "HalfOpen"}
MayRefuse(b) == b.state \in {"Open", "HalfOpen"}

\* forceOpen, forceClose, reset and getState, whenever the program likes.
Operate ==
    /\ \/ circuit' = transitionTo(circuit, "Open") /\ sinceOpen' = 0
       \/ circuit' = transitionTo(circuit, "Closed") /\ sinceOpen' = resetTimeout
       \/ circuit' = updateState(circuit) /\ UNCHANGED sinceOpen
    /\ UNCHANGED <<callVars, limiterVars>>

------------------------------------------------------------------------------
(* RetryHandler.execute *)

Settled(c, result) ==
    /\ phase' = [phase EXCEPT ![c] = "answered"]
    /\ answer' = [answer EXCEPT ![c] = result]

\* Attempt k failed with this error, and left the circuit as b: wait for the next
\* attempt, or give up.  However many were made, all are reported.
Failed(c, k, error, b) ==
    /\ circuit' = b
    /\ attempt' = [attempt EXCEPT ![c] = k]
    /\ IF shouldRetry(error, k)
       THEN /\ \E d \in calculateDelay(k) : left' = [left EXCEPT ![c] = d]
            /\ phase' = [phase EXCEPT ![c] = "sleeping"]
            /\ UNCHANGED answer
       ELSE /\ Settled(c, [success |-> FALSE, attempts |-> maxAttempts, error |-> error])
            /\ left' = [left EXCEPT ![c] = 0]

\* One timer for all attempts.
ArmedBug(c, k) == IF c \in Timed /\ k = 1 THEN attemptTimeout ELSE Awake

\* executeWithTimeout arms a timer for every attempt.
Armed(c, k) == IF c \in Timed THEN attemptTimeout ELSE Awake

\* CircuitBreaker.execute for attempt k.  A refusal is an error of the attempt, and
\* no failure of the circuit.
Begin(c, k) ==
    LET b == updateState(circuit) IN
    \/ /\ MayAdmit(b) /\ circuit' = b
       /\ phase' = [phase EXCEPT ![c] = "running"]
       /\ attempt' = [attempt EXCEPT ![c] = k]
       /\ left' = [left EXCEPT ![c] = Armed(c, k)]
       /\ fns' = [fns EXCEPT ![c][k] = "running"]
       /\ UNCHANGED answer
    \/ /\ MayRefuse(b) /\ Failed(c, k, "open", b)
       /\ UNCHANGED fns

\* The circuit is asked before the first attempt, and again by that attempt.
Execute(c) ==
    /\ phase[c] = "released"
    /\ \/ /\ MayRefuse(updateState(circuit))
          /\ circuit' = updateState(circuit)
          /\ Settled(c, [success |-> FALSE, attempts |-> 0, error |-> "open"])
          /\ UNCHANGED <<attempt, left, fns>>
       \/ /\ MayAdmit(updateState(circuit))
          /\ Begin(c, 1)
    /\ UNCHANGED limiterVars

\* The delay before the next attempt has passed.
Wake(c) ==
    /\ phase[c] = "sleeping" /\ left[c] = 0
    /\ Begin(c, attempt[c] + 1)
    /\ UNCHANGED limiterVars

\* Whichever run of its function answers while it waits, the call takes it.
HeardBug(c, k) == phase[c] = "running"

\* A call waits for the run of its present attempt, and for no other.
Heard(c, k) == phase[c] = "running" /\ attempt[c] = k

\* A run of the function answers.  Nobody listens to one that had timed out.
Answer(c, k, outcome) ==
    /\ fns[c][k] = "running"
    /\ fns' = [fns EXCEPT ![c][k] = outcome]
    /\ IF Heard(c, k)
       THEN IF outcome = "ok"
            THEN /\ circuit' = recordSuccess(circuit)
                 /\ Settled(c, [success |-> TRUE, attempts |-> k, error |-> "none"])
                 /\ left' = [left EXCEPT ![c] = 0]
                 /\ UNCHANGED attempt
            ELSE Failed(c, k, outcome, recordFailure(circuit))
       ELSE UNCHANGED <<circuit, phase, attempt, left, answer>>
    /\ UNCHANGED limiterVars

\* executeWithTimeout's timer wins the race.
Timeout(c) ==
    /\ c \in Timed /\ phase[c] = "running" /\ left[c] = 0
    /\ Failed(c, attempt[c], "timeout", recordFailure(circuit))
    /\ UNCHANGED <<fns, limiterVars>>

------------------------------------------------------------------------------
(* RateLimiter *)

\* wait(): the turns are taken in the order of the calls.
Wait(c) ==
    /\ phase[c] = "idle"
    /\ phase' = [phase EXCEPT ![c] = "waiting"]
    /\ queue' = Append(queue, c)
    /\ UNCHANGED <<circuit, attempt, left, fns, answer, sinceSubmit, limiterLeft>>

\* The head looks at the time of the last release: it goes, or sleeps for what
\* remains, and looks again when the timer wakes it, which may be a tick early.
TakeTurn ==
    LET remaining == minDelay - sinceSubmit IN
    /\ queue # <<>> /\ limiterLeft \in {Awake, 0, 1}
    /\ IF remaining <= 0
       THEN /\ sinceSubmit' = 0 /\ limiterLeft' = Awake
            /\ queue' = Tail(queue)
            /\ phase' = [phase EXCEPT ![Head(queue)] = "released"]
       ELSE /\ limiterLeft' = remaining
            /\ UNCHANGED <<sinceSubmit, queue, phase>>
    /\ UNCHANGED <<circuit, attempt, left, fns, answer>>

------------------------------------------------------------------------------
Younger(n) == Greatest(n - 1, Least(n, 0))

\* Failures that leave the window count no longer (cleanupOldFailures).
Tick ==
    /\ circuit' = [circuit EXCEPT
           !.openAge = Least(@ + 1, resetTimeout),
           !.failures = [a \in DOMAIN @ |-> IF a = 0 THEN 0 ELSE @[a - 1]]]
    /\ left' = [c \in Calls |-> Younger(left[c])]
    /\ sinceSubmit' = Least(sinceSubmit + 1, minDelay)
    /\ limiterLeft' = Younger(limiterLeft)
    /\ sinceOpen' = Least(sinceOpen + 1, resetTimeout)
    /\ UNCHANGED <<phase, attempt, fns, answer, queue>>

\* What the handler and the limiter do.
Step(c) ==
    /\ \/ Wait(c) \/ Execute(c) \/ Wake(c) \/ Timeout(c)
       \/ \E k \in 1..maxAttempts, outcome \in {"ok", "transient", "fatal"} :
              Answer(c, k, outcome)
    /\ sinceOpen' = IF circuit.state # "Open" /\ circuit'.state = "Open"
                    THEN 0 ELSE sinceOpen

Next ==
    \/ \E c \in Calls : Step(c)
    \/ TakeTurn /\ UNCHANGED sinceOpen
    \/ Operate
    \/ Tick

Spec == Init /\ [][Next]_vars

\* Timers fire and time passes.  The program's functions may never answer.
FairSpec ==
    /\ Spec
    /\ WF_vars(Tick)
    /\ WF_vars(TakeTurn /\ UNCHANGED sinceOpen)
    /\ \A c \in Calls :
          WF_vars((Execute(c) \/ Wake(c) \/ Timeout(c))
                  /\ sinceOpen' = IF circuit.state # "Open" /\ circuit'.state = "Open"
                                  THEN 0 ELSE sinceOpen)

------------------------------------------------------------------------------
(* Properties *)

\* Types of the breaker, the limiter and the calls; no call makes more attempts than
\* it may.
TypeOK ==
    /\ circuit \in [state : {"Closed", "Open", "HalfOpen"},
                    openAge : 0..resetTimeout, successes : 0..successThreshold,
                    failures : [0..failureWindow - 1 -> Nat]]
    /\ phase \in [Calls -> {"idle", "waiting", "released", "running", "sleeping",
                            "answered"}]
    /\ attempt \in [Calls -> 0..maxAttempts]
    /\ left \in [Calls -> Nat \cup {Awake}]
    /\ fns \in [Calls -> [1..maxAttempts ->
                        {"none", "running", "ok", "transient", "fatal"}]]
    /\ answer \in [Calls -> [success : BOOLEAN, attempts : -1..maxAttempts,
                             error : Errors \cup {"none"}]]
    /\ queue \in Seq(Calls) /\ sinceSubmit \in 0..minDelay
    /\ limiterLeft \in -1..minDelay
    /\ sinceOpen \in 0..resetTimeout

Starts(c) == \E k \in 1..maxAttempts : fns[c][k] = "none" /\ fns'[c][k] = "running"

\* Once the circuit has opened, no call and no retry of any call runs its function
\* until the reset timeout has passed since that opening, unless the program closes
\* it itself: also not after a probe of the half-open circuit failed.  (And the state
\* stays well typed.)
QuietWhileOpen ==
    /\ []TypeOK
    /\ [][\A c \in Calls : Starts(c) => sinceOpen >= resetTimeout]_vars

\* The result of a call is what its last attempt came to.
Told(c) ==
    LET k == attempt[c]
        result == answer[c]
    IN  CASE result.success -> result.attempts = k /\ fns[c][k] = "ok"
          [] ~result.success /\ result.error = "open" -> k = 0 \/ fns[c][k] = "none"
          [] ~result.success /\ result.error = "timeout" -> c \in Timed /\ fns[c][k] # "none"
          [] OTHER -> fns[c][k] = result.error

\* However late the runs of its function answer, and whatever the circuit refuses in
\* between, a call is told what its own last attempt came to, and none waits for a run
\* that has already answered.  Only a call with a timeout runs its function again while
\* an earlier run goes on, or after one that was done.
HonestResult ==
    \A c \in Calls :
        /\ phase[c] = "answered" => Told(c)
        /\ phase[c] = "running" => fns[c][attempt[c]] = "running"
        /\ c \notin Timed => \A j \in 1..maxAttempts :
               phase[c] = "sleeping" \/ j < attempt[c] => fns[c][j] \notin {"running", "ok"}

\* A call made with executeWithTimeout is answered, whatever its function does and
\* whatever the circuit says: a run that hangs costs one attempt.
EventuallyAnswered ==
    \A c \in Timed : phase[c] = "waiting" ~> phase[c] = "answered"
=============================================================================
