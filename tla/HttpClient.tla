----------------------------- MODULE HttpClient -----------------------------
(***************************************************************************)
(* Outbound calls to one upstream origin and the circuit breaker they      *)
(* share.                                                                  *)
(*                                                                         *)
(*   CircuitBreaker    src/infrastructure/http/circuit-breaker.ts          *)
(*   FetchHttpClient   src/infrastructure/http/fetch-http.client.ts        *)
(*   retry policy      src/infrastructure/http/retry-policy.util.ts        *)
(*                                                                         *)
(* The breaker's methods are synchronous; between blockedForMs() and the   *)
(* record of the outcome a call awaits the upstream, and any other call of *)
(* the process may consult or inform the breaker.  The breaker does not    *)
(* know which call informs it.                                             *)
(*                                                                         *)
(* Clocks are relative: `elapsed` is now() - openedAt and stops at ResetMs,*)
(* where every comparison with it has been decided.                        *)
(***************************************************************************)
EXTENDS Naturals

CONSTANTS
    Calls,              \* concurrent request() slots; each is used again and again
    FailureThreshold,   \* httpClient.circuitFailureThreshold
    ResetMs,            \* httpClient.circuitResetMs
    TimeoutMs,          \* httpClient.timeoutMs
    Retries,            \* httpClient.retries
    MaxDelayMs          \* httpClient.retryMaxDelayMs

\* The schema of httpClient.*: positive integers, and retries >= 0.
ASSUME HttpClientAssumption ==
    /\ FailureThreshold \in Nat \ {0}
    /\ ResetMs \in Nat \ {0}
    /\ TimeoutMs \in Nat \ {0}
    /\ Retries \in Nat
    /\ MaxDelayMs \in Nat \ {0}

VARIABLES
    state,          \* CircuitBreaker.state
    failures,       \* CircuitBreaker.failures
    trialInFlight,  \* CircuitBreaker.trialInFlight
    elapsed,        \* now() - openedAt, up to ResetMs
    stage,          \* stage[c]: where call c is in request()
    attempt,        \* attempt[c]: its attempt counter
    retryable,      \* retryable[c]: may c be sent again?
    age,            \* age[c]: how long its current attempt has been in flight
    wait,           \* wait[c]: what is left of its delay before the retry
    trial,          \* trial[c]: its current attempt was let through half-open
    healthy         \* does the upstream answer?

breaker == <<state, failures, trialInFlight, elapsed>>
calls == <<stage, attempt, retryable, age, wait, trial>>
vars == <<state, failures, trialInFlight, elapsed,
          stage, attempt, retryable, age, wait, trial, healthy>>

\* Types of the state.
TypeOK ==
    /\ state \in {"closed", "open", "half-open"}
    /\ failures \in 0..(FailureThreshold - 1)
    /\ trialInFlight \in BOOLEAN
    /\ elapsed \in 0..ResetMs
    /\ stage \in [Calls -> {"idle", "inflight", "waiting"}]
    /\ attempt \in [Calls -> 0..Retries]
    /\ retryable \in [Calls -> BOOLEAN]
    /\ age \in [Calls -> 0..TimeoutMs]
    /\ wait \in [Calls -> 0..MaxDelayMs]
    /\ trial \in [Calls -> BOOLEAN]
    /\ healthy \in BOOLEAN

Init ==
    /\ state = "closed"
    /\ failures = 0
    /\ trialInFlight = FALSE
    /\ elapsed = ResetMs        \* openedAt = 0: long ago
    /\ stage = [c \in Calls |-> "idle"]
    /\ attempt = [c \in Calls |-> 0]
    /\ retryable = [c \in Calls |-> FALSE]
    /\ age = [c \in Calls |-> 0]
    /\ wait = [c \in Calls |-> 0]
    /\ trial = [c \in Calls |-> FALSE]
    /\ healthy = TRUE

-----------------------------------------------------------------------------
(* CircuitBreaker *)

\* `state === 'open' && elapsed >= resetMs`
WindowOver == state = "open" /\ elapsed >= ResetMs

\* blockedForMs() returns undefined ...
MutPasses == state # "open" \/ WindowOver
Passes ==
    \/ state = "closed"
    \/ WindowOver
    \/ state = "half-open" /\ ~trialInFlight

\* ... having turned an open circuit whose window is over into a half-open
\* one, and having marked the trial of a half-open one.
PassThrough ==
    /\ Passes
    /\ IF state = "closed"
       THEN UNCHANGED <<state, trialInFlight>>
       ELSE state' = "half-open" /\ trialInFlight' = TRUE
    /\ UNCHANGED <<failures, elapsed>>

MutRecordSuccess ==
    /\ failures' = 0
    /\ trialInFlight' = FALSE
    /\ UNCHANGED <<state, elapsed>>
RecordSuccess ==
    /\ state' = "closed"
    /\ failures' = 0
    /\ trialInFlight' = FALSE
    /\ UNCHANGED elapsed

Open ==
    /\ state' = "open"
    /\ elapsed' = 0
    /\ failures' = 0

MutRecordFailureLate ==
    /\ trialInFlight' = FALSE
    /\ IF state = "half-open" \/ failures + 1 > FailureThreshold
       THEN Open
       ELSE failures' = failures + 1 /\ UNCHANGED <<state, elapsed>>
RecordFailure ==
    /\ trialInFlight' = FALSE
    /\ IF state = "half-open" \/ failures + 1 >= FailureThreshold
       THEN Open
       ELSE failures' = failures + 1 /\ UNCHANGED <<state, elapsed>>

-----------------------------------------------------------------------------
(* request() *)

\* Call c is about to consult the breaker: a new call, or one whose delay is
\* over.
Ready(c) == stage[c] = "idle" \/ (stage[c] = "waiting" /\ wait[c] = 0)

\* A new call is safe to repeat or not; a retry keeps what its call is.
Kind(c) == IF stage[c] = "idle" THEN BOOLEAN ELSE {retryable[c]}

\* `attempt` of the loop: 0 for a new call, one more for a retry.
NextAttempt(c) == IF stage[c] = "idle" THEN 0 ELSE attempt[c] + 1

\* The breaker lets c through and attempt() starts.
Admit(c) ==
    /\ Ready(c)
    /\ PassThrough
    /\ \E kind \in Kind(c) : retryable' = [retryable EXCEPT ![c] = kind]
    /\ attempt' = [attempt EXCEPT ![c] = NextAttempt(c)]
    /\ stage' = [stage EXCEPT ![c] = "inflight"]
    /\ age' = [age EXCEPT ![c] = 0]
    /\ trial' = [trial EXCEPT ![c] = (state # "closed")]
    /\ UNCHANGED <<wait, healthy>>

\* The breaker refuses c: CircuitOpenError, also in the middle of its retries.
Refuse(c) ==
    /\ Ready(c)
    /\ ~Passes
    /\ stage' = [stage EXCEPT ![c] = "idle"]
    /\ UNCHANGED <<attempt, retryable, age, wait, trial, healthy>>
    /\ UNCHANGED breaker

\* request() returns or throws.
Finish(c) ==
    /\ stage' = [stage EXCEPT ![c] = "idle"]
    /\ trial' = [trial EXCEPT ![c] = FALSE]
    /\ UNCHANGED <<attempt, retryable, age, wait>>

\* waitBeforeRetry(): Retry-After or backoff with jitter, capped.
WaitBeforeRetry(c) ==
    /\ retryable[c]
    /\ attempt[c] < Retries
    /\ stage' = [stage EXCEPT ![c] = "waiting"]
    /\ trial' = [trial EXCEPT ![c] = FALSE]
    /\ \E d \in 0..MaxDelayMs : wait' = [wait EXCEPT ![c] = d]
    /\ UNCHANGED <<attempt, retryable, age>>

\* The call is over unless it may be repeated.
Conclude(c) == ~(retryable[c] /\ attempt[c] < Retries) /\ Finish(c)

\* A response below 500 that is not worth repeating.
RespondFine(c) ==
    /\ stage[c] = "inflight"
    /\ healthy
    /\ RecordSuccess
    /\ Finish(c)
    /\ UNCHANGED healthy

\* 408, 425 or 429: the upstream is healthy but says "not now".
RespondNotNow(c) ==
    /\ stage[c] = "inflight"
    /\ healthy
    /\ RecordSuccess
    /\ WaitBeforeRetry(c) \/ Conclude(c)
    /\ UNCHANGED healthy

\* 500, 502, 503, 504, a transport error, or the abort of the timeout.
Fail(c) ==
    /\ stage[c] = "inflight"
    /\ ~healthy
    /\ RecordFailure
    /\ WaitBeforeRetry(c) \/ Conclude(c)
    /\ UNCHANGED healthy

\* Another 5xx (501, 505, ...): counted, never repeated.
FailForGood(c) ==
    /\ stage[c] = "inflight"
    /\ ~healthy
    /\ RecordFailure
    /\ Finish(c)
    /\ UNCHANGED healthy

\* Time passes; an attempt in flight is aborted when it is TimeoutMs old.
Tick ==
    /\ \A c \in Calls : stage[c] = "inflight" => age[c] < TimeoutMs
    /\ elapsed' = IF elapsed < ResetMs THEN elapsed + 1 ELSE elapsed
    /\ age' = [c \in Calls |-> IF stage[c] = "inflight" THEN age[c] + 1 ELSE age[c]]
    /\ wait' = [c \in Calls |-> IF stage[c] = "waiting" /\ wait[c] > 0
                                THEN wait[c] - 1 ELSE wait[c]]
    /\ UNCHANGED <<state, failures, trialInFlight, stage, attempt, retryable, trial, healthy>>

\* The upstream breaks down or recovers.
Upstream ==
    /\ healthy' = ~healthy
    /\ UNCHANGED breaker
    /\ UNCHANGED calls

Settle(c) == RespondFine(c) \/ RespondNotNow(c) \/ Fail(c) \/ FailForGood(c)

Next ==
    \/ \E c \in Calls :
          \/ Admit(c)
          \/ Refuse(c)
          \/ RespondFine(c)
          \/ RespondNotNow(c)
          \/ Fail(c)
          \/ FailForGood(c)
    \/ Tick
    \/ Upstream

Spec == Init /\ [][Next]_vars

(***************************************************************************)
(* Timers fire and a started attempt settles, at the latest by its abort;  *)
(* a call whose delay is over goes on; new calls keep arriving.            *)
(***************************************************************************)
Fairness ==
    /\ WF_vars(Tick)
    /\ \A c \in Calls :
          /\ WF_vars(Settle(c))
          /\ WF_vars(Admit(c) \/ Refuse(c))

LiveSpec == Spec /\ Fairness

-----------------------------------------------------------------------------
(* Properties *)

\* What the properties about trials need and the configuration does not
\* enforce (the defaults are 5 s and 30 s): an attempt is over before the
\* window that follows it.
ShortAttempts == TimeoutMs < ResetMs

Trial(c) == stage[c] = "inflight" /\ trial[c]

\* While the circuit is half-open its one trial is in flight, so some outcome
\* is still to come that closes or opens it.
TrialAlive ==
    /\ state = "half-open" <=> trialInFlight
    /\ state = "half-open" => \E c \in Calls : Trial(c)

\* "It then lets a single trial call through": never two trials in flight,
\* although late outcomes of older calls may close or open the circuit.
SingleTrial == \A c, d \in Calls : Trial(c) /\ Trial(d) => c = d

\* "After failureThreshold consecutive failures it opens and refuses calls
\* for resetMs": no attempt starts until ResetMs after the circuit opened.
\* The code does not keep this: README, departure 4.
RefusesForResetMs ==
    [][\A c \in Calls :
          (stage[c] # "inflight" /\ stage'[c] = "inflight") => elapsed >= ResetMs]_vars

\* A half-open circuit is always decided, some outcome closes or opens it; and
\* when the upstream stays healthy the circuit closes and stays closed.
Recovers ==
    /\ state = "half-open" ~> state # "half-open"
    /\ <>[]healthy => <>[](state = "closed")
=============================================================================
