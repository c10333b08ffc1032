--------------------------- MODULE OutboundProofs ---------------------------
(***************************************************************************)
(* Proofs about the two places from which the program calls another        *)
(* service: HttpClient, for every number of concurrent calls and every     *)
(* configuration, and LegacyForwarding, for every timeout and every path.  *)
(* The two share nothing; they are proved side by side.                    *)
(*                                                                         *)
(* HttpClient: a half-open circuit has its trial in flight, and when       *)
(* attempts are shorter than the window there is never a second one.       *)
(* LegacyForwarding: one status goes out, no cut body passes for whole,    *)
(* and a path is forwarded by its segments, whatever its slashes.          *)
(* Departures 4 and 9 to 12 of the README each have one cause, without     *)
(* which the documents are right.                                          *)
(***************************************************************************)
EXTENDS HttpClient, LegacyForwarding, TLAPS, FiniteSetTheorems, SequenceTheorems

-----------------------------------------------------------------------------
(* HttpClient *)

\* A call that waits for a retry has one left.
RetryLeft == \A c \in Calls : stage[c] = "waiting" => attempt[c] < Retries

TypeInv == TypeOK /\ RetryLeft

\* What the record of an outcome keeps of the breaker's types.
LEMMA RecordTypes ==
    ASSUME TypeOK, RecordSuccess \/ RecordFailure
    PROVE  /\ state' \in {"closed", "open", "half-open"}
           /\ failures' \in 0..(FailureThreshold - 1)
           /\ trialInFlight' \in BOOLEAN
           /\ elapsed' \in 0..ResetMs
<1>0. 0 \in 0..(FailureThreshold - 1) /\ 0 \in 0..ResetMs
  BY HttpClientAssumption
<1>1. CASE RecordSuccess
  BY <1>0, <1>1 DEF TypeOK, RecordSuccess
<1>2. CASE RecordFailure
  <2>1. CASE state = "half-open" \/ failures + 1 >= FailureThreshold
    BY <1>0, <1>2, <2>1 DEF TypeOK, RecordFailure, Open
  <2>2. CASE ~(state = "half-open" \/ failures + 1 >= FailureThreshold)
    <3>1. failures + 1 \in 0..(FailureThreshold - 1)
      BY <2>2, HttpClientAssumption DEF TypeOK
    <3>2. QED
      BY <1>2, <2>2, <3>1 DEF TypeOK, RecordFailure
  <2>3. QED
    BY <2>1, <2>2
<1>3. QED
  BY <1>1, <1>2

\* What the end of an attempt keeps of the types of the calls.
LEMMA EndTypes ==
    ASSUME TypeInv, NEW c \in Calls,
           Finish(c) \/ WaitBeforeRetry(c) \/ Conclude(c)
    PROVE  /\ stage' \in [Calls -> {"idle", "inflight", "waiting"}]
           /\ attempt' \in [Calls -> 0..Retries]
           /\ retryable' \in [Calls -> BOOLEAN]
           /\ age' \in [Calls -> 0..TimeoutMs]
           /\ wait' \in [Calls -> 0..MaxDelayMs]
           /\ trial' \in [Calls -> BOOLEAN]
           /\ RetryLeft'
BY HttpClientAssumption DEF TypeInv, TypeOK, RetryLeft, Finish, WaitBeforeRetry, Conclude

\* Every step keeps the types.
LEMMA TypeStep == TypeInv /\ [Next]_vars => TypeInv'
<1> SUFFICES ASSUME TypeInv, [Next]_vars PROVE TypeInv'
  OBVIOUS
<1> USE HttpClientAssumption
<1>1. ASSUME NEW c \in Calls, Admit(c) PROVE TypeInv'
  <2>1. NextAttempt(c) \in 0..Retries
    BY <1>1 DEF Admit, Ready, NextAttempt, TypeInv, TypeOK, RetryLeft
  <2>2. attempt' \in [Calls -> 0..Retries]
    BY <1>1, <2>1 DEF Admit, TypeInv, TypeOK
  <2>3. retryable' \in [Calls -> BOOLEAN]
    BY <1>1 DEF Admit, Kind, TypeInv, TypeOK
  <2>4. trial' \in [Calls -> BOOLEAN]
    BY <1>1 DEF Admit, TypeInv, TypeOK
  <2>5. /\ state' \in {"closed", "open", "half-open"}
        /\ trialInFlight' \in BOOLEAN
        /\ failures' = failures /\ elapsed' = elapsed /\ wait' = wait /\ healthy' = healthy
    BY <1>1 DEF Admit, PassThrough, TypeInv, TypeOK
  <2>6. /\ stage' \in [Calls -> {"idle", "inflight", "waiting"}]
        /\ age' \in [Calls -> 0..TimeoutMs]
        /\ \A d \in Calls \ {c} : stage'[d] = stage[d] /\ attempt'[d] = attempt[d]
        /\ stage'[c] = "inflight"
    BY <1>1 DEF Admit, TypeInv, TypeOK
  <2>7. RetryLeft'
    BY <2>6 DEF TypeInv, RetryLeft
  <2>8. QED
    BY <2>2, <2>3, <2>4, <2>5, <2>6, <2>7 DEF TypeInv, TypeOK
<1>2. ASSUME NEW c \in Calls, Refuse(c) PROVE TypeInv'
  BY <1>2 DEF Refuse, breaker, TypeInv, TypeOK, RetryLeft
<1>3. ASSUME NEW c \in Calls, Settle(c) PROVE TypeInv'
  BY <1>3, RecordTypes, EndTypes
     DEF Settle, RespondFine, RespondNotNow, Fail, FailForGood, TypeInv, TypeOK
<1>4. CASE Tick
  BY <1>4 DEF Tick, TypeInv, TypeOK, RetryLeft
<1>5. CASE Upstream
  BY <1>5 DEF Upstream, breaker, calls, TypeInv, TypeOK, RetryLeft
<1>6. CASE UNCHANGED vars
  BY <1>6 DEF vars, TypeInv, TypeOK, RetryLeft
<1>7. QED
  BY <1>1, <1>2, <1>3, <1>4, <1>5, <1>6 DEF Next, Settle

\* The types and the count of retries hold in every reachable state.
LEMMA TypeInvariant == Spec => []TypeInv
<1>1. Init => TypeInv
  <2> SUFFICES ASSUME Init PROVE TypeInv
    OBVIOUS
  <2>1. 0 \in 0..(FailureThreshold - 1) /\ ResetMs \in 0..ResetMs
    BY HttpClientAssumption
  <2>2. 0 \in 0..Retries /\ 0 \in 0..TimeoutMs /\ 0 \in 0..MaxDelayMs
    BY HttpClientAssumption
  <2>3. RetryLeft
    BY DEF Init, RetryLeft
  <2>4. QED
    BY <2>1, <2>2, <2>3 DEF Init, TypeInv, TypeOK
<1>2. QED
  BY <1>1, TypeStep, PTL DEF Spec

\* Every reachable state of breaker and calls is well typed; in particular
\* the failure count stays below the threshold and the attempt counter
\* within the configured retries.
THEOREM TypeCorrect == Spec => []TypeOK
<1>1. TypeInv => TypeOK
  BY DEF TypeInv
<1>2. QED
  BY <1>1, TypeInvariant, PTL

-----------------------------------------------------------------------------
(* The half-open circuit *)

\* The step of a call whose outcome is recorded: whatever call it is, the
\* circuit is not half-open afterwards.
LEMMA SettleDecides ==
    ASSUME TypeInv, TrialAlive, NEW c \in Calls, Settle(c)
    PROVE  /\ state' # "half-open" /\ ~trialInFlight'
           /\ \A d \in Calls \ {c} : stage'[d] = stage[d] /\ trial'[d] = trial[d]
           /\ \A d \in Calls : age'[d] = age[d]
           /\ stage'[c] # "inflight"
BY DEF Settle, RespondFine, RespondNotNow, Fail, FailForGood, RecordSuccess,
       RecordFailure, Open, Finish, WaitBeforeRetry, Conclude, TypeInv, TypeOK, TrialAlive

\* Every step keeps the trial of a half-open circuit in flight.
LEMMA AliveStep ==
    ASSUME TypeInv, TrialAlive, [Next]_vars
    PROVE  TrialAlive'
<1>1. ASSUME NEW c \in Calls, Admit(c) PROVE TrialAlive'
  <2>1. CASE state = "closed"
    BY <1>1, <2>1 DEF Admit, PassThrough, TrialAlive
  <2>2. CASE state # "closed"
    BY <1>1, <2>2 DEF Admit, PassThrough, TrialAlive, Trial, TypeInv, TypeOK
  <2>3. QED
    BY <2>1, <2>2
<1>2. ASSUME NEW c \in Calls, Refuse(c) PROVE TrialAlive'
  BY <1>2 DEF Refuse, Ready, breaker, TrialAlive, Trial, TypeInv, TypeOK
<1>3. ASSUME NEW c \in Calls, Settle(c) PROVE TrialAlive'
  BY <1>3, SettleDecides DEF TrialAlive, TypeInv, TypeOK
<1>4. CASE Tick
  BY <1>4 DEF Tick, TrialAlive, Trial
<1>5. CASE Upstream
  BY <1>5 DEF Upstream, breaker, calls, TrialAlive, Trial
<1>6. CASE UNCHANGED vars
  BY <1>6 DEF vars, TrialAlive, Trial
<1>7. QED
  BY <1>1, <1>2, <1>3, <1>4, <1>5, <1>6 DEF Next, Settle

\* A half-open circuit always has its trial in flight: no order of late
\* outcomes leaves it half-open with nobody to decide it.
THEOREM HalfOpenHasTrial == Spec => []TrialAlive
<1>1. Init => TrialAlive
  BY DEF Init, TrialAlive
<1>2. TypeInv /\ TrialAlive /\ [Next]_vars => TrialAlive'
  BY AliveStep
<1>3. QED
  BY <1>1, <1>2, TypeInvariant, PTL DEF Spec

-----------------------------------------------------------------------------
(* One trial at a time *)

\* A trial that outlives the circuit it was let through started before the
\* circuit opened again.
TrialAge == \A c \in Calls : Trial(c) /\ state = "open" => age[c] >= elapsed

TrialInv == TrialAlive /\ TrialAge /\ SingleTrial

\* When a trial is let through, no other one is in flight.
LEMMA NoOtherTrial ==
    ASSUME ShortAttempts, TypeInv, TrialInv, NEW c \in Calls, Admit(c), state # "closed"
    PROVE  \A d \in Calls : ~Trial(d)
<1>1. state = "open" /\ elapsed >= ResetMs
  BY DEF Admit, PassThrough, Passes, WindowOver, TrialInv, TrialAlive, TypeInv, TypeOK
<1>2. ASSUME NEW d \in Calls, Trial(d) PROVE FALSE
  <2>1. age[d] >= ResetMs
    BY <1>1, <1>2, HttpClientAssumption DEF TrialInv, TrialAge, TypeInv, TypeOK
  <2>2. age[d] <= TimeoutMs
    BY HttpClientAssumption DEF TypeInv, TypeOK
  <2>3. QED
    BY <2>1, <2>2, HttpClientAssumption DEF ShortAttempts, TypeInv, TypeOK
<1>3. QED
  BY <1>2

\* Every step keeps the trial unique when attempts are short.
LEMMA TrialStep ==
    ASSUME ShortAttempts, TypeInv, TypeInv', TrialInv, [Next]_vars
    PROVE  TrialInv'
<1>0. TrialAlive'
  BY AliveStep DEF TrialInv
<1>1. ASSUME NEW c \in Calls, Admit(c) PROVE TrialAge' /\ SingleTrial'
  <2>1. \A d \in Calls \ {c} : /\ stage'[d] = stage[d] /\ trial'[d] = trial[d]
                               /\ age'[d] = age[d]
    BY <1>1 DEF Admit, TypeInv, TypeOK
  <2>2. CASE state = "closed"
    <3>1. state' = "closed" /\ ~Trial(c)'
      BY <1>1, <2>2 DEF Admit, PassThrough, Trial, TypeInv, TypeOK
    <3>2. QED
      BY <2>1, <3>1 DEF TrialInv, TrialAge, SingleTrial, Trial
  <2>3. CASE state # "closed"
    <3>1. state' = "half-open"
      BY <1>1, <2>3 DEF Admit, PassThrough
    <3>2. \A d \in Calls : ~Trial(d)
      BY <1>1, <2>3, NoOtherTrial
    <3>3. QED
      BY <2>1, <3>1, <3>2 DEF TrialAge, SingleTrial, Trial
  <2>4. QED
    BY <2>2, <2>3
<1>2. ASSUME NEW c \in Calls, Refuse(c) PROVE TrialAge' /\ SingleTrial'
  BY <1>2 DEF Refuse, Ready, breaker, TrialInv, TrialAge, SingleTrial, Trial, TypeInv, TypeOK
<1>3. ASSUME NEW c \in Calls, Settle(c) PROVE TrialAge' /\ SingleTrial'
  <2>1. /\ \A d \in Calls \ {c} : stage'[d] = stage[d] /\ trial'[d] = trial[d]
        /\ \A d \in Calls : age'[d] = age[d]
        /\ stage'[c] # "inflight"
    BY <1>3, SettleDecides DEF TrialInv
  <2>2. \/ state' = "closed"
        \/ state' = "open" /\ elapsed' = 0
        \/ state' = state /\ elapsed' = elapsed
    BY <1>3 DEF Settle, RespondFine, RespondNotNow, Fail, FailForGood, RecordSuccess,
                RecordFailure, Open
  <2>3. \A d \in Calls : Trial(d)' => Trial(d)
    BY <2>1 DEF Trial
  <2>4. SingleTrial'
    BY <2>3 DEF TrialInv, SingleTrial
  <2>5. \A d \in Calls : age[d] \in Nat
    BY HttpClientAssumption DEF TypeInv, TypeOK
  <2>6. TrialAge'
    BY <2>1, <2>2, <2>3, <2>5 DEF TrialInv, TrialAge
  <2>7. QED
    BY <2>4, <2>6
<1>4. CASE Tick
  <2>1. SingleTrial'
    BY <1>4 DEF Tick, TrialInv, SingleTrial, Trial
  <2>2. TrialAge'
    BY <1>4, HttpClientAssumption DEF Tick, TrialInv, TrialAge, Trial, TypeInv, TypeOK
  <2>3. QED
    BY <1>0, <2>1, <2>2 DEF TrialInv
<1>5. CASE Upstream
  BY <1>0, <1>5 DEF Upstream, breaker, calls, TrialInv, TrialAge, SingleTrial, Trial
<1>6. CASE UNCHANGED vars
  BY <1>0, <1>6 DEF vars, TrialInv, TrialAge, SingleTrial, Trial
<1>7. QED
  BY <1>0, <1>1, <1>2, <1>3, <1>4, <1>5, <1>6 DEF Next, Settle, TrialInv

\* When every attempt is shorter than the window, at most one trial call is
\* in flight, whatever the order in which older outcomes arrive.
THEOREM OneTrialAtATime == ShortAttempts => (Spec => []SingleTrial)
<1> SUFFICES ASSUME ShortAttempts PROVE Spec => []SingleTrial
  OBVIOUS
<1>1. Init => TrialInv
  BY DEF Init, TrialInv, TrialAlive, TrialAge, SingleTrial, Trial
<1>2. TypeInv /\ TypeInv' /\ TrialInv /\ [Next]_vars => TrialInv'
  BY TrialStep
<1>3. TrialInv => SingleTrial
  BY DEF TrialInv
<1>4. QED
  BY <1>1, <1>2, <1>3, TypeInvariant, PTL DEF Spec

-----------------------------------------------------------------------------
(* The window of an open circuit *)

\* No success comes in while the circuit is open: the calls that were admitted
\* before it opened have failed, or are still under way.
NoLateSuccess ==
    [][(\E c \in Calls : RespondFine(c) \/ RespondNotNow(c)) => state # "open"]_vars

\* A circuit that is not open has been so for a whole window, or has never opened.
WindowInv == elapsed \in 0..ResetMs /\ (state # "open" => elapsed >= ResetMs)

\* A step without a late success keeps the circuit shut for the window.
LEMMA WindowStep ==
    ASSUME WindowInv, [Next]_vars,
           (\E c \in Calls : RespondFine(c) \/ RespondNotNow(c)) => state # "open"
    PROVE  WindowInv'
<1> USE HttpClientAssumption
<1>1. ASSUME NEW c \in Calls, Admit(c) PROVE WindowInv'
  BY <1>1 DEF Admit, PassThrough, Passes, WindowOver, WindowInv
<1>2. ASSUME NEW c \in Calls, Refuse(c) PROVE WindowInv'
  BY <1>2 DEF Refuse, breaker, WindowInv
<1>3. ASSUME NEW c \in Calls, RespondFine(c) \/ RespondNotNow(c) PROVE WindowInv'
  BY <1>3 DEF RespondFine, RespondNotNow, RecordSuccess, WindowInv
<1>4. ASSUME NEW c \in Calls, Fail(c) \/ FailForGood(c) PROVE WindowInv'
  <2>1. RecordFailure
    BY <1>4 DEF Fail, FailForGood
  <2>2. (state' = "open" /\ elapsed' = 0) \/ UNCHANGED <<state, elapsed>>
    BY <2>1 DEF RecordFailure, Open
  <2>3. QED
    BY <2>2 DEF WindowInv
<1>5. CASE Tick
  BY <1>5 DEF Tick, WindowInv
<1>6. CASE Upstream \/ UNCHANGED vars
  BY <1>6 DEF Upstream, breaker, vars, WindowInv
<1>7. QED
  BY <1>1, <1>2, <1>3, <1>4, <1>5, <1>6 DEF Next

\* "it opens and refuses calls for resetMs" is true of every run in which no
\* call of before answers late: with any number of calls and of retries, whatever
\* the order of the failures. Departure 4 needs a success in an open circuit.
THEOREM OnlyALateSuccessReopens == Spec /\ NoLateSuccess => RefusesForResetMs
<1>1. Init => WindowInv
  BY HttpClientAssumption DEF Init, WindowInv
<1>2. TypeOK /\ WindowInv /\ [Next]_vars =>
        [\A c \in Calls :
          (stage[c] # "inflight" /\ stage'[c] = "inflight") => elapsed >= ResetMs]_vars
  <2> SUFFICES ASSUME TypeOK, WindowInv, Next, NEW c \in Calls,
                      stage[c] # "inflight", stage'[c] = "inflight"
               PROVE  elapsed >= ResetMs
    OBVIOUS
  <2>1. ASSUME NEW d \in Calls, Admit(d) PROVE elapsed >= ResetMs
    BY <2>1 DEF Admit, PassThrough, Passes, WindowOver, WindowInv
  <2>2. ASSUME NEW d \in Calls, Refuse(d) PROVE FALSE
    BY <2>2 DEF Refuse, TypeOK
  <2>3. ASSUME NEW d \in Calls, Settle(d) PROVE FALSE
    BY <2>3 DEF Settle, RespondFine, RespondNotNow, Fail, FailForGood, Finish,
                WaitBeforeRetry, Conclude, TypeOK
  <2>4. CASE Tick \/ Upstream
    BY <2>4 DEF Tick, Upstream, calls
  <2>5. QED
    BY <2>1, <2>2, <2>3, <2>4 DEF Next, Settle
<1>3. WindowInv /\ [Next]_vars /\
        [(\E c \in Calls : RespondFine(c) \/ RespondNotNow(c)) => state # "open"]_vars =>
          WindowInv'
  <2>1. WindowInv /\ UNCHANGED vars => WindowInv'
    BY DEF vars, WindowInv
  <2>2. QED
    BY <2>1, WindowStep
<1>4. QED
  BY <1>1, <1>2, <1>3, TypeCorrect, PTL DEF Spec, NoLateSuccess, RefusesForResetMs

-----------------------------------------------------------------------------
(* LegacyForwarding *)

\* A body has a head in front of it; and an answer of the forwarder's own is
\* given when nothing can come from the legacy service any more.
HeadFirst ==
    /\ download # "none" => headersSent
    /\ status \in {502, 504} => outbound = "closed"
    /\ outbound # "none" => route = "forwarding"

ForwardInv == ForwardTypeOK /\ HeadFirst /\ WholeOrBroken

\* The steps of the client and of its socket keep the invariant.
LEMMA ClientSteps ==
    ASSUME ForwardInv,
           \/ PassOn \/ Forward \/ Disconnect \/ ServerTimeout
           \/ \E next \in {"sending", "sent"} : Upload(next)
    PROVE  ForwardInv'
<1> USE LegacyAssumption
<1>1. CASE PassOn \/ Forward
  <2>1. UNCHANGED <<path, prefixes, upload, client, timedOut, download, status, res, logged,
                    idle, quiet, callAge>>
    BY <1>1 DEF PassOn, Forward, call
  <2>2. /\ route = "arrived"
        /\ \/ route' = "next" /\ outbound' = outbound
           \/ route' = "forwarding" /\ outbound' = "open"
    BY <1>1 DEF PassOn, Forward, call
  <2>3. outbound = "none"
    BY <2>2 DEF ForwardInv, ForwardTypeOK, HeadFirst
  <2>4. QED
    BY <2>1, <2>2, <2>3 DEF ForwardInv, ForwardTypeOK, HeadFirst, WholeOrBroken, headersSent
<1>2. CASE Disconnect \/ ServerTimeout
  BY <1>2 DEF Disconnect, ServerTimeout, SocketCloses, Aborts, Leaves, ForwardInv, ForwardTypeOK,
     HeadFirst, WholeOrBroken, headersSent
<1>3. ASSUME NEW next \in {"sending", "sent"}, Upload(next) PROVE ForwardInv'
  BY <1>3 DEF Upload, Closed, ForwardInv, ForwardTypeOK, HeadFirst, WholeOrBroken, headersSent
<1>4. QED
  BY <1>1, <1>2, <1>3

\* So do the steps of the legacy service: what it sends comes before any
\* answer of the forwarder's own.
LEMMA LegacySteps ==
    ASSUME ForwardInv,
           \/ \E s \in LegacyStatuses : Respond(s)
           \/ Chunk \/ Complete \/ Fails \/ Truncates
    PROVE  ForwardInv'
<1> USE LegacyAssumption
<1>1. ASSUME NEW s \in LegacyStatuses, Respond(s) PROVE ForwardInv'
  <2>1. s \notin {502, 504} /\ s # NoStatus
    OBVIOUS
  <2>2. res # "ended"
    BY <1>1 DEF Respond, ForwardInv, HeadFirst, WholeOrBroken, headersSent
  <2>3. ForwardTypeOK'
    BY <1>1 DEF Respond, ForwardInv, ForwardTypeOK
  <2>4. QED
    BY <1>1, <2>1, <2>2, <2>3 DEF Respond, ForwardInv, HeadFirst, WholeOrBroken, headersSent
<1>2. CASE Chunk
  BY <1>2 DEF Chunk, call, ForwardInv, ForwardTypeOK, HeadFirst, WholeOrBroken, headersSent
<1>3. CASE Complete
  BY <1>3 DEF Complete, Closed, ForwardInv, ForwardTypeOK, HeadFirst, WholeOrBroken, headersSent
<1>4. CASE Fails \/ Truncates
  BY <1>4 DEF Fails, Truncates, ForwardInv, ForwardTypeOK, HeadFirst, WholeOrBroken,
     headersSent
<1>5. QED
  BY <1>1, <1>2, <1>3, <1>4

\* And so do the timers and the answer to an 'error'.
LEMMA TimerSteps ==
    ASSUME ForwardInv, Timeout \/ OnError \/ ForwardTick
    PROVE  ForwardInv'
<1> USE LegacyAssumption
<1>1. CASE Timeout
  BY <1>1 DEF Timeout, TimeoutDue, ForwardInv, ForwardTypeOK, HeadFirst, WholeOrBroken,
     headersSent
<1>2. CASE OnError
  <2>1. CASE headersSent
    <3>1. status' = status /\ res' = IF res = "open" THEN "destroyed" ELSE res
      BY <1>2, <2>1 DEF OnError, Reply
    <3>2. QED
      BY <1>2, <2>1, <3>1 DEF OnError, ForwardInv, ForwardTypeOK, HeadFirst, WholeOrBroken,
         headersSent
  <2>2. CASE ~headersSent
    <3>1. status' \in {502, 504} /\ res' = IF res = "open" THEN "ended" ELSE res
      BY <1>2, <2>2 DEF OnError, Reply
    <3>2. QED
      BY <1>2, <3>1 DEF OnError, ForwardInv, ForwardTypeOK, HeadFirst, WholeOrBroken,
         headersSent
  <2>3. QED
    BY <2>1, <2>2
<1>3. CASE ForwardTick
  <2>1. idle' \in 0..LegacyTimeoutMs
    BY <1>3 DEF ForwardTick, TimeoutDue, ForwardInv, ForwardTypeOK
  <2>2. quiet' \in 0..ServerTimeoutMs /\ callAge' \in 0..MaxAge
    BY <1>3 DEF ForwardTick, ForwardInv, ForwardTypeOK
  <2>3. QED
    BY <1>3, <2>1, <2>2 DEF ForwardTick, call, ForwardInv, ForwardTypeOK, HeadFirst,
       WholeOrBroken, headersSent
<1>4. QED
  BY <1>1, <1>2, <1>3

\* The invariant holds of every forwarded call.
LEMMA ForwardInvariant == ForwardSpec => []ForwardInv
<1>1. ForwardInit => ForwardInv
  <2> SUFFICES ASSUME ForwardInit PROVE ForwardInv
    OBVIOUS
  <2>1. 0 \in 0..LegacyTimeoutMs /\ 0 \in 0..ServerTimeoutMs /\ 0 \in 0..MaxAge
    BY LegacyAssumption
  <2>2. ForwardTypeOK
    BY <2>1 DEF ForwardInit, ForwardTypeOK
  <2>3. HeadFirst /\ WholeOrBroken
    BY LegacyAssumption DEF ForwardInit, HeadFirst, WholeOrBroken, headersSent
  <2>4. QED
    BY <2>2, <2>3 DEF ForwardInv
<1>2. ForwardInv /\ [ForwardNext]_forwardVars => ForwardInv'
  <2>1. ForwardInv /\ UNCHANGED forwardVars => ForwardInv'
    BY DEF forwardVars, call, ForwardInv, ForwardTypeOK, HeadFirst, WholeOrBroken, headersSent
  <2>2. ForwardInv /\ ForwardNext => ForwardInv'
    BY ClientSteps, LegacySteps, TimerSteps DEF ForwardNext
  <2>3. QED
    BY <2>1, <2>2
<1>3. QED
  BY <1>1, <1>2, PTL DEF ForwardSpec

\* Every variable of a forwarded call keeps its type; above all, the socket is
\* never idle for longer than legacy.timeoutMs.
THEOREM ForwardTypeCorrect == ForwardSpec => []ForwardTypeOK
<1>1. ForwardInv => ForwardTypeOK
  BY DEF ForwardInv
<1>2. QED
  BY <1>1, ForwardInvariant, PTL

\* Whenever the client leaves, the legacy service answers, stalls or breaks,
\* or a timer cuts either socket: a response that ends as if it were whole is
\* whole, or is the forwarder's own 502 or 504.
THEOREM NoCutBodyPasses == ForwardSpec => []WholeOrBroken
<1>1. ForwardInv => WholeOrBroken
  BY DEF ForwardInv
<1>2. QED
  BY <1>1, ForwardInvariant, PTL

\* A status that has gone out is never written over.
THEOREM OneStatus == ForwardSpec => StatusWrittenOnce
<1>1. ASSUME headersSent, [ForwardNext]_forwardVars PROVE status' = status
  <2>1. CASE OnError
    BY <1>1, <2>1 DEF OnError, Reply
  <2>2. ASSUME ~OnError PROVE status' = status
    BY <1>1, <2>2 DEF ForwardNext, forwardVars, call, PassOn, Forward, Upload, Disconnect,
       ServerTimeout, SocketCloses, Respond, Chunk, Complete, Fails, Truncates, Timeout,
       ForwardTick
  <2>3. QED
    BY <2>1, <2>2
<1>2. [ForwardNext]_forwardVars => [headersSent => status' = status]_forwardVars
  BY <1>1
<1>3. QED
  BY <1>2, PTL DEF ForwardSpec, StatusWrittenOnce

\* No client leaves, and none is cut, once its request has been read to its end.
ClientsStayForTheAnswer == [][client' # client => upload = "sending"]_forwardVars

\* The outbound socket of a client that has gone is not open, and a request that
\* has not arrived at the forwarder has its client.
AbandonedInv ==
    /\ client \in {"here", "gone"}
    /\ AbandonedCallIsDropped
    /\ route = "arrived" => client = "here"

\* "The client disconnecting mid-request must not leave the outbound socket
\* open" is true of every client that leaves during its upload: departure 11 is
\* the one that leaves after it.
THEOREM UploadersAreDropped ==
    ForwardSpec /\ ClientsStayForTheAnswer => []AbandonedCallIsDropped
<1>1. ForwardInit => AbandonedInv
  BY DEF ForwardInit, AbandonedInv, AbandonedCallIsDropped
<1>2. AbandonedInv /\ [ForwardNext]_forwardVars
        /\ [client' # client => upload = "sending"]_forwardVars => AbandonedInv'
  <2> SUFFICES ASSUME AbandonedInv, [ForwardNext]_forwardVars,
                      [client' # client => upload = "sending"]_forwardVars
               PROVE  AbandonedInv'
    OBVIOUS
  <2>1. CASE PassOn \/ Forward
    BY <2>1 DEF PassOn, Forward, call, AbandonedInv, AbandonedCallIsDropped
  <2>2. CASE Disconnect \/ ServerTimeout
    <3>1. client = "here" /\ client' = "gone" /\ route = "forwarding" /\ UNCHANGED route
      BY <2>2 DEF Disconnect, ServerTimeout, Cuttable, Over, SocketCloses
    <3>2. upload = "sending"
      BY <3>1 DEF forwardVars, call
    <3>3. QED
      BY <2>2, <3>1, <3>2 DEF Disconnect, ServerTimeout, SocketCloses, Aborts, Leaves, AbandonedInv,
                              AbandonedCallIsDropped
  <2>3. CASE \E next \in {"sending", "sent"} : Upload(next)
    BY <2>3 DEF Upload, AbandonedInv, AbandonedCallIsDropped
  <2>4. CASE \E s \in LegacyStatuses : Respond(s)
    BY <2>4 DEF Respond, AbandonedInv, AbandonedCallIsDropped
  <2>5. CASE Chunk \/ Complete \/ Fails \/ Truncates
    BY <2>5 DEF Chunk, Complete, Fails, Truncates, call, AbandonedInv, AbandonedCallIsDropped
  <2>6. CASE Timeout \/ OnError \/ ForwardTick \/ UNCHANGED forwardVars
    BY <2>6 DEF Timeout, OnError, ForwardTick, forwardVars, call, AbandonedInv,
                AbandonedCallIsDropped
  <2>7. QED
    BY <2>1, <2>2, <2>3, <2>4, <2>5, <2>6 DEF ForwardNext
<1>3. AbandonedInv => AbandonedCallIsDropped
  BY DEF AbandonedInv
<1>4. QED
  BY <1>1, <1>2, <1>3, PTL DEF ForwardSpec, ClientsStayForTheAnswer

\* The legacy service never ends its answer in an orderly way before its time.
NoOrderlyCut == [][~Truncates]_forwardVars

\* No client leaves, and none is cut, in its upload once the answer has begun.
UploadsAreFinished ==
    [][client' # client => upload = "sent" \/ ~headersSent]_forwardVars

\* "Failures log legacy.forward.failed": every failure does -- refused, reset,
\* stalled, left by a client that waits for its answer -- but two, which are
\* departure 12: the answer cut in an orderly way, and the one that had begun
\* when its client broke off the upload.
THEOREM EveryOtherFailureIsReported ==
    ForwardSpec /\ NoOrderlyCut /\ UploadsAreFinished => []FailureIsReported
<1>1. ForwardInit => FailureIsReported
  BY DEF ForwardInit, FailureIsReported
<1>2. FailureIsReported /\ [ForwardNext]_forwardVars /\ [~Truncates]_forwardVars
        /\ [client' # client => upload = "sent" \/ ~headersSent]_forwardVars =>
        FailureIsReported'
  <2> SUFFICES ASSUME FailureIsReported, [ForwardNext]_forwardVars, [~Truncates]_forwardVars,
                      [client' # client => upload = "sent" \/ ~headersSent]_forwardVars
               PROVE  FailureIsReported'
    OBVIOUS
  <2>1. CASE UNCHANGED <<outbound, download, logged>>
    BY <2>1 DEF FailureIsReported
  <2>2. CASE Forward \/ Disconnect \/ ServerTimeout \/ Fails \/ Timeout
    <3>1. CASE Forward \/ Fails \/ Timeout
      BY <3>1 DEF Forward, Fails, Timeout, FailureIsReported
    <3>2. CASE Disconnect \/ ServerTimeout
      <4>1. client = "here" /\ client' = "gone" /\ UNCHANGED logged
        BY <3>2 DEF Disconnect, ServerTimeout, Cuttable, SocketCloses
      <4>2. upload = "sent" \/ ~headersSent
        BY <4>1 DEF forwardVars, call
      <4>3. QED
        BY <3>2, <4>1, <4>2 DEF Disconnect, ServerTimeout, SocketCloses, Aborts, Leaves,
                                FailureIsReported
    <3>3. QED
      BY <2>2, <3>1, <3>2
  <2>3. CASE \E next \in {"sending", "sent"} : Upload(next)
    BY <2>3 DEF Upload, Closed, FailureIsReported
  <2>4. CASE (\E s \in LegacyStatuses : Respond(s)) \/ Complete \/ OnError
    BY <2>4 DEF Respond, Complete, Closed, OnError, FailureIsReported
  <2>5. CASE Truncates
    <3>1. UNCHANGED forwardVars
      BY <2>5
    <3>2. QED
      BY <3>1 DEF forwardVars, call, FailureIsReported
  <2>6. CASE PassOn \/ Chunk \/ ForwardTick \/ UNCHANGED forwardVars
    BY <2>1, <2>6 DEF PassOn, Chunk, ForwardTick, forwardVars, call
  <2>7. QED
    BY <2>2, <2>3, <2>4, <2>5, <2>6 DEF ForwardNext
<1>3. QED
  BY <1>1, <1>2, PTL DEF ForwardSpec, NoOrderlyCut, UploadsAreFinished

\* The body of the request comes with its head: nothing of it follows later.
BodyComesAtOnce ==
    [][(\E next \in {"sending", "sent"} : Upload(next)) => callAge = 0]_forwardVars

\* As long as nothing has been answered, the socket is idle for as long as the
\* call is old.
IdleFromTheStart ==
    /\ route = "forwarding" <=> outbound # "none"
    /\ outbound = "none" => callAge = 0
    /\ outbound = "open" /\ ~headersSent => callAge <= idle
    /\ outbound = "destroyed" /\ ~headersSent => callAge <= LegacyTimeoutMs
    /\ outbound = "closed" => headersSent

\* "a legacy call that outlives LEGACY_TIMEOUT_MS becomes 504" (decision 0013) is
\* true when the request came at once: a call that is older has its status or
\* has lost its client. Departure 10 needs a client that uploads on.
THEOREM RequestsAtOnceAreDecidedInTime ==
    ForwardSpec /\ BodyComesAtOnce => []DecidedInTime
<1> USE LegacyAssumption
<1>1. ForwardInit => IdleFromTheStart
  BY DEF ForwardInit, IdleFromTheStart, headersSent
<1>2. ForwardInv /\ IdleFromTheStart /\ [ForwardNext]_forwardVars
        /\ [(\E next \in {"sending", "sent"} : Upload(next)) => callAge = 0]_forwardVars =>
          IdleFromTheStart'
  <2> SUFFICES ASSUME ForwardInv, IdleFromTheStart, [ForwardNext]_forwardVars,
                      [(\E next \in {"sending", "sent"} : Upload(next)) =>
                          callAge = 0]_forwardVars
               PROVE  IdleFromTheStart'
    OBVIOUS
  <2>0. idle \in 0..LegacyTimeoutMs /\ callAge \in Nat
    BY DEF ForwardInv, ForwardTypeOK
  <2>1. CASE PassOn \/ Forward
    BY <2>0, <2>1 DEF PassOn, Forward, call, IdleFromTheStart, headersSent
  <2>2. CASE Disconnect \/ ServerTimeout
    BY <2>0, <2>2 DEF Disconnect, ServerTimeout, SocketCloses, Aborts, Leaves, IdleFromTheStart,
                      headersSent
  <2>3. ASSUME NEW next \in {"sending", "sent"}, Upload(next) PROVE IdleFromTheStart'
    <3>1. CASE UNCHANGED forwardVars
      BY <3>1 DEF forwardVars, call, IdleFromTheStart, headersSent
    <3>2. CASE callAge = 0
      BY <2>0, <2>3, <3>2 DEF Upload, Closed, ForwardInv, HeadFirst, IdleFromTheStart,
                              headersSent
    <3>3. QED
      BY <2>3, <3>1, <3>2
  <2>4. ASSUME NEW s \in LegacyStatuses, Respond(s) PROVE IdleFromTheStart'
    BY <2>4 DEF Respond, IdleFromTheStart, headersSent
  <2>5. CASE Chunk \/ Complete \/ Truncates
    BY <2>5 DEF Chunk, Complete, Closed, Truncates, call, ForwardInv, HeadFirst,
                IdleFromTheStart, headersSent
  <2>6. CASE Fails \/ Timeout
    BY <2>0, <2>6 DEF Fails, Timeout, TimeoutDue, IdleFromTheStart, headersSent
  <2>7. CASE OnError
    BY <2>7 DEF OnError, Reply, IdleFromTheStart, headersSent
  <2>8. CASE ForwardTick
    <3>1. route = "forwarding" /\ outbound # "none" /\ outbound # "destroyed"
      BY <2>8 DEF ForwardTick, Over, IdleFromTheStart
    <3>2. callAge' <= callAge + 1
      BY <2>0, <2>8 DEF ForwardTick
    <3>3. outbound = "open" => idle' = idle + 1
      BY <2>8 DEF ForwardTick
    <3>4. QED
      BY <2>0, <2>8, <3>1, <3>2, <3>3 DEF ForwardTick, call, IdleFromTheStart, headersSent,
                                          ForwardInv, ForwardTypeOK
  <2>9. CASE UNCHANGED forwardVars
    BY <2>9 DEF forwardVars, call, IdleFromTheStart, headersSent
  <2>10. QED
    BY <2>1, <2>2, <2>3, <2>4, <2>5, <2>6, <2>7, <2>8, <2>9 DEF ForwardNext
<1>3. ForwardInv /\ IdleFromTheStart => DecidedInTime
  BY DEF ForwardInv, ForwardTypeOK, IdleFromTheStart, DecidedInTime
<1>4. QED
  BY <1>1, <1>2, <1>3, ForwardInvariant, PTL DEF ForwardSpec, BodyComesAtOnce

-----------------------------------------------------------------------------
(* The paths of LegacyForwarding.  matchesLegacyPrefix compares characters,   *)
(* ForwardedIffListed segments: that the two agree is proved by induction     *)
(* over the path.  The induction theorems of the library take an operator,    *)
(* which the provers cannot instantiate; here they are stated for a set.      *)

\* The characters of a path.  That "/" is one is said apart: the provers do not
\* know it for a string.
Char == STRING \cup {"/"}

\* What PathInduction needs of the separator.
LEMMA SlashIsChar == "/" \in Char
  BY DEF Char

\* Induction over the natural numbers, for a set: were m not in S, subtracting
\* one would map the numbers up to m outside S into themselves without m, two of
\* them to the same number.
LEMMA SetInduction ==
    ASSUME NEW S, 0 \in S, \A n \in Nat : n \in S => n + 1 \in S
    PROVE  Nat \subseteq S
<1> SUFFICES ASSUME NEW m \in Nat, m \notin S PROVE FALSE
  OBVIOUS
<1> DEFINE T == (0..m) \ S
           U == T \ {m}
           f == [n \in T |-> n - 1]
<1>1. m \in T
  OBVIOUS
<1>2. IsFiniteSet(0..m)
  BY FS_Interval
<1>3. IsFiniteSet(T)
  BY <1>2, FS_Subset
<1>4. IsFiniteSet(U) /\ Cardinality(U) = Cardinality(T) - 1
  BY <1>1, <1>3, FS_RemoveElement
<1>5. Cardinality(T) \in Nat
  BY <1>3, FS_CardinalityType
<1>6. f \in [T -> U]
  <2> SUFFICES ASSUME NEW n \in T PROVE n - 1 \in U
    OBVIOUS
  <2>1. n \in Nat /\ n # 0 /\ n <= m
    OBVIOUS
  <2>2. n - 1 \in Nat /\ n - 1 <= m /\ n - 1 # m /\ (n - 1) + 1 = n
    BY <2>1
  <2>3. n - 1 \notin S
    BY <2>2
  <2>4. QED
    BY <2>2, <2>3
<1>7. PICK x, y \in T : x # y /\ f[x] = f[y]
  <2> HIDE DEF T, U, f
  <2>1. Cardinality(U) < Cardinality(T)
    BY <1>4, <1>5
  <2>2. QED
    BY <1>3, <1>4, <1>6, <2>1, FS_PigeonHole
<1>8. QED
  BY <1>7

\* Induction over paths: from a path to those with one more character.
LEMMA PathInduction ==
    ASSUME NEW S, <<>> \in S,
           \A p \in Seq(Char), c \in Char : p \in S => Append(p, c) \in S
    PROVE  Seq(Char) \subseteq S
<1> DEFINE L == {n \in Nat : \A p \in Seq(Char) : Len(p) = n => p \in S}
<1>1. 0 \in L
  BY EmptySeq
<1>2. ASSUME NEW n \in Nat, n \in L PROVE n + 1 \in L
  <2> SUFFICES ASSUME NEW p \in Seq(Char), Len(p) = n + 1 PROVE p \in S
    OBVIOUS
  <2>0. p # <<>>
    OBVIOUS
  <2>1. PICK q \in Seq(Char), c \in Char : p = Append(q, c)
    BY <2>0, SequenceEmptyOrAppend
  <2>2. Len(q) = n
    BY <2>1, AppendProperties, LenProperties
  <2>3. QED
    BY <1>2, <2>1, <2>2
<1>3. Nat \subseteq L
  <2> HIDE DEF L
  <2> QED BY <1>1, <1>2, SetInduction
<1>4. QED
  BY <1>3, LenProperties

\* f holds what is cut off p before each of its characters.
Reading(p, f) ==
    f = [n \in 0..Len(p) |->
            IF n = 0 THEN << <<>> >> ELSE Extended(f[n - 1], p[n])]

\* A path is read in one way.
LEMMA ReadingUnique ==
    ASSUME NEW p \in Seq(Char), NEW f, NEW g, Reading(p, f), Reading(p, g)
    PROVE  f = g
<1> DEFINE S == {n \in Nat : n <= Len(p) => f[n] = g[n]}
<1>0. /\ f = [n \in 0..Len(p) |-> IF n = 0 THEN << <<>> >> ELSE Extended(f[n - 1], p[n])]
      /\ g = [n \in 0..Len(p) |-> IF n = 0 THEN << <<>> >> ELSE Extended(g[n - 1], p[n])]
  BY DEF Reading
<1>l. Len(p) \in Nat
  BY LenProperties
<1>1. 0 \in S
  <2>1. 0 \in 0..Len(p)
    BY <1>l
  <2>2. f[0] = << <<>> >> /\ g[0] = << <<>> >>
    BY <1>0, <2>1
  <2>3. QED
    BY <2>2
<1>2. ASSUME NEW n \in Nat, n \in S PROVE n + 1 \in S
  <2> SUFFICES ASSUME n + 1 <= Len(p) PROVE f[n + 1] = g[n + 1]
    OBVIOUS
  <2>1. n + 1 \in 0..Len(p) /\ n + 1 # 0 /\ (n + 1) - 1 = n /\ n <= Len(p)
    BY <1>l
  <2>2. f[n] = g[n]
    BY <1>2, <2>1
  <2>3. /\ f[n + 1] = Extended(f[(n + 1) - 1], p[n + 1])
        /\ g[n + 1] = Extended(g[(n + 1) - 1], p[n + 1])
    BY <1>0, <2>1
  <2>4. QED
    BY <2>1, <2>2, <2>3
<1>3. Nat \subseteq S
  <2> HIDE DEF S
  <2> QED BY <1>1, <1>2, SetInduction
<1>4. \A n \in 0..Len(p) : f[n] = g[n]
  BY <1>3, <1>l
<1>5. /\ f = [n \in 0..Len(p) |-> f[n]]
      /\ g = [n \in 0..Len(p) |-> g[n]]
  BY <1>0
<1>6. QED
  BY <1>4, <1>5

\* A reading of p is one of p and another character, up to the last.
LEMMA ReadingExtends ==
    ASSUME NEW p \in Seq(Char), NEW c \in Char, NEW f, Reading(p, f)
    PROVE  \E g : /\ Reading(Append(p, c), g)
                  /\ g[Len(Append(p, c))] = Extended(f[Len(p)], c)
<1> DEFINE r == Append(p, c)
           g == [n \in 0..Len(r) |-> IF n <= Len(p) THEN f[n] ELSE Extended(f[Len(p)], c)]
<1>1. /\ Len(p) \in Nat /\ Len(r) = Len(p) + 1
      /\ \A n \in 1..Len(p) : r[n] = p[n]
      /\ r[Len(r)] = c
  <2>1. Len(p) \in Nat
    BY LenProperties
  <2>2. /\ Len(r) = Len(p) + 1
        /\ \A n \in 1..Len(p) : r[n] = p[n]
        /\ r[Len(p) + 1] = c
    BY AppendProperties
  <2>3. QED
    BY <2>1, <2>2
<1>2. f = [n \in 0..Len(p) |-> IF n = 0 THEN << <<>> >> ELSE Extended(f[n - 1], p[n])]
  BY DEF Reading
<1>3. ASSUME NEW n \in 0..Len(r)
      PROVE  g[n] = IF n = 0 THEN << <<>> >> ELSE Extended(g[n - 1], r[n])
  <2>1. CASE n = 0
    <3>1. g[0] = f[0]
      BY <1>1
    <3>2. f[0] = << <<>> >>
      BY <1>1, <1>2
    <3>3. QED
      BY <2>1, <3>1, <3>2
  <2>2. CASE n \in 1..Len(p)
    <3>1. n - 1 \in 0..Len(r) /\ n - 1 <= Len(p) /\ n \in 0..Len(p) /\ n # 0 /\ n <= Len(p)
      BY <1>1, <2>2
    <3>2. g[n] = f[n] /\ g[n - 1] = f[n - 1]
      BY <3>1
    <3>3. f[n] = Extended(f[n - 1], p[n])
      BY <1>2, <3>1
    <3>4. QED
      BY <1>1, <2>2, <3>1, <3>2, <3>3
  <2>3. CASE n = Len(r)
    <3>1. n # 0 /\ n - 1 = Len(p) /\ ~(n <= Len(p)) /\ n - 1 \in 0..Len(r)
      BY <1>1, <2>3
    <3>2. g[n] = Extended(f[Len(p)], c)
      BY <3>1
    <3>3. g[n - 1] = f[Len(p)]
      BY <1>1, <3>1
    <3>4. QED
      BY <1>1, <2>3, <3>1, <3>2, <3>3
  <2>4. QED
    BY <1>1, <2>1, <2>2, <2>3
<1>4. Reading(r, g)
  <2>1. g = [n \in 0..Len(r) |-> g[n]]
    OBVIOUS
  <2>2. [n \in 0..Len(r) |-> g[n]] =
          [n \in 0..Len(r) |-> IF n = 0 THEN << <<>> >> ELSE Extended(g[n - 1], r[n])]
    <3> HIDE DEF g, r
    <3> QED BY <1>3
  <2>3. QED
    <3> HIDE DEF g, r
    <3> QED BY <2>1, <2>2 DEF Reading
<1>5. g[Len(r)] = Extended(f[Len(p)], c)
  <2>1. Len(r) \in 0..Len(r) /\ ~(Len(r) <= Len(p))
    BY <1>1
  <2>2. QED
    <3> HIDE DEF r
    <3> QED BY <2>1
<1>6. QED
  BY <1>4, <1>5

\* Every path can be read: the function inside Pieces exists.
LEMMA ReadingExists ==
    ASSUME NEW p \in Seq(Char)
    PROVE  \E f : Reading(p, f)
<1> DEFINE S == {q \in Seq(Char) : \E f : Reading(q, f)}
<1>1. <<>> \in S
  <2> DEFINE f == [n \in 0..0 |-> << <<>> >>]
  <2>1. f = [n \in 0..Len(<<>>) |->
               IF n = 0 THEN << <<>> >> ELSE Extended(f[n - 1], <<>>[n])]
    BY EmptySeq
  <2>2. Reading(<<>>, f)
    BY <2>1 DEF Reading
  <2>3. QED
    BY <2>2, EmptySeq
<1>2. ASSUME NEW q \in Seq(Char), NEW c \in Char, q \in S
      PROVE  Append(q, c) \in S
  BY <1>2, ReadingExtends, AppendProperties
<1>3. Seq(Char) \subseteq S
  <2> HIDE DEF S
  <2> QED BY <1>1, <1>2, PathInduction
<1>4. QED
  BY <1>3

\* Pieces returns the end of the reading.
LEMMA PiecesRead ==
    ASSUME NEW p \in Seq(Char), NEW f, Reading(p, f)
    PROVE  Pieces(p) = f[Len(p)]
<1> DEFINE h == CHOOSE x : Reading(p, x)
<1>1. Reading(p, h)
  OBVIOUS
<1>2. Pieces(p) = h[Len(p)]
  BY DEF Pieces, Reading
<1>3. h = f
  <2> HIDE DEF h
  <2> QED BY <1>1, ReadingUnique
<1>4. QED
  BY <1>2, <1>3

\* The empty path is one empty piece.
LEMMA PiecesOfNothing == Pieces(<<>>) = << <<>> >>
<1>0. <<>> \in Seq(Char)
  BY EmptySeq
<1>1. PICK f : Reading(<<>>, f)
  BY <1>0, ReadingExists
<1>2. f[0] = << <<>> >>
  BY <1>1 DEF Reading
<1>3. QED
  BY <1>0, <1>1, <1>2, PiecesRead

\* A path with one more character is cut where the path was, and then extended.
LEMMA PiecesOfMore ==
    ASSUME NEW p \in Seq(Char), NEW c \in Char
    PROVE  Pieces(Append(p, c)) = Extended(Pieces(p), c)
<1>1. PICK f : Reading(p, f)
  BY ReadingExists
<1>2. PICK g : Reading(Append(p, c), g) /\ g[Len(Append(p, c))] = Extended(f[Len(p)], c)
  BY <1>1, ReadingExtends
<1>3. Append(p, c) \in Seq(Char)
  BY AppendProperties
<1>4. QED
  BY <1>1, <1>2, <1>3, PiecesRead

\* What IsPrefix says of the elements.
LEMMA PrefixMeans ==
    ASSUME NEW A, NEW s \in Seq(A), NEW t \in Seq(A)
    PROVE  IsPrefix(s, t) <=> Len(s) <= Len(t) /\ \A i \in 1..Len(s) : s[i] = t[i]
<1>1. Len(s) \in Nat /\ Len(t) \in Nat
  BY LenProperties
<1>2. SUFFICES ASSUME Len(s) <= Len(t)
               PROVE  SubSeq(s, 1, Len(s)) = SubSeq(t, 1, Len(s))
                        <=> \A i \in 1..Len(s) : s[i] = t[i]
  BY DEF IsPrefix
<1>3. \A i \in 1..Len(s) : s[i] \in A /\ t[i] \in A
  BY <1>1, <1>2, ElementOfSeq
<1>4. SubSeq(s, 1, Len(s)) = s
  BY SubSeqFull
<1> DEFINE u == SubSeq(t, 1, Len(s))
<1>5. u \in Seq(A) /\ Len(u) = Len(s) /\ \A i \in 1..Len(s) : u[i] = t[i]
  BY <1>1, <1>3, SubSeqProperties
<1>6. QED
  <2> HIDE DEF u
  <2>1. (\A i \in 1..Len(s) : s[i] = t[i]) => s = u
    BY <1>5, SeqEqual
  <2>2. QED
    BY <1>4, <1>5, <2>1

\* What begins a sequence with one more element begins it without, or is all of it.
LEMMA PrefixOfAppend ==
    ASSUME NEW A, NEW s \in Seq(A), NEW t \in Seq(A), NEW e \in A
    PROVE  IsPrefix(s, Append(t, e)) <=> IsPrefix(s, t) \/ s = Append(t, e)
<1> DEFINE r == Append(t, e)
<1>1. Len(s) \in Nat /\ Len(t) \in Nat
  BY LenProperties
<1>2. r \in Seq(A) /\ Len(r) = Len(t) + 1 /\ \A i \in 1..Len(t) : r[i] = t[i]
  BY AppendProperties
<1> HIDE DEF r
<1>3. IsPrefix(s, r) <=> Len(s) <= Len(r) /\ \A i \in 1..Len(s) : s[i] = r[i]
  BY <1>2, PrefixMeans
<1>4. IsPrefix(s, t) <=> Len(s) <= Len(t) /\ \A i \in 1..Len(s) : s[i] = t[i]
  BY PrefixMeans
<1>5. s = r <=> Len(s) = Len(r) /\ \A i \in 1..Len(s) : s[i] = r[i]
  BY <1>2, SeqEqual
<1>6. IsPrefix(s, t) => IsPrefix(s, r)
  BY <1>1, <1>2, <1>3, <1>4
<1>7. s = r => IsPrefix(s, r)
  BY <1>1, <1>3, <1>5
<1>8. IsPrefix(s, r) /\ Len(s) <= Len(t) => IsPrefix(s, t)
  BY <1>1, <1>2, <1>3, <1>4
<1>9. IsPrefix(s, r) /\ ~(Len(s) <= Len(t)) => s = r
  BY <1>1, <1>2, <1>3, <1>5
<1>10. QED
  BY <1>6, <1>7, <1>8, <1>9 DEF r

\* What begins a sequence whose last element has changed begins it before that
\* element, or is all of it.
LEMMA PrefixOfChangedLast ==
    ASSUME NEW A, NEW s \in Seq(A), NEW a \in Seq(A), NEW b \in Seq(A),
           a # <<>>, Len(a) = Len(b), \A i \in 1..(Len(a) - 1) : a[i] = b[i], a[Len(a)] # b[Len(a)]
    PROVE  IsPrefix(s, b) <=> s = b \/ (IsPrefix(s, a) /\ s # a)
<1>1. Len(s) \in Nat /\ Len(a) \in Nat \ {0}
  BY LenProperties, EmptySeq
<1>3. IsPrefix(s, b) <=> Len(s) <= Len(b) /\ \A i \in 1..Len(s) : s[i] = b[i]
  BY PrefixMeans
<1>4. IsPrefix(s, a) <=> Len(s) <= Len(a) /\ \A i \in 1..Len(s) : s[i] = a[i]
  BY PrefixMeans
<1>5. /\ s = b <=> Len(s) = Len(b) /\ \A i \in 1..Len(s) : s[i] = b[i]
      /\ s = a <=> Len(s) = Len(a) /\ \A i \in 1..Len(s) : s[i] = a[i]
  BY SeqEqual
<1>6. CASE Len(s) < Len(a)
  <2>1. 1..Len(s) \subseteq 1..(Len(a) - 1)
    BY <1>1, <1>6
  <2>2. (\A i \in 1..Len(s) : s[i] = b[i]) <=> (\A i \in 1..Len(s) : s[i] = a[i])
    BY <2>1
  <2>3. Len(s) # Len(a) /\ Len(s) <= Len(a)
    BY <1>1, <1>6
  <2>4. QED
    BY <1>3, <1>4, <1>5, <2>2, <2>3
<1>7. CASE Len(s) = Len(a)
  BY <1>1, <1>3, <1>4, <1>5, <1>7
<1>8. CASE Len(s) > Len(a)
  <2>1. ~(Len(s) <= Len(a)) /\ Len(s) # Len(a)
    BY <1>1, <1>8
  <2>2. QED
    BY <1>3, <1>4, <1>5, <2>1
<1>9. QED
  BY <1>1, <1>6, <1>7, <1>8

\* What Pieces returns: at least one piece.
PieceLists == Seq(Seq(Char)) \ {<<>>}

\* A slash opens a new, empty piece behind the others.
LEMMA ExtendedAtSlash ==
    ASSUME NEW l \in PieceLists
    PROVE  /\ Extended(l, "/") = Append(l, <<>>)
           /\ Extended(l, "/") \in PieceLists
           /\ Last(Extended(l, "/")) = <<>>
           /\ Front(Extended(l, "/")) = l
           /\ Len(Extended(l, "/")) = Len(l) + 1
<1> DEFINE e == Extended(l, "/")
<1>1. e = Append(l, <<>>) /\ l \in Seq(Seq(Char))
  BY DEF Extended, PieceLists
<1>2. <<>> \in Seq(Char)
  BY EmptySeq
<1>3. Len(l) \in Nat
  BY <1>1, LenProperties
<1>4. /\ e \in Seq(Seq(Char)) /\ e # <<>>
      /\ Len(e) = Len(l) + 1
      /\ \A i \in 1..Len(l) : e[i] = l[i]
      /\ e[Len(l) + 1] = <<>>
  <2> HIDE DEF e
  <2>1. /\ Append(l, <<>>) \in Seq(Seq(Char)) /\ Append(l, <<>>) # <<>>
        /\ Len(Append(l, <<>>)) = Len(l) + 1
        /\ \A i \in 1..Len(l) : Append(l, <<>>)[i] = l[i]
        /\ Append(l, <<>>)[Len(l) + 1] = <<>>
    <3> DEFINE T == Seq(Char)
    <3> HIDE DEF T
    <3>1. l \in Seq(T) /\ <<>> \in T
      BY <1>1, <1>2 DEF T
    <3>2. /\ Append(l, <<>>) \in Seq(T) /\ Append(l, <<>>) # <<>>
          /\ Len(Append(l, <<>>)) = Len(l) + 1
          /\ \A i \in 1..Len(l) : Append(l, <<>>)[i] = l[i]
          /\ Append(l, <<>>)[Len(l) + 1] = <<>>
      BY <3>1, AppendProperties
    <3>3. QED
      BY <3>2 DEF T
  <2>2. QED
    BY <1>1, <2>1
<1> HIDE DEF e
<1>5. Front(e) = l
  <2> DEFINE u == SubSeq(e, 1, Len(l))
  <2>0. Len(e) - 1 = Len(l)
    BY <1>3, <1>4
  <2>1. Front(e) = u
    BY <2>0 DEF Front
  <2>2. \A i \in 1..Len(l) : l[i] \in Seq(Char)
    BY <1>1, ElementOfSeq
  <2>3. u \in Seq(Seq(Char)) /\ Len(u) = Len(l) /\ \A i \in 1..Len(l) : u[i] = e[i]
    <3>1. \A i \in 1..Len(l) : e[i] \in Seq(Char)
      BY <1>4, <2>2
    <3>2. QED
      BY <1>3, <3>1, SubSeqProperties
  <2>4. u = l
    <3> HIDE DEF u
    <3> QED BY <1>1, <1>4, <2>3, SeqEqual
  <2>5. QED
    BY <2>1, <2>4
<1>6. QED
  BY <1>1, <1>4, <1>5 DEF PieceLists, Last, e

\* Any other character lengthens the last piece and leaves the others alone.
LEMMA ExtendedElsewhere ==
    ASSUME NEW l \in PieceLists, NEW c \in Char, c # "/"
    PROVE  /\ Extended(l, c) \in PieceLists
           /\ Len(Extended(l, c)) = Len(l)
           /\ \A i \in 1..(Len(l) - 1) : Extended(l, c)[i] = l[i]
           /\ Last(Extended(l, c)) = Append(Last(l), c)
           /\ Last(l) \in Seq(Char)
<1> DEFINE e == Extended(l, c)
           m == Append(l[Len(l)], c)
<1>1. l \in Seq(Seq(Char)) /\ l # <<>>
  BY DEF PieceLists
<1>2. Len(l) \in Nat \ {0}
  BY <1>1, EmptySeq
<1>3. Len(l) \in 1..Len(l)
  BY <1>2
<1>4. l[Len(l)] \in Seq(Char)
  BY <1>1, <1>3, ElementOfSeq
<1>5. m \in Seq(Char)
  BY <1>4, AppendProperties
<1>6. e = [l EXCEPT ![Len(l)] = m]
  BY DEF Extended
<1> HIDE DEF e, m
<1>7. /\ e \in Seq(Seq(Char))
      /\ Len(e) = Len(l)
      /\ \A j \in 1..Len(l) : e[j] = IF j = Len(l) THEN m ELSE l[j]
  BY <1>1, <1>3, <1>5, <1>6, ExceptSeq
<1>8. e # <<>>
  BY <1>2, <1>7, EmptySeq
<1>9. \A i \in 1..(Len(l) - 1) : e[i] = l[i]
  BY <1>2, <1>7
<1>10. e[Len(e)] = m
  BY <1>3, <1>7
<1>11. QED
  BY <1>4, <1>7, <1>8, <1>9, <1>10 DEF PieceLists, Last, e, m

\* What was read before a character, and the character, can be told from the pieces.
LEMMA ExtendedInjective ==
    ASSUME NEW a \in PieceLists, NEW b \in PieceLists, NEW c \in Char, NEW d \in Char,
           Extended(a, c) = Extended(b, d)
    PROVE  a = b /\ c = d
<1>0. /\ a \in Seq(Seq(Char)) /\ b \in Seq(Seq(Char))
      /\ Len(a) \in Nat \ {0} /\ Len(b) \in Nat \ {0}
  BY EmptySeq DEF PieceLists
<1>1. CASE c = "/" /\ d = "/"
  BY <1>1, ExtendedAtSlash
<1>2. CASE c = "/" /\ d # "/"
  <2>1. Append(Last(b), d) = <<>> /\ Last(b) \in Seq(Char)
    BY <1>2, ExtendedAtSlash, ExtendedElsewhere
  <2>2. QED
    BY <2>1, AppendProperties
<1>3. CASE c # "/" /\ d = "/"
  <2>1. Append(Last(a), c) = <<>> /\ Last(a) \in Seq(Char)
    BY <1>3, ExtendedAtSlash, ExtendedElsewhere
  <2>2. QED
    BY <2>1, AppendProperties
<1>4. CASE c # "/" /\ d # "/"
  <2>1. Len(a) = Len(b)
    BY <1>4, ExtendedElsewhere
  <2>2. \A i \in 1..(Len(a) - 1) : a[i] = b[i]
    <3>1. /\ \A i \in 1..(Len(a) - 1) : Extended(a, c)[i] = a[i]
          /\ \A i \in 1..(Len(b) - 1) : Extended(b, d)[i] = b[i]
      BY <1>4, ExtendedElsewhere
    <3>2. QED
      BY <2>1, <3>1
  <2>3. Append(Last(a), c) = Append(Last(b), d) /\ Last(a) \in Seq(Char) /\ Last(b) \in Seq(Char)
    BY <1>4, ExtendedElsewhere
  <2>4. Last(a) = Last(b) /\ c = d
    BY <2>3, AppendInjective
  <2>5. \A i \in 1..Len(a) : a[i] = b[i]
    <3>1. a[Len(a)] = b[Len(a)]
      BY <2>1, <2>4 DEF Last
    <3>2. QED
      BY <1>0, <2>2, <3>1
  <2>6. QED
    BY <1>0, <2>1, <2>4, <2>5, SeqEqual
<1>5. QED
  BY <1>1, <1>2, <1>3, <1>4

\* A path is cut into at least one piece.
LEMMA PiecesType == \A p \in Seq(Char) : Pieces(p) \in PieceLists
<1> DEFINE S == {p \in Seq(Char) : Pieces(p) \in PieceLists}
<1>1. <<>> \in S
  <2>1. <<>> \in Seq(Char)
    BY EmptySeq
  <2>2. << <<>> >> \in Seq(Seq(Char)) /\ << <<>> >> # <<>>
    BY <2>1
  <2>3. QED
    BY <2>1, <2>2, PiecesOfNothing DEF PieceLists
<1>2. ASSUME NEW p \in Seq(Char), NEW c \in Char, p \in S
      PROVE  Append(p, c) \in S
  <2>1. Pieces(Append(p, c)) = Extended(Pieces(p), c)
    BY PiecesOfMore
  <2>2. Extended(Pieces(p), c) \in PieceLists
    BY <1>2, ExtendedAtSlash, ExtendedElsewhere
  <2>3. QED
    BY <2>1, <2>2, AppendProperties
<1>3. Seq(Char) \subseteq S
  <2> HIDE DEF S
  <2> QED BY <1>1, <1>2, PathInduction
<1>4. QED
  BY <1>3

\* Different paths are cut into different pieces.
LEMMA PiecesInjective ==
    \A p \in Seq(Char) : \A q \in Seq(Char) : Pieces(p) = Pieces(q) => p = q
<1> DEFINE S == {p \in Seq(Char) : \A q \in Seq(Char) : Pieces(p) = Pieces(q) => p = q}
<1>1. ASSUME NEW p \in Seq(Char), NEW c \in Char
      PROVE  Pieces(Append(p, c)) # << <<>> >>
  <2>1. Pieces(p) \in PieceLists /\ Pieces(Append(p, c)) = Extended(Pieces(p), c)
    BY PiecesType, PiecesOfMore
  <2>2. Len(Pieces(p)) \in Nat \ {0}
    BY <2>1, EmptySeq DEF PieceLists
  <2>3. CASE c = "/"
    <3>1. Len(Pieces(Append(p, c))) = Len(Pieces(p)) + 1
      BY <2>1, <2>3, ExtendedAtSlash
    <3>2. Len(<< <<>> >>) = 1
      OBVIOUS
    <3>3. Len(Pieces(Append(p, c))) # 1
      BY <2>2, <3>1
    <3>4. QED
      BY <3>2, <3>3
  <2>4. CASE c # "/"
    <3>1. Last(Pieces(Append(p, c))) = Append(Last(Pieces(p)), c) /\ Last(Pieces(p)) \in Seq(Char)
      BY <2>1, <2>4, ExtendedElsewhere
    <3>2. Last(Pieces(Append(p, c))) # <<>>
      BY <3>1, AppendProperties
    <3>3. Last(<< <<>> >>) = <<>>
      BY DEF Last
    <3>4. QED
      BY <3>2, <3>3
  <2>5. QED
    BY <2>3, <2>4
<1>2. <<>> \in S
  <2> SUFFICES ASSUME NEW q \in Seq(Char), Pieces(<<>>) = Pieces(q) PROVE <<>> = q
    BY EmptySeq
  <2>1. CASE q # <<>>
    <3>1. PICK r \in Seq(Char), d \in Char : q = Append(r, d)
      BY <2>1, SequenceEmptyOrAppend
    <3>2. QED
      BY <1>1, <3>1, PiecesOfNothing
  <2>2. QED
    BY <2>1
<1>3. ASSUME NEW p \in Seq(Char), NEW c \in Char, p \in S
      PROVE  Append(p, c) \in S
  <2> SUFFICES ASSUME NEW q \in Seq(Char), Pieces(Append(p, c)) = Pieces(q)
               PROVE  Append(p, c) = q
    BY AppendProperties
  <2>1. q # <<>>
    BY <1>1, PiecesOfNothing
  <2>2. PICK r \in Seq(Char), d \in Char : q = Append(r, d)
    BY <2>1, SequenceEmptyOrAppend
  <2>3. Extended(Pieces(p), c) = Extended(Pieces(r), d)
    BY <2>2, PiecesOfMore
  <2>4. Pieces(p) = Pieces(r) /\ c = d
    <3>1. Pieces(p) \in PieceLists /\ Pieces(r) \in PieceLists
      BY PiecesType
    <3>2. QED
      BY <2>3, <3>1, ExtendedInjective
  <2>5. QED
    BY <1>3, <2>2, <2>4
<1>4. Seq(Char) \subseteq S
  <2> HIDE DEF S
  <2> QED BY <1>2, <1>3, PathInduction
<1>5. QED
  BY <1>4

\* PieceLists, for the lemmas about sequences.
LEMMA SequenceOfLists ==
    ASSUME NEW l \in PieceLists
    PROVE  l \in Seq(Seq(Char)) /\ l # <<>> /\ Len(l) \in Nat \ {0}
<1>1. l \in Seq(Seq(Char)) /\ l # <<>>
  BY DEF PieceLists
<1>2. QED
  BY <1>1, EmptySeq

\* The pieces of t begin those of p exactly when p is t, or goes on behind t with a
\* slash: what target.startsWith(`${normalizedPrefix}/`) asks of the characters.
LEMMA PiecesPrefix ==
    ASSUME NEW p \in Seq(Char), NEW t \in Seq(Char)
    PROVE  IsPrefix(Pieces(t), Pieces(p)) <=> t = p \/ IsPrefix(Append(t, "/"), p)
<1> DEFINE Meets(u, q) == IsPrefix(Pieces(u), Pieces(q)) <=> u = q \/ IsPrefix(Append(u, "/"), q)
           S == {q \in Seq(Char) : \A u \in Seq(Char) : Meets(u, q)}
<1>1. <<>> \in S
  <2>1. <<>> \in Seq(Char)
    BY EmptySeq
  <2> SUFFICES ASSUME NEW u \in Seq(Char) PROVE Meets(u, <<>>)
    BY <2>1
  <2>2. Pieces(u) \in Seq(Seq(Char)) /\ Len(Pieces(u)) \in Nat \ {0}
    BY PiecesType, SequenceOfLists
  <2>3. Pieces(<<>>) \in Seq(Seq(Char)) /\ Len(Pieces(<<>>)) = 1
    BY <2>1, PiecesType, SequenceOfLists, PiecesOfNothing
  <2>5. IsPrefix(Pieces(u), Pieces(<<>>)) <=> Pieces(u) = Pieces(<<>>)
    <3> DEFINE a == Pieces(u)
               b == Pieces(<<>>)
               T == Seq(Char)
    <3>1. a \in Seq(T) /\ b \in Seq(T) /\ Len(a) \in Nat \ {0} /\ Len(b) = 1
      BY <2>2, <2>3
    <3> HIDE DEF a, b, T
    <3>2. IsPrefix(a, b) <=> Len(a) <= Len(b) /\ \A i \in 1..Len(a) : a[i] = b[i]
      BY <3>1, PrefixMeans
    <3>3. a = b <=> Len(a) = Len(b) /\ \A i \in 1..Len(a) : a[i] = b[i]
      BY <3>1, SeqEqual
    <3>4. IsPrefix(a, b) <=> a = b
      <4>1. CASE Len(a) = 1
        BY <3>1, <3>2, <3>3, <4>1
      <4>2. CASE Len(a) # 1
        <5>1. ~(Len(a) <= Len(b)) /\ Len(a) # Len(b)
          BY <3>1, <4>2
        <5>2. QED
          BY <3>2, <3>3, <5>1
      <4>3. QED
        BY <4>1, <4>2
    <3>5. QED
      BY <3>4 DEF a, b
  <2>6. Pieces(u) = Pieces(<<>>) <=> u = <<>>
    BY <2>1, PiecesInjective
  <2>7. ~IsPrefix(Append(u, "/"), <<>>)
    <3>1. Append(u, "/") \in Seq(Char) /\ Len(Append(u, "/")) = Len(u) + 1 /\ Len(u) \in Nat
      BY SlashIsChar, AppendProperties, LenProperties
    <3>2. ~(Len(Append(u, "/")) <= Len(<<>>))
      BY <3>1
    <3>3. QED
      BY <3>2 DEF IsPrefix
  <2>8. QED
    BY <2>5, <2>6, <2>7
<1>2. ASSUME NEW q \in Seq(Char), NEW c \in Char, q \in S
      PROVE  Append(q, c) \in S
  <2> DEFINE r == Append(q, c)
  <2>1. r \in Seq(Char)
    BY AppendProperties
  <2> SUFFICES ASSUME NEW u \in Seq(Char) PROVE Meets(u, r)
    BY <2>1
  <2>2. Meets(u, q)
    BY <1>2
  <2>3. /\ Pieces(q) \in PieceLists /\ Pieces(u) \in PieceLists /\ Pieces(r) \in PieceLists
        /\ Pieces(r) = Extended(Pieces(q), c)
    BY <2>1, PiecesType, PiecesOfMore
  <2>4. /\ Pieces(u) = Pieces(r) <=> u = r
        /\ Pieces(u) = Pieces(q) <=> u = q
    BY <2>1, PiecesInjective
  <2>5. Append(u, "/") \in Seq(Char)
    BY SlashIsChar, AppendProperties
  <2>6. IsPrefix(Append(u, "/"), r) <=> IsPrefix(Append(u, "/"), q) \/ Append(u, "/") = r
    BY <2>5, PrefixOfAppend
  <2>7. Append(u, "/") = r <=> u = q /\ c = "/"
    BY SlashIsChar, AppendInjective
  <2>8. u = q => ~IsPrefix(Append(u, "/"), q)
    <3>1. Len(Append(u, "/")) = Len(u) + 1 /\ Len(u) \in Nat
      BY SlashIsChar, AppendProperties, LenProperties
    <3>2. ~(Len(Append(u, "/")) <= Len(u))
      BY <3>1
    <3>3. QED
      BY <3>2 DEF IsPrefix
  <2>9. CASE c = "/"
    <3>1. Pieces(r) = Append(Pieces(q), <<>>)
      BY <2>3, <2>9, ExtendedAtSlash
    <3>2. IsPrefix(Pieces(u), Pieces(r)) <=> IsPrefix(Pieces(u), Pieces(q)) \/ Pieces(u) = Pieces(r)
      <4> DEFINE T == Seq(Char)
      <4>1. Pieces(u) \in Seq(T) /\ Pieces(q) \in Seq(T) /\ <<>> \in T
        BY <2>3, SequenceOfLists, EmptySeq
      <4> HIDE DEF T
      <4>2. QED
        BY <3>1, <4>1, PrefixOfAppend
    <3>3. QED
      BY <2>2, <2>4, <2>6, <2>7, <2>9, <3>2
  <2>10. CASE c # "/"
    <3>1. IsPrefix(Pieces(u), Pieces(r)) <=>
            Pieces(u) = Pieces(r) \/ (IsPrefix(Pieces(u), Pieces(q)) /\ Pieces(u) # Pieces(q))
      <4> DEFINE a == Pieces(q)
                 b == Pieces(r)
      <4>0. a \in PieceLists /\ b = Extended(a, c)
        BY <2>3
      <4> HIDE DEF a, b
      <4>1. /\ Len(b) = Len(a)
            /\ \A i \in 1..(Len(a) - 1) : b[i] = a[i]
            /\ Last(b) = Append(Last(a), c)
            /\ Last(a) \in Seq(Char)
        BY <2>10, <4>0, ExtendedElsewhere
      <4>2. Last(b) # Last(a)
        <5>1. Len(Append(Last(a), c)) = Len(Last(a)) + 1 /\ Len(Last(a)) \in Nat
          BY <4>1, AppendProperties, LenProperties
        <5>2. Append(Last(a), c) # Last(a)
          BY <5>1
        <5>3. QED
          BY <4>1, <5>2
      <4>3. a[Len(a)] # b[Len(a)]
        BY <4>1, <4>2 DEF Last
      <4>4. a \in Seq(Seq(Char)) /\ b \in Seq(Seq(Char)) /\ a # <<>> /\ Pieces(u) \in Seq(Seq(Char))
        BY <2>3, SequenceOfLists DEF a, b
      <4> DEFINE w == Pieces(u)
                 T == Seq(Char)
      <4>8. a \in Seq(T) /\ b \in Seq(T) /\ w \in Seq(T)
        BY <4>4
      <4>7. a # <<>>
        BY <4>4
      <4> HIDE DEF w, T
      <4>9. IsPrefix(w, b) <=> w = b \/ (IsPrefix(w, a) /\ w # a)
        BY <4>1, <4>3, <4>7, <4>8, PrefixOfChangedLast
      <4>5. IsPrefix(Pieces(u), b) <=> Pieces(u) = b \/ (IsPrefix(Pieces(u), a) /\ Pieces(u) # a)
        BY <4>9 DEF w
      <4>6. QED
        BY <4>5 DEF a, b
    <3>2. QED
      BY <2>2, <2>4, <2>6, <2>7, <2>8, <2>10, <3>1
  <2>11. QED
    BY <2>9, <2>10
<1>3. Seq(Char) \subseteq S
  <2> HIDE DEF S
  <2> QED BY <1>1, <1>2, PathInduction
<1>4. QED
  BY <1>3

\* normalize() cuts what the segments leave out, of every path but "/".
LEMMA SegmentsArePieces ==
    ASSUME NEW p \in Seq(Char), p # <<>>, p # <<"/">>
    PROVE  /\ Segments(p) = Pieces(normalize(p))
           /\ normalize(p) \in Seq(Char)
           /\ normalize(p) # <<>>
           /\ normalize(p)[1] = p[1]
<1>1. PICK b \in Seq(Char), c \in Char : p = Append(b, c)
  BY SequenceEmptyOrAppend
<1>2. /\ Len(p) = Len(b) + 1 /\ Len(b) \in Nat
      /\ \A i \in 1..Len(b) : p[i] = b[i]
      /\ p[Len(b) + 1] = c
  BY <1>1, AppendProperties, LenProperties
<1>3. Last(p) = c
  BY <1>2 DEF Last
<1>4. Pieces(b) \in PieceLists /\ Pieces(p) = Extended(Pieces(b), c)
  BY <1>1, PiecesType, PiecesOfMore
<1>5. CASE c = "/"
  <2>1. b # <<>>
    <3>1. Append(<<>>, "/") = <<"/">>
      OBVIOUS
    <3>2. QED
      BY <1>1, <1>5, <3>1
  <2>2. Len(b) \in Nat \ {0}
    BY <2>1, EmptySeq
  <2>3. Front(p) = b
    <3> DEFINE u == SubSeq(p, 1, Len(b))
    <3>1. \A i \in 1..Len(b) : p[i] \in Char
      BY <1>2, ElementOfSeq
    <3>2. u \in Seq(Char) /\ Len(u) = Len(b) /\ \A i \in 1..Len(b) : u[i] = p[i]
      BY <1>2, <3>1, SubSeqProperties
    <3>3. Front(p) = u
      BY <1>2 DEF Front
    <3> HIDE DEF u
    <3>4. u = b
      BY <1>2, <3>2, SeqEqual
    <3>5. QED
      BY <3>3, <3>4
  <2>4. normalize(p) = b
    BY <1>2, <1>3, <1>5, <2>2, <2>3 DEF normalize
  <2>5. Segments(p) = Pieces(b)
    BY <1>4, <1>5, ExtendedAtSlash DEF Segments
  <2>6. p[1] = b[1]
    BY <1>2, <2>2
  <2>7. QED
    BY <2>1, <2>4, <2>5, <2>6
<1>6. CASE c # "/"
  <2>1. normalize(p) = p
    BY <1>3, <1>6 DEF normalize
  <2>2. Last(Pieces(p)) = Append(Last(Pieces(b)), c) /\ Last(Pieces(b)) \in Seq(Char)
    BY <1>4, <1>6, ExtendedElsewhere
  <2>3. Last(Pieces(p)) # <<>>
    BY <2>2, AppendProperties
  <2>4. QED
    BY <2>1, <2>3 DEF Segments
<1>7. QED
  BY <1>5, <1>6

\* normalize() keeps the bare slash, whose segments are those of every rooted path.
LEMMA SegmentsOfRoot ==
    /\ Segments(<<"/">>) = Pieces(<<>>)
    /\ Segments(<<>>) = <<>>
    /\ normalize(<<"/">>) = <<"/">>
    /\ normalize(<<>>) = <<>>
<1>1. <<>> \in Seq(Char) /\ Append(<<>>, "/") = <<"/">>
  BY EmptySeq
<1>2. Pieces(<<"/">>) = Extended(Pieces(<<>>), "/") /\ Pieces(<<>>) \in PieceLists
  BY <1>1, SlashIsChar, PiecesOfMore, PiecesType
<1>3. Segments(<<"/">>) = Pieces(<<>>)
  BY <1>2, ExtendedAtSlash DEF Segments
<1>4. Segments(<<>>) = <<>>
  <2>1. Last(<< <<>> >>) = <<>> /\ Front(<< <<>> >>) = <<>>
    BY DEF Last, Front
  <2>2. QED
    BY <2>1, PiecesOfNothing DEF Segments
<1>5. QED
  BY <1>3, <1>4 DEF normalize

\* One prefix of the list: the test of the characters is the test of the segments.
LEMMA OnePrefix ==
    ASSUME NEW p \in Seq(Char),
           NEW q \in Seq(Char), q # <<>>, normalize(q) # <<"/">>
    PROVE  IsPrefix(Segments(q), Segments(p)) <=>
             \/ normalize(p) = normalize(q)
             \/ IsPrefix(Append(normalize(q), "/"), normalize(p))
<1> DEFINE n == normalize(q)
<1>1. q # <<"/">>
  BY SegmentsOfRoot
<1>2. Segments(q) = Pieces(n) /\ n \in Seq(Char) /\ n # <<>>
  BY <1>1, SegmentsArePieces
<1>3. Len(Append(n, "/")) = Len(n) + 1 /\ Len(n) \in Nat \ {0}
  BY <1>2, SlashIsChar, AppendProperties, EmptySeq
<1>4. CASE p \notin {<<>>, <<"/">>}
  <2>1. Segments(p) = Pieces(normalize(p)) /\ normalize(p) \in Seq(Char)
    BY <1>4, SegmentsArePieces
  <2>2. QED
    BY <1>2, <2>1, PiecesPrefix
<1>5. CASE p = <<"/">>
  <2> HIDE DEF n
  <2>0. <<>> \in Seq(Char) /\ Len(<<>>) = 0 /\ Len(<<"/">>) = 1
    BY EmptySeq
  <2>1. Segments(p) = Pieces(<<>>) /\ normalize(p) = <<"/">>
    BY <1>5, SegmentsOfRoot
  <2>2. ~IsPrefix(Append(n, "/"), <<>>) /\ ~IsPrefix(Append(n, "/"), <<"/">>)
    <3>1. ~(Len(Append(n, "/")) <= 0) /\ ~(Len(Append(n, "/")) <= 1)
      BY <1>3
    <3>2. QED
      BY <2>0, <3>1 DEF IsPrefix
  <2>3. ~IsPrefix(Pieces(n), Pieces(<<>>))
    BY <1>2, <2>0, <2>2, PiecesPrefix
  <2>4. n # <<"/">>
    BY DEF n
  <2>5. QED
    BY <1>2, <2>1, <2>2, <2>3, <2>4 DEF n
<1>6. CASE p = <<>>
  <2> HIDE DEF n
  <2>1. Segments(p) = <<>> /\ normalize(p) = <<>> /\ Len(<<>>) = 0
    BY <1>6, SegmentsOfRoot
  <2>2. Len(Pieces(n)) \in Nat \ {0}
    BY <1>2, PiecesType, SequenceOfLists
  <2>3. ~(Len(Append(n, "/")) <= 0) /\ ~(Len(Pieces(n)) <= 0)
    BY <1>3, <2>2
  <2>4. ~IsPrefix(Append(n, "/"), <<>>) /\ ~IsPrefix(Pieces(n), <<>>)
    BY <2>1, <2>3 DEF IsPrefix
  <2>5. QED
    BY <1>2, <2>1, <2>4 DEF n
<1>7. QED
  BY <1>4, <1>5, <1>6

\* No prefix is "/" or "//", which normalize() turns into the bare slash that it
\* keeps (README, departure 9).
NoBareSlash == \A l \in PrefixLists : \A q \in l : normalize(q) # <<"/">>

\* The path is below a prefix of the list.
Listed(p, l) == \E q \in l : IsPrefix(Segments(q), Segments(p))

\* What the configuration and the requests hand to the forwarder.
LEMMA PathsAreTexts ==
    /\ \A p \in Paths : p \in Seq(Char)
    /\ \A l \in PrefixLists : \A q \in l : q \in Seq(Char) /\ q # <<>>
<1>1. Seq(STRING) \subseteq Seq(Char)
  BY SeqMonotonic DEF Char
<1>2. QED
  BY <1>1, LegacyAssumption

\* matchesLegacyPrefix, for every path and every list of prefixes.
LEMMA MatchesWhatIsListed ==
    ASSUME NoBareSlash, NEW p \in Paths, NEW l \in PrefixLists
    PROVE  matchesLegacyPrefix(p, l) <=> Listed(p, l)
<1>1. \A q \in l : IsPrefix(Segments(q), Segments(p)) <=>
                      \/ normalize(p) = normalize(q)
                      \/ IsPrefix(Append(normalize(q), "/"), normalize(p))
  BY PathsAreTexts, OnePrefix DEF NoBareSlash
<1>2. QED
  BY <1>1 DEF matchesLegacyPrefix, Listed

\* The middleware has taken the way that matchesLegacyPrefix gave for the path.
RouteInv ==
    /\ path \in Paths /\ prefixes \in PrefixLists
    /\ route \in {"arrived", "next", "forwarding"}
    /\ route = "forwarding" => matchesLegacyPrefix(path, prefixes)
    /\ route = "next" => ~matchesLegacyPrefix(path, prefixes)

\* The request keeps its path and its way.
LEMMA RouteInvariant == ForwardSpec => []RouteInv
<1>1. ForwardInit => RouteInv
  BY DEF ForwardInit, RouteInv
<1>2. RouteInv /\ [ForwardNext]_forwardVars => RouteInv'
  <2> SUFFICES ASSUME RouteInv, [ForwardNext]_forwardVars PROVE RouteInv'
    OBVIOUS
  <2>1. UNCHANGED <<path, prefixes>>
    BY DEF ForwardNext, forwardVars, PassOn, Forward, Upload, Disconnect, ServerTimeout,
           SocketCloses,
           Respond, Chunk, Complete, Fails, Truncates, Timeout, OnError, ForwardTick
  <2>2. CASE UNCHANGED route
    BY <2>1, <2>2 DEF RouteInv
  <2>3. CASE PassOn
    BY <2>1, <2>3 DEF PassOn, RouteInv
  <2>4. CASE Forward
    BY <2>1, <2>4 DEF Forward, RouteInv
  <2>5. PassOn \/ Forward \/ UNCHANGED route
    BY DEF ForwardNext, forwardVars, Upload, Disconnect, ServerTimeout, SocketCloses,
           Respond, Chunk, Complete, Fails, Truncates, Timeout, OnError, ForwardTick
  <2>6. QED
    BY <2>2, <2>3, <2>4, <2>5
<1>3. QED
  BY <1>1, <1>2, PTL DEF ForwardSpec

\* For every path and every list of prefixes without a bare slash: a request goes to
\* the legacy service exactly when the segments of its path begin with those of a
\* listed prefix, whatever the trailing slashes of either, and never because a prefix
\* ends inside a segment.
THEOREM RoutingFollowsSegments ==
    ASSUME NoBareSlash
    PROVE  ForwardSpec => []ForwardedIffListed
<1>1. RouteInv => ForwardedIffListed
  BY MatchesWhatIsListed DEF RouteInv, ForwardedIffListed, Listed
<1>2. QED
  BY <1>1, RouteInvariant, PTL

\* The comment of matchesLegacyPrefix, "A prefix matches itself and its sub-paths",
\* is true of every list without a bare slash: departure 9 needs one.
THEOREM SubPathsAreForwarded ==
    ASSUME NoBareSlash
    PROVE  ForwardSpec => []SubPathsForwarded
<1>1. RouteInv => SubPathsForwarded
  BY MatchesWhatIsListed DEF RouteInv, SubPathsForwarded, Listed
<1>2. QED
  BY <1>1, RouteInvariant, PTL
=============================================================================
