------------------------------- MODULE BootPing -------------------------------
(***************************************************************************)
(* The pings at boot: every implemented source is pinged, at most Limit of *)
(* them at a time, with retries; a required source that does not answer    *)
(* aborts the boot.                                                        *)
(*                                                                         *)
(*   PoolManager.pingAll   src/infrastructure/database/connection/pool.manager.ts *)
(*   ConnectionProvider    src/infrastructure/database/connection/connection.provider.ts *)
(***************************************************************************)
EXTENDS Semaphore

CONSTANTS
    Placeholders,   \* configured sources whose dialect is not implemented
    Unknown,        \* names of no configured source
    UserSources,    \* sources with contextUser.enabled and contextUser.required
    Retries         \* database.health.maxRetries

ASSUME BootAssumption == Retries \in Nat /\ UserSources \subseteq Tasks

VARIABLES
    required,   \* database.health.requiredSources, any names
    called,     \* sources whose ping has been handed to the semaphore
    attempt,    \* attempt[k]: failed pings of source k
    answered,   \* sources that answered a ping
    failures,   \* DbHealthFailure of these sources
    boot        \* how the boot went

bootVars == <<count, queue, stage, required, called, attempt, answered, failures, boot>>

\* The implemented sources are the tasks of the semaphore.
Implemented == Tasks

\* Types of the state.
BootTypeOK ==
    /\ SemaphoreTypeOK
    /\ required \subseteq Implemented \cup Placeholders \cup Unknown
    /\ called \subseteq Implemented
    /\ attempt \in [Implemented -> 0..Retries]
    /\ answered \subseteq called
    /\ failures \subseteq Implemented \cup Placeholders
    /\ boot \in {"starting", "pinging", "up", "aborted"}

\* reqSet: an empty list means every implemented source.
reqSet == IF required # {} THEN required ELSE Implemented

\* Placeholders cannot be pinged: they fail if they are required.
BootInit ==
    /\ SemaphoreInit
    /\ required \in SUBSET (Implemented \cup Placeholders \cup Unknown)
    /\ called = {}
    /\ attempt = [k \in Implemented |-> 0]
    /\ answered = {}
    /\ failures = Placeholders \cap reqSet
    /\ boot = "starting"

\* Promise.all calls with() for one source after the other before anything
\* else can happen.
CallPing(k) ==
    /\ boot = "starting"
    /\ k \notin called
    /\ Call(k)
    /\ called' = called \cup {k}
    /\ UNCHANGED <<required, attempt, answered, failures, boot>>

AllCalled ==
    /\ boot = "starting"
    /\ called = Implemented
    /\ boot' = "pinging"
    /\ UNCHANGED <<semaphore, required, called, attempt, answered, failures>>

ResumePing(k) ==
    /\ boot = "pinging"
    /\ Resume(k)
    /\ UNCHANGED <<required, called, attempt, answered, failures, boot>>

\* OracleClient.ping passes withConnection no context user: resolveContextUser
\* refuses it on a source that requires one, before anything is sent.
Pingable(k) == k \notin UserSources

\* ping() answered.
PingAnswers(k) ==
    /\ boot = "pinging"
    /\ Pingable(k)
    /\ Leave(k)
    /\ answered' = answered \cup {k}
    /\ UNCHANGED <<required, called, attempt, failures, boot>>

\* ping() failed, or was refused, and a retry is left: the slot is kept during the backoff.
MutMayRetry(k) == TRUE
MayRetry(k) == attempt[k] < Retries

PingRetries(k) ==
    /\ boot = "pinging"
    /\ stage[k] = "running"
    /\ MayRetry(k)
    /\ attempt' = [attempt EXCEPT ![k] = @ + 1]
    /\ UNCHANGED <<semaphore, required, called, answered, failures, boot>>

\* The failures once source k has failed for good: only a required one counts.
MutFailed(k) == failures
Failed(k) == failures \cup ({k} \cap reqSet)

\* ping() failed for the last time.
PingFails(k) ==
    /\ boot = "pinging"
    /\ ~MayRetry(k)
    /\ Leave(k)
    /\ failures' = Failed(k)
    /\ UNCHANGED <<required, called, attempt, answered, boot>>

\* Promise.all is done: AggregateDbHealthError, or the boot goes on.
Decide ==
    /\ boot = "pinging"
    /\ In("idle") = Implemented
    /\ boot' = IF failures = {} THEN "up" ELSE "aborted"
    /\ UNCHANGED <<semaphore, required, called, attempt, answered, failures>>

BootNext ==
    \/ \E k \in Implemented :
          \/ CallPing(k)
          \/ ResumePing(k)
          \/ PingAnswers(k)
          \/ PingRetries(k)
          \/ PingFails(k)
    \/ AllCalled
    \/ Decide

BootSpec == BootInit /\ [][BootNext]_bootVars

(***************************************************************************)
(* A ping answers or fails (its round trip has a callTimeout), woken       *)
(* waiters go on, and so does the boot.                                    *)
(***************************************************************************)
BootFairness ==
    /\ WF_bootVars(AllCalled)
    /\ WF_bootVars(Decide)
    /\ \A k \in Implemented :
          /\ WF_bootVars(CallPing(k))
          /\ WF_bootVars(ResumePing(k))
          /\ WF_bootVars(PingAnswers(k) \/ PingRetries(k) \/ PingFails(k))

BootLiveSpec == BootSpec /\ BootFairness

-----------------------------------------------------------------------------
(* Properties *)

\* The boot goes on only if every required source that is configured has
\* answered, and is aborted only because one of them used up its attempts.
BootIsSound ==
    /\ boot = "up" =>
          reqSet \cap Implemented \subseteq answered /\ reqSet \cap Placeholders = {}
    /\ boot = "aborted" =>
          \/ reqSet \cap Placeholders # {}
          \/ \E k \in reqSet \cap Implemented : k \notin answered /\ attempt[k] = Retries

\* "If a required source fails, boot aborts": a boot that goes on has heard
\* from every source it was told to require.
\* The code does not keep this: README, departure 7.
RequiredAnswered == boot = "up" => required \subseteq answered

\* "If a required source fails, boot aborts" (database.md), with the sample
\* configuration.md:254-258 gives, a required source that requires a context
\* user: a boot is aborted only by a source that cannot be used, a placeholder
\* or one whose database did not answer.
\* The code does not keep this: README, departure 8.
AbortMeansSilence ==
    boot = "aborted" =>
        \E k \in reqSet : k \in Placeholders \/ (k \notin answered /\ Pingable(k))

\* No ping is forgotten in the queue: the boot is decided.
BootIsDecided == <>(boot \in {"up", "aborted"})
=============================================================================
