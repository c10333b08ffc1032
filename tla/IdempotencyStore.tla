-------------------------- MODULE IdempotencyStore --------------------------
(***************************************************************************)
(* The idempotency interceptor over the in-memory store.                   *)
(*                                                                         *)
(*   IdempotencyInterceptor.intercept   src/interface/http/interceptors/   *)
(*   InMemoryIdempotencyStore           src/infrastructure/database/       *)
(*                                          idempotency/                   *)
(*                                                                         *)
(* One Node process serves many requests.  The store's methods run to the  *)
(* end without yielding, so claiming is one step together with the part of *)
(* intercept() that acts on the outcome; between the claim and the settled *)
(* handler any other request may run.  A record carries no owner:          *)
(* complete() and release() address it by key alone.                       *)
(*                                                                         *)
(* A response (status and body) is named by the request whose handler      *)
(* produced it.  The clock counts units of Date.now().                     *)
(***************************************************************************)
EXTENDS Naturals

CONSTANTS
    Requests,       \* requests that reach the interceptor, each one once
    Keys,           \* values of the Idempotency-Key header
    Fingerprints,   \* SHA-256 of method + path + raw body
    NoRequest,      \* "no request", "no response"
    NoFingerprint,  \* fingerprint of a request that has not arrived
    NoKey,          \* key of a request that has not arrived, or sent none
    Absent,         \* what Map.get returns for a key without a record
    Ttl,            \* idempotency.ttlMs
    InProgressTtl,  \* idempotency.inProgressTtlMs
    HandlerMax,     \* longest time a handler that settles takes to settle
    MaxTime         \* bound of the clock

\* The schema of idempotency.ttlMs and inProgressTtlMs: integers >= 1.
ASSUME TtlAssumption == Ttl \in Nat \ {0} /\ InProgressTtl \in Nat \ {0}

\* The bounds of the instance.
ASSUME BoundAssumption == HandlerMax \in Nat /\ MaxTime \in Nat

VARIABLES
    now,        \* Date.now()
    records,    \* InMemoryIdempotencyStore.records
    phase,      \* phase[r]: where request r is in intercept()
    key,        \* key[r]: its key
    fp,         \* fp[r]: its fingerprint
    claimed,    \* claimed[r]: when its claim was granted
    outcome,    \* outcome[r]: how r ended
    served      \* served[r]: whose response r received

vars == <<now, records, phase, key, fp, claimed, outcome, served>>

ClaimRecord ==
    [fingerprint: Fingerprints, state: {"in_progress", "completed"},
     claimedAt: Nat, expiresAt: Nat, body: Requests \cup {NoRequest}]

\* The model values that stand for "nothing" are nothing else.
ASSUME SentinelAssumption ==
    /\ NoRequest \notin Requests
    /\ NoKey \notin Keys
    /\ NoFingerprint \notin Fingerprints
    /\ Absent \notin ClaimRecord

Phases == {"new", "running", "hung", "done"}
Outcomes == {"none", "plain", "missing_key", "mismatch", "in_progress",
             "replay", "completed", "failed"}

\* Types of the state.
TypeOK ==
    /\ now \in Nat
    /\ records \in [Keys -> ClaimRecord \cup {Absent}]
    /\ phase \in [Requests -> Phases]
    /\ key \in [Requests -> Keys \cup {NoKey}]
    /\ fp \in [Requests -> Fingerprints \cup {NoFingerprint}]
    /\ claimed \in [Requests -> Nat]
    /\ outcome \in [Requests -> Outcomes]
    /\ served \in [Requests -> Requests \cup {NoRequest}]

Init ==
    /\ now = 0
    /\ records = [k \in Keys |-> Absent]
    /\ phase = [r \in Requests |-> "new"]
    /\ key = [r \in Requests |-> NoKey]
    /\ fp = [r \in Requests |-> NoFingerprint]
    /\ claimed = [r \in Requests |-> 0]
    /\ outcome = [r \in Requests |-> "none"]
    /\ served = [r \in Requests |-> NoRequest]

-----------------------------------------------------------------------------
(* claim(), complete(), release() of the store *)

\* The record claim() writes, on a free key and on an abandoned one.
FreshClaim(f) ==
    [fingerprint |-> f, state |-> "in_progress",
     claimedAt |-> now, expiresAt |-> now + Ttl, body |-> NoRequest]

\* `!existing || existing.expiresAt <= now`
MutVacantEarly(k) == records[k] # Absent => records[k].expiresAt <= now + 1
Vacant(k) == records[k] # Absent => records[k].expiresAt <= now

Matches(k, f) == records[k].fingerprint = f

\* `now - existing.claimedAt > this.inProgressTtlMs`
MutAbandonedAtOnce(k) ==
    records[k].state = "in_progress" /\ now >= records[k].claimedAt
Abandoned(k) ==
    /\ records[k].state = "in_progress"
    /\ now > records[k].claimedAt + InProgressTtl

\* claim() answers "claimed".
Claimable(k, f) == ~Vacant(k) => Matches(k, f) /\ Abandoned(k)

\* complete(key, status, body): whatever record the key has now.
MutCompleteKeepsState(r) == [records EXCEPT ![key[r]] = FreshClaim(fp[r])]
Complete(r) ==
    IF records[key[r]] = Absent THEN records
    ELSE [records EXCEPT ![key[r]].state = "completed", ![key[r]].body = r]

\* release(key): the record goes, whoever claimed it.
Release(r) == [records EXCEPT ![key[r]] = Absent]

-----------------------------------------------------------------------------
(* intercept() *)

\* r reaches the interceptor with key k and fingerprint f.
Arrive(r, k, f) ==
    /\ phase[r] = "new"
    /\ key' = [key EXCEPT ![r] = k]
    /\ fp' = [fp EXCEPT ![r] = f]

\* r is answered without running its handler.
Answer(r, how, from) ==
    /\ phase' = [phase EXCEPT ![r] = "done"]
    /\ outcome' = [outcome EXCEPT ![r] = how]
    /\ served' = [served EXCEPT ![r] = from]
    /\ UNCHANGED <<now, records, claimed>>

\* The route is not @Idempotent(): next.handle() with no record of it.
PassThrough(r) ==
    /\ Arrive(r, NoKey, NoFingerprint)
    /\ Answer(r, "plain", NoRequest)

\* No header, or one isSafeCorrelationId refuses: 400.
MissingKey(r) ==
    /\ Arrive(r, NoKey, NoFingerprint)
    /\ Answer(r, "missing_key", NoRequest)

\* The store answers "claimed": the handler of r starts.
Claim(r, k, f) ==
    /\ Arrive(r, k, f)
    /\ Claimable(k, f)
    /\ records' = [records EXCEPT ![k] = FreshClaim(f)]
    /\ claimed' = [claimed EXCEPT ![r] = now]
    /\ phase' = [phase EXCEPT ![r] = "running"]
    /\ UNCHANGED <<now, outcome, served>>

\* 422: the key is taken by a request with another fingerprint.
Mismatch(r, k, f) ==
    /\ Arrive(r, k, f)
    /\ ~Vacant(k)
    /\ ~Matches(k, f)
    /\ Answer(r, "mismatch", NoRequest)

\* 409: the first request with this key is still running.
InProgress(r, k, f) ==
    /\ Arrive(r, k, f)
    /\ ~Vacant(k)
    /\ Matches(k, f)
    /\ records[k].state = "in_progress"
    /\ ~Abandoned(k)
    /\ Answer(r, "in_progress", NoRequest)

\* The stored response is sent again.
Replay(r, k, f) ==
    /\ Arrive(r, k, f)
    /\ ~Vacant(k)
    /\ Matches(k, f)
    /\ records[k].state = "completed"
    /\ Answer(r, "replay", records[k].body)

\* The handler's value passes concatMap and is not a failed Result.
Succeed(r) ==
    /\ phase[r] = "running"
    /\ records' = Complete(r)
    /\ phase' = [phase EXCEPT ![r] = "done"]
    /\ outcome' = [outcome EXCEPT ![r] = "completed"]
    /\ served' = [served EXCEPT ![r] = r]
    /\ UNCHANGED <<now, key, fp, claimed>>

\* The handler returns a failed Result, or throws into catchError.
Fail(r) ==
    /\ phase[r] = "running"
    /\ records' = Release(r)
    /\ phase' = [phase EXCEPT ![r] = "done"]
    /\ outcome' = [outcome EXCEPT ![r] = "failed"]
    /\ UNCHANGED <<now, key, fp, claimed, served>>

\* The handler awaits something that never settles: no complete(), no release().
Hang(r) ==
    /\ phase[r] = "running"
    /\ phase' = [phase EXCEPT ![r] = "hung"]
    /\ UNCHANGED <<now, records, key, fp, claimed, outcome, served>>

\* Time passes, but a handler that will settle does so within HandlerMax.
Tick ==
    /\ now < MaxTime
    /\ \A r \in Requests : phase[r] = "running" => now < claimed[r] + HandlerMax
    /\ now' = now + 1
    /\ UNCHANGED <<records, phase, key, fp, claimed, outcome, served>>

Next ==
    \/ \E r \in Requests :
          \/ PassThrough(r)
          \/ MissingKey(r)
          \/ Succeed(r)
          \/ Fail(r)
          \/ Hang(r)
          \/ \E k \in Keys, f \in Fingerprints :
                \/ Claim(r, k, f)
                \/ Mismatch(r, k, f)
                \/ InProgress(r, k, f)
                \/ Replay(r, k, f)
    \/ Tick

Spec == Init /\ [][Next]_vars

-----------------------------------------------------------------------------
(* Properties *)

\* The assumption the properties below need and the code does not enforce:
\* a handler settles before its claim counts as abandoned or expires.
TimelyHandlers == HandlerMax <= InProgressTtl /\ HandlerMax < Ttl

\* The handler of r was started by a granted claim.
Ran(r) == phase[r] \in {"running", "hung"} \/ outcome[r] \in {"completed", "failed"}

\* Two handlers that are going to settle never run at once for one key,
\* although the record says nothing about who claimed it.
OneRunningHandler ==
    \A r, s \in Requests :
        phase[r] = "running" /\ phase[s] = "running" /\ key[r] = key[s] => r = s

\* "Executes at most once per key": once a handler has succeeded, no handler
\* for its key starts until the record's life of Ttl is over.
AtMostOncePerTtl ==
    \A r, s \in Requests :
        (r # s /\ outcome[r] = "completed" /\ Ran(s) /\ key[r] = key[s])
            => claimed[s] <= claimed[r] \/ claimed[s] >= claimed[r] + Ttl

\* A replayed response was produced by a handler that succeeded, for the
\* same key and the same request bytes.
ReplayFaithful ==
    \A r \in Requests :
        outcome[r] = "replay" =>
            \E o \in Requests :
                /\ served[r] = o
                /\ outcome[o] = "completed"
                /\ key[o] = key[r]
                /\ fp[o] = fp[r]

\* A stored response stays as it is until it expires: no late complete() or
\* release() of another request touches it.
StoredResponseStable ==
    [][\A k \in Keys :
          (records[k] # Absent /\ records[k].state = "completed" /\ records[k].expiresAt > now)
              => records'[k] = records[k]]_vars

-----------------------------------------------------------------------------
(* The store and the interceptor implement the contract *)

\* Who owns or filled the key, as a client could tell.
SlotOf(k) ==
    IF \E r \in Requests : phase[r] = "running" /\ key[r] = k
    THEN LET r == CHOOSE x \in Requests : phase[x] = "running" /\ key[x] = k
         IN [state |-> "owned", fingerprint |-> fp[r], by |-> r]
    ELSE IF ~Vacant(k) /\ records[k].state = "completed"
    THEN [state |-> "stored", fingerprint |-> records[k].fingerprint, by |-> records[k].body]
    ELSE [state |-> "free", fingerprint |-> NoFingerprint, by |-> NoRequest]

Contract == INSTANCE IdempotencyContract
                WITH slot <- [k \in Keys |-> SlotOf(k)], served <- served

\* Every behaviour of interceptor and store is one the contract allows.
ImplementsContract == Contract!Spec
=============================================================================
