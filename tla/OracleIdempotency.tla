------------------------- MODULE OracleIdempotency -------------------------
(***************************************************************************)
(* The idempotency interceptor over the Oracle store: requests of several  *)
(* worker processes share one table.                                       *)
(*                                                                         *)
(*   OracleIdempotencyStore   src/infrastructure/database/idempotency/     *)
(*   IdempotencyInterceptor   src/interface/http/interceptors/             *)
(*                                                                         *)
(* claim() is one transaction of several statements: purge, INSERT, and if *)
(* the key exists SELECT and perhaps UPDATE.  Oracle runs it READ          *)
(* COMMITTED: a statement sees committed rows, writes lock rows until the  *)
(* transaction ends, and an INSERT waits for an undecided row of its key.  *)
(* The last write of a transaction and its COMMIT are one step (nobody can *)
(* see the difference); the rows a purge has deleted stay locked from the  *)
(* purge to the end of the claim.  complete() and release() are a          *)
(* transaction of one statement each.                                      *)
(*                                                                         *)
(* Each of these calls may reject: because nothing was committed, or       *)
(* because the answer to a COMMIT that took effect was lost.               *)
(***************************************************************************)
EXTENDS Naturals, FiniteSets

CONSTANTS
    Requests,       \* requests that reach the interceptor, each one once
    Keys,           \* values of the Idempotency-Key header
    Fingerprints,   \* SHA-256 of method + path + raw body
    NoRequest,      \* "no request", "no response"
    NoFingerprint,  \* fingerprint of a request that has not arrived
    NoKey,          \* key of a request that has not arrived
    NoRow,          \* a SELECT that finds nothing
    Ttl,            \* idempotency.ttlMs
    InProgressTtl,  \* idempotency.inProgressTtlMs
    RequestMax,     \* longest time from a claim's timestamp to its last COMMIT
    TakeoversOverlap, \* may others touch an abandoned row between a claim's
                    \* SELECT of it and its UPDATE?
    Faults,         \* what may fail: the process, and which of the Calls
    Lost,           \* the calls whose COMMIT may take effect and yet reject
    MaxFaults,      \* bound on the number of failures
    MaxTime         \* bound of the clock

ASSUME OracleTtlAssumption == Ttl \in Nat \ {0} /\ InProgressTtl \in Nat \ {0}
ASSUME OracleBoundAssumption ==
    /\ RequestMax \in Nat /\ MaxFaults \in Nat /\ MaxTime \in Nat
    /\ TakeoversOverlap \in BOOLEAN

\* The calls of the store: release() is made by concatMap for a failed Result
\* ("release") and by catchError for every error ("discard").
Calls == {"claim", "complete", "release", "discard"}

ASSUME OracleFaultAssumption == Faults \subseteq Calls \cup {"crash"} /\ Lost \subseteq Calls

VARIABLES
    now,        \* the clock of the application and of SYSTIMESTAMP
    table,      \* the committed rows
    purged,     \* purged[r]: rows deleted, not committed, by r's claim
    phase,      \* phase[r]: where r is in intercept() and claimOn()
    key, fp,    \* key[r], fp[r]: what r asked for
    stamp,      \* stamp[r]: `now` of claimOn()
    effect,     \* effect[r]: the handler of r succeeded
    outcome,    \* outcome[r]: how r ended
    served,     \* served[r]: whose response r received
    faults      \* failures so far

reqvars == <<key, fp, stamp, effect, outcome, served>>
vars == <<now, table, purged, phase, key, fp, stamp, effect, outcome, served, faults>>

Row == [fingerprint: Fingerprints, state: {"in_progress", "completed"},
        createdAt: Nat, expiresAt: Nat, body: Requests \cup {NoRequest}]

ASSUME OracleSentinelAssumption ==
    /\ NoRequest \notin Requests /\ NoKey \notin Keys
    /\ NoFingerprint \notin Fingerprints /\ NoRow \notin Row

ClaimPhases == {"purge", "insert", "select", "reinsert", "takeover"}
OwnerPhases == {"running", "completing", "releasing", "discarding"}
Phases == {"new", "crashed", "done"} \cup ClaimPhases \cup OwnerPhases
Outcomes == {"none", "error", "mismatch", "in_progress", "replay", "completed", "failed"}

\* Types of the state.
TypeOK ==
    /\ now \in 0..MaxTime
    /\ table \in [Keys -> Row \cup {NoRow}]
    /\ purged \in [Requests -> SUBSET Keys]
    /\ phase \in [Requests -> Phases]
    /\ key \in [Requests -> Keys \cup {NoKey}]
    /\ fp \in [Requests -> Fingerprints \cup {NoFingerprint}]
    /\ stamp \in [Requests -> Nat]
    /\ effect \in [Requests -> BOOLEAN]
    /\ outcome \in [Requests -> Outcomes]
    /\ served \in [Requests -> Requests \cup {NoRequest}]
    /\ faults \in 0..MaxFaults

Init ==
    /\ now = 0
    /\ table = [k \in Keys |-> NoRow]
    /\ purged = [r \in Requests |-> {}]
    /\ phase = [r \in Requests |-> "new"]
    /\ key = [r \in Requests |-> NoKey]
    /\ fp = [r \in Requests |-> NoFingerprint]
    /\ stamp = [r \in Requests |-> 0]
    /\ effect = [r \in Requests |-> FALSE]
    /\ outcome = [r \in Requests |-> "none"]
    /\ served = [r \in Requests |-> NoRequest]
    /\ faults = 0

-----------------------------------------------------------------------------
(* Transactions *)

\* A write of r to the row of k waits: another open claim has deleted it.
LockedFor(r, k) == \E s \in Requests \ {r} : k \in purged[s]

\* Another claim has read the row of k as abandoned and not yet updated it.
\* Without TakeoversOverlap nobody else writes or reads it so meanwhile.
BeingTakenOver(r, k) == \E s \in Requests \ {r} : phase[s] = "takeover" /\ key[s] = k

\* The COMMIT of r's claim: its deletes, and what it wrote to its own key.
CommitRow(r, row) ==
    /\ table' = [k \in Keys |-> IF k = key[r] THEN row
                                ELSE IF k \in purged[r] THEN NoRow ELSE table[k]]
    /\ purged' = [purged EXCEPT ![r] = {}]

\* The COMMIT of a claim that wrote nothing but its purge.
CommitPurge(r) ==
    /\ table' = [k \in Keys |-> IF k \in purged[r] THEN NoRow ELSE table[k]]
    /\ purged' = [purged EXCEPT ![r] = {}]

FreshRow(r) ==
    [fingerprint |-> fp[r], state |-> "in_progress", createdAt |-> stamp[r],
     expiresAt |-> stamp[r] + Ttl, body |-> NoRequest]

-----------------------------------------------------------------------------
(* claim() *)

Fault(kind) ==
    /\ kind \in Faults
    /\ faults < MaxFaults
    /\ faults' = faults + 1

\* The COMMIT of the claim took effect, but claim() rejects: the row is in
\* progress, no handler runs, and the request gets 500.
AnswerLost(r) ==
    /\ "claim" \in Lost
    /\ Fault("claim")
    /\ phase' = [phase EXCEPT ![r] = "done"]
    /\ outcome' = [outcome EXCEPT ![r] = "error"]

\* intercept() calls claim(), which opens a transaction.
Begin(r, k, f) ==
    /\ phase[r] = "new"
    /\ key' = [key EXCEPT ![r] = k]
    /\ fp' = [fp EXCEPT ![r] = f]
    /\ phase' = [phase EXCEPT ![r] = "purge"]
    /\ UNCHANGED <<now, table, purged, stamp, effect, outcome, served, faults>>

\* Rows `expires_at < SYSTIMESTAMP`.
MutExpired(r) == {k \in Keys : table[k] # NoRow}
Expired(r) == {k \in Keys : table[k] # NoRow /\ table[k].expiresAt < now}

\* purgeExpired(): the limit of 100 rows may leave any of the rows in place,
\* because rows of other keys count too.  Then `now = new Date()`.
PurgeExpired(r) ==
    /\ phase[r] = "purge"
    /\ \E doomed \in SUBSET Expired(r) :
          /\ \A k \in doomed :
                /\ ~LockedFor(r, k)
                /\ BeingTakenOver(r, k) => TakeoversOverlap
          /\ purged' = [purged EXCEPT ![r] = doomed]
    /\ stamp' = [stamp EXCEPT ![r] = now]
    /\ phase' = [phase EXCEPT ![r] = "insert"]
    /\ UNCHANGED <<now, table, key, fp, effect, outcome, served, faults>>

\* The transaction of r sees no row of its key.
KeyFree(r) == table[key[r]] = NoRow \/ key[r] \in purged[r]

\* The handler of r may start, unless the answer is lost.
Granted(r) ==
    /\ \/ phase' = [phase EXCEPT ![r] = "running"] /\ UNCHANGED <<outcome, faults>>
       \/ AnswerLost(r)
    /\ UNCHANGED <<now, key, fp, stamp, effect, served>>

\* tryInsert(): the row is new.
Insert(r) ==
    /\ phase[r] = "insert"
    /\ ~LockedFor(r, key[r])
    /\ KeyFree(r)
    /\ CommitRow(r, FreshRow(r))
    /\ Granted(r)

\* tryInsert(): ORA-00001.
InsertConflict(r) ==
    /\ phase[r] = "insert"
    /\ ~LockedFor(r, key[r])
    /\ ~KeyFree(r)
    /\ phase' = [phase EXCEPT ![r] = "select"]
    /\ UNCHANGED <<now, table, purged, faults>>
    /\ UNCHANGED reqvars

\* claim() returns without the key, unless the answer is lost.
Refused(r, how, from) ==
    /\ CommitPurge(r)
    /\ \/ /\ phase' = [phase EXCEPT ![r] = "done"]
          /\ outcome' = [outcome EXCEPT ![r] = how]
          /\ served' = [served EXCEPT ![r] = from]
          /\ UNCHANGED faults
       \/ AnswerLost(r) /\ UNCHANGED served
    /\ UNCHANGED <<now, key, fp, stamp, effect>>

\* `Date.now() - row.CREATED_AT.getTime() <= this.inProgressTtlMs` fails.
MutStale(row) == row.state = "in_progress"
Stale(row) == row.state = "in_progress" /\ now > row.createdAt + InProgressTtl

\* selectRow() finds nothing: the row was deleted since the INSERT failed.
SelectNothing(r) ==
    /\ phase[r] = "select"
    /\ table[key[r]] = NoRow
    /\ phase' = [phase EXCEPT ![r] = "reinsert"]
    /\ UNCHANGED <<now, table, purged, faults>>
    /\ UNCHANGED reqvars

\* selectRow() finds an abandoned claim: the UPDATE comes next.
SelectStale(r) ==
    /\ phase[r] = "select"
    /\ BeingTakenOver(r, key[r]) => TakeoversOverlap
    /\ LockedFor(r, key[r]) => TakeoversOverlap
    /\ table[key[r]] # NoRow
    /\ table[key[r]].fingerprint = fp[r]
    /\ Stale(table[key[r]])
    /\ phase' = [phase EXCEPT ![r] = "takeover"]
    /\ UNCHANGED <<now, table, purged, faults>>
    /\ UNCHANGED reqvars

\* selectRow() finds a row of other bytes, a live claim or a response.
MutSelectRefused(r) ==
    /\ phase[r] = "select"
    /\ table[key[r]] # NoRow
    /\ LET row == table[key[r]]
       IN \/ row.state = "in_progress" /\ Refused(r, "in_progress", NoRequest)
          \/ row.state = "completed" /\ Refused(r, "replay", row.body)
SelectRefused(r) ==
    /\ phase[r] = "select"
    /\ table[key[r]] # NoRow
    /\ LET row == table[key[r]]
       IN \/ row.fingerprint # fp[r] /\ Refused(r, "mismatch", NoRequest)
          \/ /\ row.fingerprint = fp[r] /\ row.state = "in_progress" /\ ~Stale(row)
             /\ Refused(r, "in_progress", NoRequest)
          \/ /\ row.fingerprint = fp[r] /\ row.state = "completed"
             /\ Refused(r, "replay", row.body)

\* The second INSERT: taken again in the meantime, its ORA-00001 is not caught.
Reinsert(r) ==
    /\ phase[r] = "reinsert"
    /\ ~LockedFor(r, key[r])
    /\ KeyFree(r)
    /\ CommitRow(r, FreshRow(r))
    /\ Granted(r)

\* The UPDATE by key, whatever the row is now; it may hit no row at all.
Takeover(r) ==
    /\ phase[r] = "takeover"
    /\ ~LockedFor(r, key[r])
    /\ CommitRow(r, IF table[key[r]] = NoRow THEN NoRow ELSE FreshRow(r))
    /\ Granted(r)

\* The claim throws: its transaction is rolled back and the request gets 500.
Abort(r) ==
    /\ purged' = [purged EXCEPT ![r] = {}]
    /\ phase' = [phase EXCEPT ![r] = "done"]
    /\ outcome' = [outcome EXCEPT ![r] = "error"]
    /\ UNCHANGED <<now, table, key, fp, stamp, effect, served>>

ReinsertConflict(r) ==
    /\ phase[r] = "reinsert"
    /\ ~LockedFor(r, key[r])
    /\ ~KeyFree(r)
    /\ Abort(r)
    /\ UNCHANGED faults

-----------------------------------------------------------------------------
(* The handler, complete() and release() *)

\* The handler ends; its business effect, if any, is committed.
HandlerSucceeds(r) ==
    /\ phase[r] = "running"
    /\ phase' = [phase EXCEPT ![r] = "completing"]
    /\ effect' = [effect EXCEPT ![r] = TRUE]
    /\ UNCHANGED <<now, table, purged, key, fp, stamp, outcome, served, faults>>

\* It returns a failed Result, or throws.
HandlerFails(r) ==
    /\ phase[r] = "running"
    /\ \E next \in {"releasing", "discarding"} : phase' = [phase EXCEPT ![r] = next]
    /\ UNCHANGED <<now, table, purged, faults>>
    /\ UNCHANGED reqvars

\* UPDATE ... WHERE key, whosever row it is; it may hit none.
MutFill(r) ==
    table' = IF table[key[r]] = NoRow THEN table
             ELSE [table EXCEPT ![key[r]].state = "completed"]
Fill(r) ==
    table' = IF table[key[r]] = NoRow THEN table
             ELSE [table EXCEPT ![key[r]].state = "completed", ![key[r]].body = r]

\* DELETE ... WHERE key, whosever row it is.
Delete(r) == table' = [table EXCEPT ![key[r]] = NoRow]

\* complete(), and the response goes out.
Complete(r) ==
    /\ phase[r] = "completing"
    /\ ~LockedFor(r, key[r])
    /\ Fill(r)
    /\ phase' = [phase EXCEPT ![r] = "done"]
    /\ outcome' = [outcome EXCEPT ![r] = "completed"]
    /\ served' = [served EXCEPT ![r] = r]
    /\ UNCHANGED <<now, purged, key, fp, stamp, effect, faults>>

\* The request ends with the failed Result or with an error.
Failed(r) ==
    /\ phase' = [phase EXCEPT ![r] = "done"]
    /\ outcome' = [outcome EXCEPT ![r] = "failed"]
    /\ UNCHANGED <<now, purged, key, fp, stamp, effect, served>>

\* release(), by concatMap or by catchError; what failed goes on.
Release(r) ==
    /\ phase[r] \in {"releasing", "discarding"}
    /\ ~LockedFor(r, key[r])
    /\ Delete(r)
    /\ Failed(r)
    /\ UNCHANGED faults

-----------------------------------------------------------------------------
(* Failures *)

\* A statement or the COMMIT of claim() fails, or Oracle breaks a deadlock.
ClaimError(r) ==
    /\ phase[r] \in ClaimPhases
    /\ Fault("claim")
    /\ Abort(r)

\* A call of one statement rejects: nothing was written, or the COMMIT of its
\* `write` took effect and the answer was lost.
Rejects(r, call, write) ==
    /\ Fault(call)
    /\ \/ UNCHANGED table
       \/ call \in Lost /\ ~LockedFor(r, key[r]) /\ write

\* complete() rejects inside concatMap: catchError releases the key.
CompleteError(r) ==
    /\ phase[r] = "completing"
    /\ Rejects(r, "complete", Fill(r))
    /\ phase' = [phase EXCEPT ![r] = "discarding"]
    /\ UNCHANGED <<now, purged>>
    /\ UNCHANGED reqvars

\* So does the release() of a failed Result: catchError calls it once more.
ReleaseError(r) ==
    /\ phase[r] = "releasing"
    /\ Rejects(r, "release", Delete(r))
    /\ phase' = [phase EXCEPT ![r] = "discarding"]
    /\ UNCHANGED <<now, purged>>
    /\ UNCHANGED reqvars

\* The release() of catchError rejects: if nothing was deleted, the row stays.
DiscardError(r) ==
    /\ phase[r] = "discarding"
    /\ Rejects(r, "discard", Delete(r))
    /\ Failed(r)

\* The worker process dies; Oracle rolls its open transaction back.
Crash(r) ==
    /\ phase[r] \in ClaimPhases \cup OwnerPhases
    /\ Fault("crash")
    /\ phase' = [phase EXCEPT ![r] = "crashed"]
    /\ purged' = [purged EXCEPT ![r] = {}]
    /\ UNCHANGED <<now, table>>
    /\ UNCHANGED reqvars

\* Time passes, but a request that holds a timestamp ends within RequestMax.
Tick ==
    /\ now < MaxTime
    /\ \A r \in Requests :
          phase[r] \in (ClaimPhases \ {"purge"}) \cup OwnerPhases => now < stamp[r] + RequestMax
    /\ now' = now + 1
    /\ UNCHANGED <<table, purged, phase, faults>>
    /\ UNCHANGED reqvars

Next ==
    \/ \E r \in Requests :
          \/ \E k \in Keys, f \in Fingerprints : Begin(r, k, f)
          \/ PurgeExpired(r)
          \/ Insert(r)
          \/ InsertConflict(r)
          \/ SelectNothing(r)
          \/ SelectStale(r)
          \/ SelectRefused(r)
          \/ Reinsert(r)
          \/ ReinsertConflict(r)
          \/ Takeover(r)
          \/ HandlerSucceeds(r)
          \/ HandlerFails(r)
          \/ Complete(r)
          \/ Release(r)
          \/ ClaimError(r)
          \/ CompleteError(r)
          \/ ReleaseError(r)
          \/ DiscardError(r)
          \/ Crash(r)
    \/ Tick

Spec == Init /\ [][Next]_vars

-----------------------------------------------------------------------------
(* Properties *)

\* What the properties below need and the code does not enforce.  A request is
\* done with its key before its claim counts as abandoned or expires, and the
\* release() of a failed Result does not reject after it took effect, because
\* the second release() would then take the row of whoever claimed the key in
\* between (README, departures 1 and 20).
TimelyRequests == RequestMax <= InProgressTtl /\ RequestMax <= Ttl
ReleasesAnswered == "release" \notin Lost

\* r was granted its key and its worker is alive and not done with it.
Owner(r) == phase[r] \in OwnerPhases

\* Whatever the interleaving of the statements of several workers, two live
\* requests never both own a key.
OneOwner ==
    \A r, s \in Requests : Owner(r) /\ Owner(s) /\ key[r] = key[s] => r = s

\* "Same key, first request still running: 409", says the guide: two handlers
\* of one key never run at the same time.
\* The code does not keep this when a release() deletes the row and rejects
\* (README, departure 20).
OneHandler ==
    \A r, s \in Requests :
        phase[r] = "running" /\ phase[s] = "running" /\ key[r] = key[s] => r = s

\* Once complete() has stored a success, no request owns its key again
\* before the row's life of Ttl is over.
AtMostOncePerTtl ==
    \A r, s \in Requests :
        (r # s /\ outcome[r] = "completed" /\ Owner(s) /\ key[r] = key[s])
            => now > stamp[r] + Ttl

\* A replayed response was produced by a handler that succeeded, for the
\* same key and the same request bytes.
ReplayFaithful ==
    \A r \in Requests :
        outcome[r] = "replay" =>
            \E o \in Requests :
                /\ served[r] = o /\ effect[o] /\ key[o] = key[r] /\ fp[o] = fp[r]

\* What the committed rows and the live owners say of a key.  A response is
\* there from the COMMIT of complete() on, even if its answer was lost.
SlotOf(k) ==
    IF table[k] # NoRow /\ table[k].state = "completed"
    THEN [state |-> "stored", fingerprint |-> table[k].fingerprint, by |-> table[k].body]
    ELSE IF \E r \in Requests : Owner(r) /\ key[r] = k
    THEN LET r == CHOOSE s \in Requests : Owner(s) /\ key[s] = k
         IN [state |-> "owned", fingerprint |-> fp[r], by |-> r]
    ELSE [state |-> "free", fingerprint |-> NoFingerprint, by |-> NoRequest]

Contract == INSTANCE IdempotencyContract
            WITH slot <- [k \in Keys |-> SlotOf(k)], served <- served

\* Workers, statements and the table together keep the contract of the port,
\* as the store in memory does: deletes that are not committed, rollbacks,
\* crashes, takeovers and lost answers show to a client only as handlers that
\* gave up, responses that were stored and not sent, and responses that were
\* forgotten.
ImplementsContract == Contract!Spec

\* A handler that succeeded is not run to success again for its key before
\* the row of its claim has expired.
\* The code does not keep this when complete() fails (README, departure 2) or
\* when the worker dies before it, which the guide concedes.
EffectAtMostOncePerTtl ==
    [][\A r, s \in Requests :
          effect[r] /\ ~effect[s] /\ effect'[s] /\ key[r] = key[s]
              => now > stamp[r] + Ttl]_vars
=============================================================================
