----------------------- MODULE OracleIdempotencyProofs -----------------------
(***************************************************************************)
(* Proofs about OracleIdempotency, for any number of requests, keys and    *)
(* bodies, any times to live, and any number of crashes and rejected calls *)
(* but those the third hypothesis leaves out:                              *)
(*   - requests are done before their claim is taken for abandoned;        *)
(*   - nobody meddles with a row between a takeover's SELECT and UPDATE;   *)
(*   - the release() of a failed Result does not reject after its DELETE   *)
(*     was committed.                                                      *)
(* Then a key has one owner, a stored success keeps others away for Ttl,   *)
(* replays are faithful, and all the statements of all the workers         *)
(* implement IdempotencyContract.                                          *)
(*                                                                         *)
(* Without any of the three the first of these fails: README, departures   *)
(* 1, 3 and 20.  With a fourth, that the success of a handler is stored,   *)
(* the effect of a key happens once per Ttl (departure 2).                 *)
(***************************************************************************)
EXTENDS OracleIdempotency, TLAPS

-----------------------------------------------------------------------------
(* The inductive invariant *)

\* Phases in which a claim may hold rows it has deleted.
Purging == {"insert", "select", "reinsert", "takeover"}
Stamped == Purging \cup OwnerPhases

\* A request that holds a timestamp is not late.
Timely(r) == phase[r] \in Stamped => now <= stamp[r] + RequestMax

\* What a request asks for, from its beginning.
Asked(r) == phase[r] # "new" => key[r] \in Keys /\ fp[r] \in Fingerprints

\* What is known of a request since it began.
Known(r) ==
    /\ Asked(r)
    /\ phase[r] \in {"new", "running"} \cup ClaimPhases => ~effect[r]
    /\ phase[r] = "completing" => effect[r]
    /\ outcome[r] # "none" \/ served[r] # NoRequest => phase[r] = "done"

\* A row that a claim has deleted is an expired one, and not of a key the
\* claim found taken.
Locks(r) ==
    /\ purged[r] # {} => phase[r] \in Purging
    /\ \A k \in purged[r] : table[k] # NoRow /\ table[k].expiresAt < now
    /\ phase[r] \in {"select", "reinsert", "takeover"} => key[r] \notin purged[r]

\* The row under the key of an owner is the one its claim wrote; it is
\* completed only when complete() has taken effect and yet rejected.
Owned(r) ==
    Owner(r) =>
        LET row == table[key[r]] IN
        /\ row # NoRow /\ row.fingerprint = fp[r] /\ row.createdAt = stamp[r]
        /\ \/ row.state = "in_progress"
           \/ row.state = "completed" /\ row.body = r /\ phase[r] = "discarding"
        /\ \A s \in Requests : key[r] \notin purged[s]

\* A claim on its way to a takeover has the abandoned row for itself.
Taking(r) ==
    phase[r] = "takeover" =>
        /\ table[key[r]] # NoRow
        /\ Stale(table[key[r]]) /\ table[key[r]].fingerprint = fp[r]
        /\ \A s \in Requests : key[r] \notin purged[s]

\* What a request stored is there until it has expired.
Stored(r) ==
    outcome[r] = "completed" =>
        \/ now > stamp[r] + Ttl
        \/ LET row == table[key[r]] IN
           /\ row # NoRow /\ row.state = "completed" /\ row.body = r
           /\ row.createdAt = stamp[r]

\* f is the body of the request o, which succeeded for the key k.
RanFor(o, k, f) == o \in Requests /\ effect[o] /\ key[o] = k /\ fp[o] = f

Replayed(r) == outcome[r] = "replay" => RanFor(served[r], key[r], fp[r])

ReqInv(r) ==
    /\ Timely(r) /\ Known(r) /\ Locks(r)
    /\ Owned(r) /\ Taking(r) /\ Stored(r) /\ Replayed(r)

\* A row lives for Ttl, and a stored response has its origin.
RowInv(k) ==
    table[k] # NoRow =>
        /\ table[k].expiresAt = table[k].createdAt + Ttl
        /\ table[k].state = "completed" => RanFor(table[k].body, k, table[k].fingerprint)

\* No row is deleted by two claims, no key owned or taken over by two.
PairInv(r, s) ==
    r # s =>
        /\ purged[r] \cap purged[s] = {}
        /\ Owner(r) /\ Owner(s) => key[r] # key[s]
        /\ phase[r] = "takeover" /\ phase[s] = "takeover" => key[r] # key[s]

IInv ==
    /\ TypeOK
    /\ \A r \in Requests : ReqInv(r)
    /\ \A k \in Keys : RowInv(k)
    /\ \A r, s \in Requests : PairInv(r, s)

-----------------------------------------------------------------------------
(* Rows *)

\* A fresh row is a row, and says whose claim wrote it.
LEMMA FreshRows ==
    ASSUME NEW r \in Requests, TypeOK, fp[r] \in Fingerprints
    PROVE  /\ FreshRow(r) \in Row /\ FreshRow(r) # NoRow
           /\ FreshRow(r).state = "in_progress" /\ FreshRow(r).fingerprint = fp[r]
           /\ FreshRow(r).createdAt = stamp[r] /\ FreshRow(r).expiresAt = stamp[r] + Ttl
  <1>1. stamp[r] \in Nat /\ stamp[r] + Ttl \in Nat  BY OracleTtlAssumption DEF TypeOK
  <1>2. FreshRow(r) \in Row  BY <1>1 DEF FreshRow, Row
  <1> QED  BY <1>2, OracleSentinelAssumption DEF FreshRow

\* A row is a record of five fields.
LEMMA Rows ==
    ASSUME TypeOK, NEW k \in Keys, table[k] # NoRow
    PROVE  /\ table[k] \in Row
           /\ table[k].createdAt \in Nat /\ table[k].expiresAt \in Nat
           /\ table[k].state \in {"in_progress", "completed"}
           /\ table[k].fingerprint \in Fingerprints
           /\ table[k].body \in Requests \cup {NoRequest}
  <1>1. table[k] \in Row  BY DEF TypeOK
  <1> QED  BY <1>1 DEF Row

-----------------------------------------------------------------------------
(* Types *)

\* A COMMIT leaves rows in the table and names of keys in the purges.
LEMMA CommittedRow ==
    ASSUME TypeOK, NEW r \in Requests, NEW row \in Row \cup {NoRow}, CommitRow(r, row)
    PROVE  table' \in [Keys -> Row \cup {NoRow}] /\ purged' \in [Requests -> SUBSET Keys]
  <1> QED  BY DEF TypeOK, CommitRow

\* So does one that wrote nothing but the purge.
LEMMA CommittedPurge ==
    ASSUME TypeOK, NEW r \in Requests, CommitPurge(r)
    PROVE  table' \in [Keys -> Row \cup {NoRow}] /\ purged' \in [Requests -> SUBSET Keys]
  <1> QED  BY DEF TypeOK, CommitPurge

\* So do the UPDATE of complete() and the DELETE of release().
LEMMA WrittenRow ==
    ASSUME TypeOK, NEW r \in Requests, Fill(r) \/ Delete(r)
    PROVE  table' \in [Keys -> Row \cup {NoRow}]
  <1>1. CASE key[r] \in Keys /\ table[key[r]] # NoRow
    <2>1. table[key[r]] \in Row  BY <1>1 DEF TypeOK
    <2>2. [table[key[r]] EXCEPT !.state = "completed", !.body = r] \in Row
      BY <2>1 DEF Row
    <2> QED  BY <1>1, <2>2 DEF Fill, Delete, TypeOK
  <1> QED  BY <1>1 DEF Fill, Delete, TypeOK

\* The failures are counted up to their bound.
LEMMA Counted ==
    ASSUME TypeOK, NEW kind, Fault(kind)
    PROVE  faults' \in 0..MaxFaults
  BY OracleBoundAssumption DEF TypeOK, Fault

\* Every step keeps the types, given that what runs has asked for something.
LEMMA TypesKept ==
    ASSUME TypeOK, \A r \in Requests : Asked(r), [Next]_vars
    PROVE  TypeOK'
  <1>1. ASSUME NEW q \in Requests, NEW k \in Keys, NEW f \in Fingerprints, Begin(q, k, f)
        PROVE  TypeOK'
    BY <1>1 DEF TypeOK, Begin, Phases, ClaimPhases
  <1>2. ASSUME NEW q \in Requests, PurgeExpired(q) PROVE TypeOK'
    BY <1>2 DEF TypeOK, PurgeExpired, Phases, ClaimPhases, Expired
  <1>3. ASSUME NEW q \in Requests,
               InsertConflict(q) \/ SelectNothing(q) \/ SelectStale(q) \/ HandlerFails(q)
        PROVE  TypeOK'
    BY <1>3 DEF TypeOK, InsertConflict, SelectNothing, SelectStale, HandlerFails, reqvars,
                Phases, ClaimPhases, OwnerPhases
  <1>4. ASSUME NEW q \in Requests, Insert(q) \/ Reinsert(q) \/ Takeover(q) PROVE TypeOK'
    <2>1. fp[q] \in Fingerprints  BY <1>4 DEF Insert, Reinsert, Takeover, Asked
    <2>2. \E row \in Row \cup {NoRow} : CommitRow(q, row)
      BY <1>4, <2>1, FreshRows DEF Insert, Reinsert, Takeover
    <2>3. Granted(q)  BY <1>4 DEF Insert, Reinsert, Takeover
    <2>4. table' \in [Keys -> Row \cup {NoRow}] /\ purged' \in [Requests -> SUBSET Keys]
      BY <2>2, CommittedRow
    <2>5. faults' \in 0..MaxFaults  BY <2>3, Counted DEF Granted, AnswerLost, TypeOK
    <2> QED
      BY <2>3, <2>4, <2>5 DEF TypeOK, Granted, AnswerLost, Phases, OwnerPhases, Outcomes
  <1>5. ASSUME NEW q \in Requests, SelectRefused(q) PROVE TypeOK'
    <2>1. PICK how \in Outcomes, from \in Requests \cup {NoRequest} : Refused(q, how, from)
      <3>1. key[q] \in Keys  BY <1>5 DEF SelectRefused, Asked
      <3> QED  BY <1>5, <3>1, Rows DEF SelectRefused, Outcomes
    <2>2. table' \in [Keys -> Row \cup {NoRow}] /\ purged' \in [Requests -> SUBSET Keys]
      BY <2>1, CommittedPurge DEF Refused
    <2>3. faults' \in 0..MaxFaults  BY <2>1, Counted DEF Refused, AnswerLost, TypeOK
    <2> QED  BY <2>1, <2>2, <2>3 DEF TypeOK, Refused, AnswerLost, Phases, Outcomes
  <1>6. ASSUME NEW q \in Requests, ReinsertConflict(q) \/ ClaimError(q) PROVE TypeOK'
    <2>1. Abort(q)  BY <1>6 DEF ReinsertConflict, ClaimError
    <2>2. faults' \in 0..MaxFaults
      BY <1>6, Counted DEF TypeOK, ReinsertConflict, ClaimError
    <2> QED  BY <2>1, <2>2 DEF TypeOK, Abort, Phases, Outcomes
  <1>7. ASSUME NEW q \in Requests, HandlerSucceeds(q) PROVE TypeOK'
    BY <1>7 DEF TypeOK, HandlerSucceeds, Phases, OwnerPhases
  <1>8. ASSUME NEW q \in Requests, Complete(q) PROVE TypeOK'
    <2>1. table' \in [Keys -> Row \cup {NoRow}]  BY <1>8, WrittenRow DEF Complete
    <2> QED  BY <1>8, <2>1 DEF TypeOK, Complete, Phases, Outcomes
  <1>9. ASSUME NEW q \in Requests, Release(q) PROVE TypeOK'
    <2>1. table' \in [Keys -> Row \cup {NoRow}]  BY <1>9, WrittenRow DEF Release
    <2> QED  BY <1>9, <2>1 DEF TypeOK, Release, Failed, Phases, Outcomes
  <1>10. ASSUME NEW q \in Requests,
                CompleteError(q) \/ ReleaseError(q) \/ DiscardError(q) \/ Crash(q)
         PROVE  TypeOK'
    <2>1. faults' \in 0..MaxFaults
      BY <1>10, Counted DEF CompleteError, ReleaseError, DiscardError, Rejects, Crash
    <2>2. table' \in [Keys -> Row \cup {NoRow}]
      BY <1>10, WrittenRow
         DEF TypeOK, CompleteError, ReleaseError, DiscardError, Rejects, Crash
    <2> QED
      BY <1>10, <2>1, <2>2
         DEF TypeOK, CompleteError, ReleaseError, DiscardError, Failed, Crash, reqvars, Phases,
             OwnerPhases, Outcomes
  <1>11. ASSUME Tick PROVE TypeOK'
    BY <1>11, OracleBoundAssumption DEF TypeOK, Tick, reqvars
  <1>12. ASSUME UNCHANGED vars PROVE TypeOK'
    BY <1>12 DEF TypeOK, vars
  <1> QED
    BY <1>1, <1>2, <1>3, <1>4, <1>5, <1>6, <1>7, <1>8, <1>9, <1>10, <1>11, <1>12 DEF Next

-----------------------------------------------------------------------------
(* Steps that leave the rows alone *)

\* Steps of q that touch neither the table nor what q has deleted.
Quiet(q) ==
    \/ \E k \in Keys, f \in Fingerprints : Begin(q, k, f)
    \/ InsertConflict(q)
    \/ SelectNothing(q)
    \/ SelectStale(q)
    \/ HandlerSucceeds(q)
    \/ HandlerFails(q)
    \/ UNCHANGED table /\ (CompleteError(q) \/ ReleaseError(q) \/ DiscardError(q))

\* Such a step may start a takeover, of a row that nobody else has.
LEMMA QuietSteps ==
    ASSUME ~TakeoversOverlap, IInv, NEW q \in Requests, Quiet(q)
    PROVE  IInv'
  <1> USE DEF IInv, Quiet
  <1>1. /\ table' = table /\ purged' = purged /\ now' = now /\ stamp' = stamp
        /\ \A r \in Requests \ {q} :
              /\ phase'[r] = phase[r] /\ key'[r] = key[r] /\ fp'[r] = fp[r]
              /\ effect'[r] = effect[r] /\ outcome'[r] = outcome[r] /\ served'[r] = served[r]
    BY DEF TypeOK, Begin, InsertConflict, SelectNothing, SelectStale, HandlerSucceeds,
           HandlerFails, CompleteError, ReleaseError, DiscardError, Failed, reqvars
  <1>2. TypeOK'  BY TypesKept DEF Next, ReqInv, Known
  <1>3. ASSUME NEW r \in Requests PROVE Timely(r)' /\ Known(r)' /\ Locks(r)'
    BY DEF TypeOK, Begin, InsertConflict, SelectNothing, SelectStale, HandlerSucceeds,
           HandlerFails, CompleteError, ReleaseError, DiscardError, Failed, reqvars, ReqInv, Timely, Known, Asked, Locks,
           Stamped, Purging, ClaimPhases, OwnerPhases, KeyFree
  <1>4. ASSUME NEW r \in Requests PROVE Owned(r)'
    BY DEF TypeOK, Begin, InsertConflict, SelectNothing, SelectStale, HandlerSucceeds,
           HandlerFails, CompleteError, ReleaseError, DiscardError, Failed, reqvars, ReqInv, Owned, Owner, OwnerPhases
  <1>5. ASSUME NEW r \in Requests PROVE Taking(r)'
    BY DEF TypeOK, Begin, InsertConflict, SelectNothing, SelectStale, HandlerSucceeds,
           HandlerFails, CompleteError, ReleaseError, DiscardError, Failed, reqvars, ReqInv, Taking, Stale, LockedFor, Locks
  <1>6. ASSUME NEW r \in Requests PROVE Stored(r)'
    BY DEF TypeOK, Begin, InsertConflict, SelectNothing, SelectStale, HandlerSucceeds,
           HandlerFails, CompleteError, ReleaseError, DiscardError, Failed, reqvars, ReqInv, Stored, Known
  <1>7. ASSUME NEW o, NEW k, NEW f, RanFor(o, k, f) PROVE RanFor(o, k, f)'
    <2>1. phase[o] # "new" /\ effect[o]  BY <1>7 DEF ReqInv, RanFor, Known
    <2>2. effect'[o] /\ key'[o] = key[o] /\ fp'[o] = fp[o]
      BY <1>7, <2>1 DEF TypeOK, Begin, InsertConflict, SelectNothing, SelectStale,
             HandlerSucceeds, HandlerFails, CompleteError, ReleaseError, DiscardError, Failed, reqvars, RanFor
    <2> QED  BY <1>7, <2>2 DEF RanFor
  <1>8. ASSUME NEW r \in Requests PROVE Replayed(r)'
    BY <1>7 DEF TypeOK, Begin, InsertConflict, SelectNothing, SelectStale, HandlerSucceeds,
           HandlerFails, CompleteError, ReleaseError, DiscardError, Failed, reqvars, ReqInv, Replayed, Known
  <1>9. ASSUME NEW k \in Keys PROVE RowInv(k)'  BY <1>1, <1>7 DEF RowInv
  <1>10. ASSUME NEW r \in Requests, NEW s \in Requests PROVE PairInv(r, s)'
    BY DEF TypeOK, Begin, InsertConflict, SelectNothing, SelectStale, HandlerSucceeds,
           HandlerFails, CompleteError, ReleaseError, DiscardError, Failed, reqvars, ReqInv, PairInv, Owner,
           OwnerPhases, BeingTakenOver
  <1> QED  BY <1>2, <1>3, <1>4, <1>5, <1>6, <1>8, <1>9, <1>10 DEF ReqInv

\* Steps of q whose claim is rolled back.
RolledBack(q) == ReinsertConflict(q) \/ ClaimError(q) \/ Crash(q)

\* What is rolled back had deleted expired rows only.
LEMMA RollbackSteps ==
    ASSUME IInv, NEW q \in Requests, RolledBack(q)
    PROVE  IInv'
  <1> USE DEF IInv, RolledBack
  <1>1. /\ table' = table /\ now' = now /\ stamp' = stamp /\ key' = key /\ fp' = fp
        /\ effect' = effect /\ served' = served
        /\ purged' = [purged EXCEPT ![q] = {}]
        /\ phase[q] \in ClaimPhases \cup OwnerPhases
        /\ phase'[q] \in {"done", "crashed"}
        /\ outcome'[q] \in {outcome[q], "error"}
        /\ phase'[q] = "crashed" => outcome'[q] = outcome[q]
        /\ \A r \in Requests \ {q} : phase'[r] = phase[r] /\ outcome'[r] = outcome[r]
    BY DEF TypeOK, ReinsertConflict, ClaimError, Crash, Abort, ClaimPhases, OwnerPhases, reqvars
  <1>2. TypeOK'  BY TypesKept DEF Next, ReqInv, Known
  <1>3. /\ purged'[q] = {}
        /\ \A r \in Requests : purged'[r] \subseteq purged[r]
        /\ \A r \in Requests \ {q} : purged'[r] = purged[r]
    BY <1>1 DEF TypeOK
  <1>4. outcome[q] = "none"
    BY <1>1 DEF ReqInv, Known, ClaimPhases, OwnerPhases
  <1>5. ASSUME NEW r \in Requests PROVE Timely(r)' /\ Known(r)' /\ Locks(r)'
    BY <1>1, <1>3, <1>4 DEF ReqInv, Timely, Known, Asked, Locks, Stamped, Purging, ClaimPhases, OwnerPhases
  <1>6. ASSUME NEW r \in Requests PROVE Owned(r)' /\ Taking(r)'
    BY <1>1, <1>3 DEF ReqInv, Owned, Owner, OwnerPhases, Taking, Stale
  <1>7. ASSUME NEW r \in Requests PROVE Stored(r)' /\ Replayed(r)'
    BY <1>1, <1>4 DEF ReqInv, Stored, Replayed, RanFor
  <1>8. ASSUME NEW k \in Keys PROVE RowInv(k)'  BY <1>1 DEF RowInv, RanFor
  <1>9. ASSUME NEW r \in Requests, NEW s \in Requests PROVE PairInv(r, s)'
    BY <1>1, <1>3 DEF PairInv, Owner, OwnerPhases
  <1> QED  BY <1>2, <1>5, <1>6, <1>7, <1>8, <1>9 DEF ReqInv

\* The purge takes no row of an owner (it has not expired), none that another
\* purge or takeover has.
LEMMA PurgeSteps ==
    ASSUME TimelyRequests, ~TakeoversOverlap, IInv, NEW q \in Requests, PurgeExpired(q)
    PROVE  IInv'
  <1> USE DEF IInv
  <1>1. /\ table' = table /\ now' = now /\ key' = key /\ fp' = fp
        /\ effect' = effect /\ served' = served /\ outcome' = outcome
        /\ phase[q] = "purge" /\ phase' = [phase EXCEPT ![q] = "insert"]
        /\ stamp' = [stamp EXCEPT ![q] = now]
        /\ \A r \in Requests \ {q} : purged'[r] = purged[r]
    BY DEF TypeOK, PurgeExpired
  <1>2. TypeOK'  BY TypesKept DEF Next, ReqInv, Known
  <1>3. \A k \in purged'[q] :
           /\ k \in Keys /\ table[k] # NoRow /\ table[k].expiresAt < now
           /\ \A s \in Requests \ {q} : k \notin purged[s]
           /\ \A s \in Requests \ {q} : ~(phase[s] = "takeover" /\ key[s] = k)
    BY DEF TypeOK, PurgeExpired, Expired, LockedFor, BeingTakenOver
  <1>4. ASSUME NEW r \in Requests PROVE Timely(r)' /\ Known(r)' /\ Locks(r)'
    BY <1>1, <1>3, OracleBoundAssumption
       DEF TypeOK, ReqInv, Timely, Known, Asked, Locks, Stamped, Purging, ClaimPhases,
           OwnerPhases
  <1>5. ASSUME NEW r \in Requests PROVE Owned(r)'
    <2> SUFFICES ASSUME Owner(r)' PROVE Owned(r)'  BY DEF Owned
    <2>1. r # q /\ Owner(r)  BY <1>1 DEF Owner, OwnerPhases, TypeOK
    <2>2. key[r] \in Keys /\ table[key[r]] # NoRow /\ table[key[r]].createdAt = stamp[r]
      BY <2>1 DEF ReqInv, Owned, Known, Asked, Owner, OwnerPhases
    <2>3. now <= stamp[r] + RequestMax  BY <2>1 DEF ReqInv, Timely, Owner, Stamped
    <2>4. table[key[r]].expiresAt = stamp[r] + Ttl  BY <2>2 DEF RowInv
    <2>5. key[r] \notin purged'[q]
      BY <1>3, <2>3, <2>4, OracleBoundAssumption, OracleTtlAssumption DEF TypeOK, TimelyRequests
    <2> QED  BY <1>1, <2>1, <2>5 DEF ReqInv, Owned, TypeOK
  <1>6. ASSUME NEW r \in Requests PROVE Taking(r)'
    BY <1>1, <1>3 DEF TypeOK, ReqInv, Taking, Stale
  <1>7. ASSUME NEW r \in Requests PROVE Stored(r)' /\ Replayed(r)'
    BY <1>1 DEF TypeOK, ReqInv, Stored, Replayed, RanFor, Known
  <1>8. ASSUME NEW k \in Keys PROVE RowInv(k)'  BY <1>1 DEF RowInv, RanFor
  <1>9. ASSUME NEW r \in Requests, NEW s \in Requests PROVE PairInv(r, s)'
    BY <1>1, <1>3 DEF TypeOK, PairInv, Owner, OwnerPhases
  <1> QED  BY <1>2, <1>4, <1>5, <1>6, <1>7, <1>8, <1>9 DEF ReqInv

\* Time makes a row older, but no owner's row old enough to be abandoned.
LEMMA TickSteps ==
    ASSUME IInv, Tick
    PROVE  IInv'
  <1> USE DEF IInv
  <1>1. /\ now' = now + 1
        /\ UNCHANGED <<table, purged, phase, faults, key, fp, stamp, effect, outcome, served>>
        /\ \A r \in Requests : phase[r] \in Stamped => now < stamp[r] + RequestMax
    BY DEF Tick, reqvars, ClaimPhases, Stamped, Purging, OwnerPhases
  <1>2. TypeOK'  BY TypesKept DEF Next, ReqInv, Known
  <1>3. \A n \in Nat : n < now => n < now'  BY <1>1 DEF TypeOK
  <1>4. ASSUME NEW r \in Requests PROVE Timely(r)' /\ Known(r)'
    BY <1>1, OracleBoundAssumption DEF TypeOK, ReqInv, Timely, Known, Asked
  <1>5. ASSUME NEW r \in Requests PROVE Locks(r)'
    BY <1>1, Rows DEF TypeOK, ReqInv, Locks
  <1>6. ASSUME NEW r \in Requests PROVE Owned(r)'
    BY <1>1 DEF ReqInv, Owned, Owner
  <1>7. ASSUME NEW r \in Requests PROVE Taking(r)'
    BY <1>1, Rows, OracleTtlAssumption DEF TypeOK, ReqInv, Taking, Stale, Known, Asked
  <1>8. ASSUME NEW r \in Requests PROVE Stored(r)' /\ Replayed(r)'
    BY <1>1, OracleTtlAssumption DEF TypeOK, ReqInv, Stored, Replayed, RanFor
  <1>9. ASSUME NEW k \in Keys PROVE RowInv(k)'  BY <1>1 DEF RowInv, RanFor
  <1>10. ASSUME NEW r \in Requests, NEW s \in Requests PROVE PairInv(r, s)'
    BY <1>1 DEF PairInv, Owner
  <1> QED  BY <1>2, <1>4, <1>5, <1>6, <1>7, <1>8, <1>9, <1>10 DEF ReqInv

-----------------------------------------------------------------------------
(* Steps that write rows *)

\* A stale row belongs to no owner: its request would be late.
LEMMA StaleIsAbandoned ==
    ASSUME TimelyRequests, IInv, NEW r \in Requests, NEW s \in Requests, Owner(s),
           key[r] = key[s]
    PROVE  phase[r] # "takeover"
  <1> SUFFICES ASSUME phase[r] = "takeover" PROVE FALSE
    OBVIOUS
  <1>1. table[key[s]].createdAt = stamp[s]  BY DEF IInv, ReqInv, Owned
  <1>2. now <= stamp[s] + RequestMax  BY DEF IInv, ReqInv, Timely, Owner, Stamped
  <1>3. now > table[key[s]].createdAt + InProgressTtl  BY DEF IInv, ReqInv, Taking, Stale
  <1> QED
    BY <1>1, <1>2, <1>3, OracleBoundAssumption, OracleTtlAssumption
       DEF IInv, TypeOK, TimelyRequests

\* A stored response that a claim has deleted had expired.
LEMMA PurgedIsOver ==
    ASSUME IInv, NEW q \in Requests, NEW r \in Requests, outcome[r] = "completed",
           key[r] \in purged[q]
    PROVE  now > stamp[r] + Ttl
  <1>1. table[key[r]] # NoRow /\ table[key[r]].expiresAt < now  BY DEF IInv, ReqInv, Locks
  <1>2. key[r] \in Keys  BY DEF IInv, ReqInv, Known, Asked
  <1>3. table[key[r]].expiresAt = table[key[r]].createdAt + Ttl  BY <1>1, <1>2 DEF IInv, RowInv
  <1> QED
    BY <1>1, <1>3, OracleTtlAssumption DEF IInv, TypeOK, ReqInv, Stored

\* A step that has granted q its key.
Grants(q) == Insert(q) \/ Reinsert(q) \/ Takeover(q)

\* A claim is granted only a key that nobody owns, takes over or deletes.
LEMMA GrantSteps ==
    ASSUME TimelyRequests, IInv, NEW q \in Requests, Grants(q)
    PROVE  IInv'
  <1> USE DEF IInv, Grants
  <1>1. /\ phase[q] \in {"insert", "reinsert", "takeover"}
        /\ UNCHANGED <<now, key, fp, stamp, effect, served>>
        /\ \/ phase'[q] = "running" /\ outcome'[q] = outcome[q]
           \/ phase'[q] = "done" /\ outcome'[q] = "error"
        /\ \A r \in Requests \ {q} : phase'[r] = phase[r] /\ outcome'[r] = outcome[r]
        /\ \A s \in Requests \ {q} : key[q] \notin purged[s]
    BY DEF TypeOK, Insert, Reinsert, Takeover, Granted, AnswerLost, LockedFor
  <1>2. key[q] \in Keys /\ fp[q] \in Fingerprints  BY <1>1 DEF ReqInv, Known, Asked
  <1>3. CommitRow(q, FreshRow(q))
    BY DEF Insert, Reinsert, Takeover, ReqInv, Taking
  <1>4. /\ table'[key[q]] = FreshRow(q)
        /\ \A k \in Keys \ ({key[q]} \cup purged[q]) : table'[k] = table[k]
        /\ \A k \in purged[q] \ {key[q]} : table'[k] = NoRow
        /\ purged'[q] = {} /\ \A r \in Requests \ {q} : purged'[r] = purged[r]
    BY <1>2, <1>3 DEF CommitRow, TypeOK
  <1>5. TypeOK'  BY TypesKept DEF Next, ReqInv, Known
  <1>6. ASSUME NEW s \in Requests \ {q}
        PROVE  /\ Owner(s) => key[s] # key[q] /\ key[s] \notin purged[q]
               /\ phase[s] = "takeover" => key[s] # key[q] /\ key[s] \notin purged[q]
    <2>1. CASE Insert(q) \/ Reinsert(q)
      BY <2>1 DEF Insert, Reinsert, KeyFree, ReqInv, Owned, Taking
    <2>2. CASE Takeover(q)
      BY <2>2, StaleIsAbandoned DEF Takeover, ReqInv, Owned, Taking, PairInv
    <2> QED  BY <2>1, <2>2
  <1>7. ASSUME NEW r \in Requests PROVE Timely(r)' /\ Known(r)'
    BY <1>1 DEF TypeOK, ReqInv, Timely, Known, Asked, Stamped, Purging, ClaimPhases, OwnerPhases
  <1>8. ASSUME NEW r \in Requests PROVE Locks(r)'
    BY <1>1, <1>4 DEF TypeOK, ReqInv, Locks, PairInv
  <1>9. ASSUME NEW r \in Requests PROVE Owned(r)'
    <2>1. CASE r = q
      BY <2>1, <1>1, <1>2, <1>4, FreshRows DEF Owned
    <2>2. CASE r # q
      <3> SUFFICES ASSUME Owner(r)' PROVE Owned(r)'  BY DEF Owned
      <3>1. Owner(r)  BY <1>1, <2>2 DEF Owner, TypeOK
      <3>2. key[r] \in Keys  BY <3>1 DEF ReqInv, Known, Asked, Owner, OwnerPhases
      <3> QED  BY <1>1, <1>4, <1>6, <2>2, <3>1, <3>2 DEF ReqInv, Owned
    <2> QED  BY <2>1, <2>2
  <1>10. ASSUME NEW r \in Requests PROVE Taking(r)'
    <2> SUFFICES ASSUME phase'[r] = "takeover" PROVE Taking(r)'  BY DEF Taking
    <2>1. r # q /\ phase[r] = "takeover"  BY <1>1 DEF TypeOK
    <2>2. key[r] \in Keys  BY <2>1 DEF ReqInv, Known, Asked
    <2> QED  BY <1>1, <1>4, <1>6, <2>1, <2>2 DEF ReqInv, Taking, Stale
  <1>11. ASSUME NEW r \in Requests PROVE Stored(r)'
    <2> SUFFICES ASSUME outcome'[r] = "completed", ~(now > stamp[r] + Ttl) PROVE Stored(r)'
      BY <1>1 DEF Stored
    <2>0. outcome[r] = "completed"  BY <1>1
    <2>1. key[r] \in Keys  BY <2>0 DEF ReqInv, Known, Asked
    <2>2. table[key[r]] # NoRow /\ table[key[r]].state = "completed"
      BY <2>0 DEF ReqInv, Stored
    <2>3. key[r] \notin purged[q]  BY <2>0, PurgedIsOver
    <2>4. key[r] # key[q]
      BY <2>2, <2>3 DEF Insert, Reinsert, Takeover, KeyFree, ReqInv, Taking, Stale
    <2> QED  BY <1>1, <1>4, <2>0, <2>1, <2>3, <2>4 DEF ReqInv, Stored
  <1>12. ASSUME NEW r \in Requests PROVE Replayed(r)'
    BY <1>1 DEF ReqInv, Replayed, RanFor
  <1>13. ASSUME NEW k \in Keys PROVE RowInv(k)'
    BY <1>1, <1>2, <1>4, FreshRows DEF RowInv, RanFor
  <1>14. ASSUME NEW r \in Requests, NEW s \in Requests PROVE PairInv(r, s)'
    BY <1>1, <1>4, <1>6 DEF TypeOK, PairInv, Owner, OwnerPhases
  <1> QED
    BY <1>5, <1>7, <1>8, <1>9, <1>10, <1>11, <1>12, <1>13, <1>14 DEF ReqInv

\* A refused claim commits its purge, and is answered from the row it read.
LEMMA RefusalSteps ==
    ASSUME IInv, NEW q \in Requests, SelectRefused(q)
    PROVE  IInv'
  <1> USE DEF IInv
  <1>1. key[q] \in Keys  BY DEF SelectRefused, ReqInv, Known, Asked
  <1>2. PICK how \in {"mismatch", "in_progress", "replay"}, from \in Requests \cup {NoRequest} :
           /\ Refused(q, how, from)
           /\ how = "replay" => RanFor(from, key[q], fp[q])
    BY <1>1, Rows DEF SelectRefused, RowInv
  <1>3. /\ phase[q] = "select" /\ phase' = [phase EXCEPT ![q] = "done"]
        /\ \/ /\ outcome' = [outcome EXCEPT ![q] = how]
              /\ served' = [served EXCEPT ![q] = from]
           \/ outcome' = [outcome EXCEPT ![q] = "error"] /\ served' = served
        /\ UNCHANGED <<now, key, fp, stamp, effect>>
    BY <1>2 DEF SelectRefused, Refused, AnswerLost
  <1>4. /\ \A k \in Keys \ purged[q] : table'[k] = table[k]
        /\ \A k \in purged[q] : table'[k] = NoRow
        /\ purged'[q] = {} /\ \A r \in Requests \ {q} : purged'[r] = purged[r]
    BY <1>2 DEF Refused, CommitPurge, TypeOK
  <1>5. TypeOK'  BY TypesKept DEF Next, ReqInv, Known
  <1>6. ASSUME NEW r \in Requests PROVE Timely(r)' /\ Known(r)'
    BY <1>3 DEF TypeOK, ReqInv, Timely, Known, Asked, Stamped, Purging, ClaimPhases, OwnerPhases
  <1>7. ASSUME NEW r \in Requests PROVE Locks(r)'
    BY <1>3, <1>4 DEF TypeOK, ReqInv, Locks, PairInv
  <1>8. ASSUME NEW r \in Requests PROVE Owned(r)'
    <2> SUFFICES ASSUME Owner(r)' PROVE Owned(r)'  BY DEF Owned
    <2>1. r # q /\ Owner(r)  BY <1>3 DEF Owner, OwnerPhases, TypeOK
    <2>2. key[r] \in Keys  BY <2>1 DEF ReqInv, Known, Asked, Owner, OwnerPhases
    <2> QED  BY <1>3, <1>4, <2>1, <2>2 DEF ReqInv, Owned
  <1>9. ASSUME NEW r \in Requests PROVE Taking(r)'
    <2> SUFFICES ASSUME phase'[r] = "takeover" PROVE Taking(r)'  BY DEF Taking
    <2>1. r # q /\ phase[r] = "takeover"  BY <1>3 DEF TypeOK
    <2>2. key[r] \in Keys  BY <2>1 DEF ReqInv, Known, Asked
    <2> QED  BY <1>3, <1>4, <2>1, <2>2 DEF ReqInv, Taking, Stale
  <1>10. ASSUME NEW r \in Requests PROVE Stored(r)'
    <2> SUFFICES ASSUME outcome'[r] = "completed", ~(now > stamp[r] + Ttl) PROVE Stored(r)'
      BY <1>3 DEF Stored
    <2>1. outcome[r] = "completed"  BY <1>3 DEF TypeOK
    <2>2. key[r] \in Keys  BY <2>1 DEF ReqInv, Known, Asked
    <2>3. key[r] \notin purged[q]  BY <2>1, PurgedIsOver
    <2> QED  BY <1>3, <1>4, <2>1, <2>2, <2>3 DEF ReqInv, Stored
  <1>11. ASSUME NEW r \in Requests PROVE Replayed(r)'
    BY <1>2, <1>3 DEF TypeOK, ReqInv, Replayed, RanFor
  <1>12. ASSUME NEW k \in Keys PROVE RowInv(k)'
    BY <1>3, <1>4 DEF RowInv, RanFor
  <1>13. ASSUME NEW r \in Requests, NEW s \in Requests PROVE PairInv(r, s)'
    BY <1>3, <1>4 DEF TypeOK, PairInv, Owner, OwnerPhases
  <1> QED
    BY <1>5, <1>6, <1>7, <1>8, <1>9, <1>10, <1>11, <1>12, <1>13 DEF ReqInv

\* complete() takes effect, and release() or its repetition does; whether the
\* request learns of it or not.
Fills(q) == Complete(q) \/ (CompleteError(q) /\ Fill(q))
Deletes(q) == Release(q) \/ (DiscardError(q) /\ Delete(q))

\* A step of an owner that settles its own row.
LEMMA SettlingSteps ==
    ASSUME TimelyRequests, IInv, NEW q \in Requests, Fills(q) \/ Deletes(q)
    PROVE  IInv'
  <1> USE DEF IInv
  <1> DEFINE row == table[key[q]]
  <1>1. /\ phase[q] \in {"completing", "releasing", "discarding"}
        /\ phase'[q] \in {"discarding", "done"}
        /\ phase'[q] = "discarding" => Fills(q) /\ UNCHANGED <<outcome, served>>
        /\ UNCHANGED <<now, purged, key, fp, stamp, effect>>
        /\ outcome'[q] \in {"completed", "failed", outcome[q]}
        /\ outcome'[q] = "completed" => Fills(q)
        /\ \A r \in Requests \ {q} :
              phase'[r] = phase[r] /\ outcome'[r] = outcome[r] /\ served'[r] = served[r]
    <2>1. outcome[q] = "none"
      BY DEF Fills, Deletes, Complete, CompleteError, Release, DiscardError, ReqInv, Known, TypeOK
    <2> QED
      BY <2>1 DEF TypeOK, Fills, Deletes, Complete, CompleteError, Release, DiscardError, Failed,
                  reqvars
  <1>2. Owner(q) /\ key[q] \in Keys  BY <1>1 DEF Owner, OwnerPhases, ReqInv, Known, Asked
  <1>3. /\ row \in Row /\ row # NoRow /\ row.fingerprint = fp[q]
        /\ row.createdAt = stamp[q]
        /\ row.state = "in_progress" \/ row.body = q
        /\ \A s \in Requests : key[q] \notin purged[s]
    BY <1>2, Rows DEF ReqInv, Owned
  <1>4. /\ \A k \in Keys \ {key[q]} : table'[k] = table[k]
        /\ Fills(q) => table'[key[q]] = [row EXCEPT !.state = "completed", !.body = q]
        /\ Deletes(q) => table'[key[q]] = NoRow
    BY <1>2, <1>3
       DEF TypeOK, Fills, Deletes, Complete, CompleteError, Fill, Release, DiscardError, Delete
  <1>5. Fills(q) => /\ table'[key[q]] # NoRow /\ table'[key[q]].state = "completed"
                    /\ table'[key[q]].body = q /\ table'[key[q]].fingerprint = fp[q]
                    /\ table'[key[q]].createdAt = stamp[q]
                    /\ table'[key[q]].expiresAt = row.expiresAt
    <2>1. [row EXCEPT !.state = "completed", !.body = q] \in Row  BY <1>3 DEF Row
    <2> QED  BY <1>3, <1>4, <2>1, OracleSentinelAssumption DEF Row
  <1>6. TypeOK'  BY TypesKept DEF Next, ReqInv, Known, Fills, Deletes
  <1>7. ASSUME NEW r \in Requests PROVE Timely(r)' /\ Known(r)'
    BY <1>1 DEF TypeOK, ReqInv, Timely, Known, Asked, Stamped, Purging, ClaimPhases, OwnerPhases
  <1>8. ASSUME NEW r \in Requests PROVE Locks(r)'
    BY <1>1, <1>3, <1>4 DEF TypeOK, ReqInv, Locks, Purging
  <1>9. ASSUME NEW r \in Requests PROVE Owned(r)'
    <2> SUFFICES ASSUME Owner(r)' PROVE Owned(r)'  BY DEF Owned
    <2>1. CASE r = q  BY <1>1, <1>3, <1>5, <2>1 DEF Owned, Owner, OwnerPhases
    <2>2. CASE r # q
      <3>1. Owner(r)  BY <1>1, <2>2 DEF Owner
      <3>2. key[r] \in Keys /\ key[r] # key[q]
        BY <1>2, <2>2, <3>1 DEF ReqInv, Known, Asked, Owner, OwnerPhases, PairInv
      <3> QED  BY <1>1, <1>4, <2>2, <3>1, <3>2 DEF ReqInv, Owned
    <2> QED  BY <2>1, <2>2
  <1>10. ASSUME NEW r \in Requests PROVE Taking(r)'
    <2> SUFFICES ASSUME phase'[r] = "takeover" PROVE Taking(r)'  BY DEF Taking
    <2>1. r # q /\ phase[r] = "takeover"  BY <1>1
    <2>2. key[r] \in Keys /\ key[r] # key[q]
      BY <1>2, <2>1, StaleIsAbandoned DEF ReqInv, Known, Asked
    <2> QED  BY <1>1, <1>4, <2>1, <2>2 DEF ReqInv, Taking, Stale
  <1>11. ASSUME NEW r \in Requests PROVE Stored(r)'
    <2> SUFFICES ASSUME outcome'[r] = "completed", ~(now > stamp[r] + Ttl) PROVE Stored(r)'
      BY <1>1 DEF Stored
    <2>1. CASE r = q  BY <1>1, <1>5, <2>1 DEF Stored
    <2>2. CASE r # q
      <3>1. outcome[r] = "completed" /\ key[r] \in Keys
        BY <1>1, <2>2 DEF ReqInv, Known, Asked
      <3>2. key[r] # key[q]  BY <1>3, <2>2, <3>1 DEF ReqInv, Stored
      <3> QED  BY <1>1, <1>4, <3>1, <3>2 DEF ReqInv, Stored
    <2> QED  BY <2>1, <2>2
  <1>12. ASSUME NEW r \in Requests PROVE Replayed(r)'
    BY <1>1 DEF TypeOK, ReqInv, Replayed, RanFor, Known, Owner
  <1>13. ASSUME NEW k \in Keys PROVE RowInv(k)'
    <2>1. CASE k # key[q]  BY <1>1, <1>4, <2>1 DEF RowInv, RanFor
    <2>2. CASE k = key[q] /\ Deletes(q)  BY <1>4, <2>2 DEF RowInv
    <2>3. CASE k = key[q] /\ Fills(q)
      <3>1. effect[q]  BY <2>3 DEF Fills, Complete, CompleteError, ReqInv, Known
      <3>2. row.expiresAt = stamp[q] + Ttl  BY <1>2, <1>3 DEF RowInv
      <3> QED  BY <1>1, <1>5, <2>3, <3>1, <3>2 DEF RowInv, RanFor
    <2> QED  BY <2>1, <2>2, <2>3
  <1>14. ASSUME NEW r \in Requests, NEW s \in Requests PROVE PairInv(r, s)'
    BY <1>1, <1>2 DEF TypeOK, PairInv, Owner, OwnerPhases
  <1> QED
    BY <1>6, <1>7, <1>8, <1>9, <1>10, <1>11, <1>12, <1>13, <1>14 DEF ReqInv

\* A call of an owner that rejects has written what it should have, or nothing.
LEMMA RejectingSteps ==
    ASSUME ReleasesAnswered, NEW q \in Requests,
           CompleteError(q) \/ ReleaseError(q) \/ DiscardError(q)
    PROVE  Quiet(q) \/ Fills(q) \/ Deletes(q)
  BY DEF ReleasesAnswered, CompleteError, ReleaseError, DiscardError, Rejects, Quiet, Fills, Deletes

-----------------------------------------------------------------------------
(* The theorems *)

\* The invariant holds in every reachable state of an instance in which
\* requests are in time, takeovers undisturbed and releases answered.
LEMMA ClaimInvariant ==
    ASSUME TimelyRequests, ~TakeoversOverlap, ReleasesAnswered
    PROVE  Spec => []IInv
  <1>1. Init => IInv
    BY OracleBoundAssumption, OracleTtlAssumption
       DEF Init, IInv, TypeOK, Phases, Outcomes, ReqInv, Timely, Known, Asked, Locks, Owned, Owner,
           OwnerPhases, Taking, Stored, Replayed, RowInv, PairInv, Stamped, Purging
  <1>2. IInv /\ [Next]_vars => IInv'
    <2> SUFFICES ASSUME IInv, [Next]_vars PROVE IInv'
      OBVIOUS
    <2>1. CASE UNCHANGED vars
      BY <2>1 DEF IInv, TypeOK, ReqInv, Timely, Known, Asked, Locks, Owned, Owner, Taking,
                  Stale, Stored, Replayed, RanFor, RowInv, PairInv, vars
    <2>2. ASSUME Next PROVE IInv'
      BY <2>2, QuietSteps, RollbackSteps, PurgeSteps, TickSteps, GrantSteps, RefusalSteps,
         SettlingSteps, RejectingSteps
         DEF Next, Quiet, RolledBack, Grants, Fills, Deletes
    <2> QED  BY <2>1, <2>2
  <1> QED  BY <1>1, <1>2, PTL DEF Spec

\* The steps of a request that leave table and purges alone, and those with
\* which it ends its claim.
Calm(q) ==
    InsertConflict(q) \/ SelectNothing(q) \/ SelectStale(q) \/ HandlerSucceeds(q) \/ HandlerFails(q)
Settled(q) ==
    Complete(q) \/ Release(q) \/ CompleteError(q) \/ ReleaseError(q) \/ DiscardError(q)

\* A step of one request leaves the others where they are.
LEMMA PhaseFrame ==
    ASSUME TypeOK, NEW q \in Requests,
           \/ PurgeExpired(q) \/ Calm(q) \/ Grants(q) \/ SelectRefused(q)
           \/ Settled(q) \/ RolledBack(q)
    PROVE  \A s \in Requests \ {q} : phase'[s] = phase[s] /\ outcome'[s] = outcome[s]
  <1>1. CASE PurgeExpired(q)  BY <1>1 DEF TypeOK, PurgeExpired
  <1>2. CASE Calm(q)
    BY <1>2 DEF TypeOK, Calm, InsertConflict, SelectNothing, SelectStale, HandlerSucceeds,
                HandlerFails, reqvars
  <1>3. CASE Grants(q) \/ SelectRefused(q)
    BY <1>3 DEF TypeOK, Grants, Insert, Reinsert, Takeover, Granted, SelectRefused, Refused,
                AnswerLost
  <1>4. CASE Settled(q)
    BY <1>4 DEF TypeOK, Settled, Complete, Release, CompleteError, ReleaseError, DiscardError,
                Failed, reqvars
  <1>5. CASE RolledBack(q)
    BY <1>5 DEF TypeOK, RolledBack, ReinsertConflict, ClaimError, Crash, Abort, reqvars
  <1> QED  BY <1>1, <1>2, <1>3, <1>4, <1>5

\* Every variable keeps its type, in every instance.
THEOREM TypeCorrect == Spec => []TypeOK
  <1> DEFINE Typed == TypeOK /\ \A r \in Requests : Asked(r)
  <1>1. Init => Typed
    BY OracleBoundAssumption DEF Init, TypeOK, Asked, Phases, Outcomes
  <1>2. Typed /\ [Next]_vars => Typed'
    <2> SUFFICES ASSUME Typed, [Next]_vars PROVE Typed'
      OBVIOUS
    <2>1. TypeOK'  BY TypesKept
    <2>2. ASSUME NEW r \in Requests PROVE Asked(r)'
      <3>1. CASE UNCHANGED vars  BY <3>1 DEF Asked, vars
      <3>2. CASE Tick  BY <3>2 DEF Asked, Tick, reqvars
      <3>3. ASSUME NEW q \in Requests, NEW k \in Keys, NEW f \in Fingerprints, Begin(q, k, f)
            PROVE  Asked(r)'
        BY <3>3 DEF Begin, TypeOK, Asked
      <3>4. ASSUME NEW q \in Requests, phase[q] # "new", UNCHANGED <<key, fp>>,
                   \A s \in Requests \ {q} : phase'[s] = phase[s]
            PROVE  Asked(r)'
        BY <3>4 DEF Asked
      <3>5. ASSUME NEW q \in Requests,
                   \/ PurgeExpired(q) \/ Calm(q) \/ Grants(q) \/ SelectRefused(q)
                   \/ Settled(q) \/ RolledBack(q)
            PROVE  Asked(r)'
        <4>1. phase[q] # "new"
          BY <3>5 DEF PurgeExpired, Calm, Grants, SelectRefused, Settled, Complete, Release,
                 RolledBack, InsertConflict, SelectNothing, SelectStale, HandlerSucceeds,
                 HandlerFails, CompleteError, ReleaseError, DiscardError, Insert, Reinsert,
                 Takeover, ReinsertConflict, ClaimError, Crash, ClaimPhases, OwnerPhases
        <4>2. UNCHANGED <<key, fp>>
          BY <3>5 DEF PurgeExpired, Calm, Grants, SelectRefused, Settled, Complete, Release,
                 RolledBack, InsertConflict, SelectNothing, SelectStale, HandlerSucceeds,
                 HandlerFails, CompleteError, ReleaseError, DiscardError, Failed, Insert,
                 Reinsert, Takeover, ReinsertConflict, ClaimError, Crash, Granted, Refused,
                 Abort, reqvars
        <4>3. \A s \in Requests \ {q} : phase'[s] = phase[s]
          BY <3>5, PhaseFrame
        <4> QED  BY <4>1, <4>2, <4>3, <3>4
      <3> QED
        BY <3>1, <3>2, <3>3, <3>5 DEF Next, Calm, Settled, Grants, RolledBack
    <2> QED  BY <2>1, <2>2
  <1> QED  BY <1>1, <1>2, PTL DEF Spec

\* Two live requests, of whatever workers, never both own a key.
THEOREM OneOwnerPerKey ==
    ASSUME TimelyRequests, ~TakeoversOverlap, ReleasesAnswered
    PROVE  Spec => []OneOwner
  <1>1. IInv => OneOwner  BY DEF IInv, PairInv, OneOwner
  <1> QED  BY <1>1, ClaimInvariant, PTL

\* After complete() has stored a success nobody owns the key again within Ttl.
THEOREM SuccessKeepsOthersAway ==
    ASSUME TimelyRequests, ~TakeoversOverlap, ReleasesAnswered
    PROVE  Spec => []AtMostOncePerTtl
  <1>1. IInv => AtMostOncePerTtl
    BY DEF IInv, ReqInv, Owned, Stored, AtMostOncePerTtl
  <1> QED  BY <1>1, ClaimInvariant, PTL

\* A replayed response is that of a successful handler, for the same key and
\* the same bytes.
THEOREM ReplaysAreFaithful ==
    ASSUME TimelyRequests, ~TakeoversOverlap, ReleasesAnswered
    PROVE  Spec => []ReplayFaithful
  <1>1. IInv => ReplayFaithful
    BY DEF IInv, ReqInv, Replayed, RanFor, ReplayFaithful
  <1> QED  BY <1>1, ClaimInvariant, PTL

\* A success is always stored: complete() does not fail, and the worker does
\* not die before it.
StoredOrDone(r) == phase[r] = "completing" => phase'[r] \in {"completing", "done"}
SuccessIsStored == [][\A r \in Requests : StoredOrDone(r)]_vars

\* Then a handler that has succeeded is about to be completed, or was.
Storing(r) ==
    /\ effect[r] => phase[r] = "completing" \/ outcome[r] = "completed"
    /\ phase[r] \in {"completing", "done"} \/ ~effect[r]

\* Every step keeps this.
LEMMA StoringKept ==
    ASSUME IInv, \A r \in Requests : Storing(r), [Next]_vars, [\A r \in Requests : StoredOrDone(r)]_vars
    PROVE  (\A r \in Requests : Storing(r))'
  <1>1. CASE UNCHANGED vars  BY <1>1 DEF vars, Storing
  <1>2. CASE Tick  BY <1>2 DEF Tick, reqvars, Storing
  <1>3. ASSUME NEW q \in Requests, NEW k \in Keys, NEW f \in Fingerprints, Begin(q, k, f)
        PROVE  (\A r \in Requests : Storing(r))'
    BY <1>3 DEF Begin, Storing, IInv, TypeOK
  <1>4. ASSUME NEW q \in Requests,
               \/ PurgeExpired(q) \/ Grants(q) \/ InsertConflict(q) \/ SelectNothing(q)
               \/ SelectStale(q) \/ SelectRefused(q) \/ ReinsertConflict(q) \/ HandlerFails(q)
               \/ ClaimError(q) \/ Release(q) \/ ReleaseError(q) \/ DiscardError(q)
        PROVE  (\A r \in Requests : Storing(r))'
    <2>1. ~effect[q]
      BY <1>4 DEF Storing, PurgeExpired, Grants, Insert, InsertConflict, SelectNothing,
             SelectStale, SelectRefused, Reinsert, ReinsertConflict, Takeover, HandlerFails,
             ClaimError, Release, ReleaseError, DiscardError, ClaimPhases
    <2>2. effect' = effect
      BY <1>4 DEF PurgeExpired, Grants, Insert, InsertConflict, SelectNothing, SelectStale,
             SelectRefused, Reinsert, ReinsertConflict, Takeover, HandlerFails, ClaimError,
             Release, ReleaseError, DiscardError, Failed, Granted, Refused, Abort, reqvars
    <2>3. \A s \in Requests \ {q} : phase'[s] = phase[s] /\ outcome'[s] = outcome[s]
      BY <1>4, PhaseFrame DEF IInv, Calm, Settled, RolledBack
    <2> QED  BY <2>1, <2>2, <2>3 DEF Storing
  <1>5. ASSUME NEW q \in Requests, HandlerSucceeds(q) \/ Complete(q)
        PROVE  (\A r \in Requests : Storing(r))'
    BY <1>5 DEF IInv, TypeOK, HandlerSucceeds, Complete, Storing
  <1>6. ASSUME NEW q \in Requests, CompleteError(q) \/ Crash(q)
        PROVE  (\A r \in Requests : Storing(r))'
    <2>1. /\ phase'[q] \notin {"completing", "done"}
          /\ effect' = effect /\ outcome' = outcome
          /\ \A s \in Requests \ {q} : phase'[s] = phase[s]
      BY <1>6 DEF IInv, TypeOK, CompleteError, Crash, reqvars
    <2>2. CASE UNCHANGED vars  BY <2>2 DEF vars, Storing
    <2>3. CASE StoredOrDone(q)
      <3>1. phase[q] # "completing"  BY <2>1, <2>3 DEF StoredOrDone
      <3>2. phase[q] # "done"
        BY <1>6 DEF CompleteError, Crash, ClaimPhases, OwnerPhases
      <3>3. ~effect[q]  BY <3>1, <3>2 DEF Storing
      <3> QED  BY <2>1, <3>3 DEF Storing
    <2> QED  BY <2>2, <2>3
  <1> QED  BY <1>1, <1>2, <1>3, <1>4, <1>5, <1>6 DEF Next, Grants

\* A handler that succeeded is not run to success again for its key within Ttl,
\* provided that its success is stored: departure 2 needs a complete() that
\* fails, or a worker that dies before it.
THEOREM StoredSuccessIsNotRepeated ==
    ASSUME TimelyRequests, ~TakeoversOverlap, ReleasesAnswered
    PROVE  Spec /\ SuccessIsStored => EffectAtMostOncePerTtl
  <1> DEFINE AllStoring == \A r \in Requests : Storing(r)
  <1>1. Init => AllStoring  BY DEF Init, Storing
  <1>2. IInv /\ AllStoring /\ [Next]_vars /\ [\A r \in Requests : StoredOrDone(r)]_vars => AllStoring'
    BY StoringKept
  <1>3. ASSUME IInv, AllStoring, Next,
               NEW r \in Requests, NEW s \in Requests,
               effect[r], ~effect[s], effect'[s], key[r] = key[s]
        PROVE  now > stamp[r] + Ttl
    <2>1. phase[s] = "running"
      <3>1. ASSUME NEW q \in Requests, HandlerSucceeds(q) PROVE phase[s] = "running"
        BY <1>3, <3>1 DEF HandlerSucceeds, IInv, TypeOK
      <3>2. ~(\E q \in Requests : HandlerSucceeds(q)) => effect' = effect
        BY <1>3 DEF Next, Begin, PurgeExpired, Insert, InsertConflict, SelectNothing, SelectStale,
               SelectRefused, Reinsert, ReinsertConflict, Takeover, HandlerFails, Complete, Release,
               ClaimError, CompleteError, ReleaseError, DiscardError, Failed, Crash, Tick, Granted,
               Refused, Abort, reqvars
      <3> QED  BY <1>3, <3>1, <3>2
    <2>2. Owner(s)  BY <2>1 DEF Owner, OwnerPhases
    <2>3. r # s  BY <1>3
    <2>4. CASE phase[r] = "completing"
      BY <1>3, <2>2, <2>3, <2>4 DEF IInv, PairInv, Owner, OwnerPhases
    <2>5. CASE outcome[r] = "completed"
      BY <1>3, <2>2, <2>3, <2>5 DEF IInv, ReqInv, Owned, Stored
    <2> QED  BY <1>3, <2>4, <2>5 DEF Storing
  <1>4. IInv /\ AllStoring /\ [Next]_vars
          => [\A r, s \in Requests :
                 effect[r] /\ ~effect[s] /\ effect'[s] /\ key[r] = key[s]
                     => now > stamp[r] + Ttl]_vars
    BY <1>3
  <1> QED
    BY <1>1, <1>2, <1>4, ClaimInvariant, PTL DEF Spec, SuccessIsStored, EffectAtMostOncePerTtl

-----------------------------------------------------------------------------
(* Workers, statements and the table implement the contract *)

\* The slot of a key with an owner is that owner's, until its response is
\* there.
LEMMA OwnedSlot ==
    ASSUME IInv, NEW r \in Requests, Owner(r), table[key[r]].state = "in_progress"
    PROVE  SlotOf(key[r]) = Contract!Owned(r, fp[r])
  <1>1. (CHOOSE s \in Requests : Owner(s) /\ key[s] = key[r]) = r
    BY DEF IInv, PairInv
  <1> QED  BY <1>1 DEF SlotOf, Contract!Owned

\* The slot of a key with a stored response is that response.
LEMMA StoredSlot ==
    ASSUME NEW k \in Keys, table[k] # NoRow, table[k].state = "completed"
    PROVE  SlotOf(k) = Contract!Stored(table[k].body, table[k].fingerprint)
  BY DEF SlotOf, Contract!Stored

\* The slot of a key without an owner is its stored response, or free.
LEMMA IdleSlot ==
    ASSUME NEW k \in Keys, \A r \in Requests : Owner(r) => key[r] # k
    PROVE  SlotOf(k) = IF table[k] # NoRow /\ table[k].state = "completed"
                       THEN Contract!Stored(table[k].body, table[k].fingerprint)
                       ELSE Contract!Free
  BY DEF SlotOf, Contract!Stored, Contract!Free

\* A key that a claim is deleting, or none at all, has no owner.
LEMMA Unowned ==
    ASSUME IInv, NEW k \in Keys,
           table[k] = NoRow \/ \E s \in Requests : k \in purged[s]
    PROVE  \A r \in Requests : Owner(r) => key[r] # k
  BY DEF IInv, ReqInv, Owned

\* A slot depends on the owner and the row of its key only.
LEMMA SlotFrame ==
    ASSUME IInv, IInv', NEW k \in Keys, table'[k] = table[k],
           \A r \in Requests : (Owner(r) /\ key[r] = k) <=> (Owner(r)' /\ key'[r] = k),
           \A r \in Requests : Owner(r) /\ key[r] = k => fp'[r] = fp[r]
    PROVE  SlotOf(k)' = SlotOf(k)
  <1>1. CASE table[k] # NoRow /\ table[k].state = "completed"
    BY <1>1 DEF SlotOf
  <1>2. CASE /\ ~(table[k] # NoRow /\ table[k].state = "completed")
             /\ \E r \in Requests : Owner(r) /\ key[r] = k
    <2>1. PICK r \in Requests : Owner(r) /\ key[r] = k  BY <1>2
    <2>2. (CHOOSE s \in Requests : Owner(s) /\ key[s] = k) = r
      BY <2>1 DEF IInv, PairInv
    <2>3. (CHOOSE s \in Requests : Owner(s)' /\ key'[s] = k) = r
      BY <2>1 DEF IInv, PairInv
    <2>4. SlotOf(k)' = [state |-> "owned", fingerprint |-> fp'[r], by |-> r]
      BY <1>2, <2>1, <2>3 DEF SlotOf
    <2>5. SlotOf(k) = [state |-> "owned", fingerprint |-> fp[r], by |-> r]
      BY <1>2, <2>1, <2>2 DEF SlotOf
    <2> QED  BY <2>1, <2>4, <2>5
  <1>3. CASE /\ ~(table[k] # NoRow /\ table[k].state = "completed")
             /\ ~\E r \in Requests : Owner(r) /\ key[r] = k
    BY <1>3 DEF SlotOf
  <1> QED  BY <1>1, <1>2, <1>3

\* The responses that a claim of q deletes.
Gone(q) == {k \in purged[q] : SlotOf(k).state = "stored"}

\* They are stored responses, as the contract sees them.
LEMMA GoneAreStored ==
    ASSUME TypeOK, NEW q \in Requests
    PROVE  Gone(q) \in SUBSET {k \in Keys : [x \in Keys |-> SlotOf(x)][k].state = "stored"}
  BY DEF TypeOK, Gone

\* A COMMIT of q's purge makes the contract forget them, and nothing else.
LEMMA CommitForgets ==
    ASSUME IInv, IInv', NEW q \in Requests, NEW k \in Keys,
           table'[k] = IF k \in purged[q] THEN NoRow ELSE table[k],
           \A r \in Requests : (Owner(r) /\ key[r] = k) <=> (Owner(r)' /\ key'[r] = k),
           \A r \in Requests : Owner(r) /\ key[r] = k => fp'[r] = fp[r]
    PROVE  SlotOf(k)' = IF k \in Gone(q) THEN Contract!Free ELSE SlotOf(k)
  <1>1. CASE k \notin purged[q]
    BY <1>1, SlotFrame DEF Gone
  <1>2. CASE k \in purged[q]
    <2>1. \A r \in Requests : Owner(r) => key[r] # k  BY <1>2, Unowned
    <2>2. SlotOf(k)' = Contract!Free
      BY <1>2, <2>1 DEF SlotOf, Contract!Free
    <2>3. SlotOf(k).state = "stored" \/ SlotOf(k) = Contract!Free
      BY <2>1, IdleSlot DEF Contract!Stored
    <2> QED  BY <1>2, <2>2, <2>3 DEF Gone
  <1> QED  BY <1>1, <1>2

\* The step that gives q its key, or would have, had its answer come.
Answered(q) == Grants(q) /\ phase'[q] = "running"

\* What every such step changes.
LEMMA GrantFrame ==
    ASSUME IInv, NEW q \in Requests, Grants(q)
    PROVE  /\ phase[q] \in {"insert", "reinsert", "takeover"}
           /\ phase'[q] \in {"running", "done"}
           /\ UNCHANGED <<now, key, fp, stamp, effect, served>>
           /\ \A s \in Requests \ {q} : key[q] \notin purged[s] /\ phase'[s] = phase[s]
           /\ \A k \in Keys \ {key[q]} :
                 table'[k] = IF k \in purged[q] THEN NoRow ELSE table[k]
  BY DEF IInv, TypeOK, Grants, Insert, Reinsert, Takeover, Granted, AnswerLost, LockedFor, CommitRow

\* The claimed row is a fresh one, in place of one that says nothing to a client.
LEMMA GrantedRow ==
    ASSUME TimelyRequests, IInv, NEW q \in Requests, Grants(q)
    PROVE  /\ key[q] \in Keys /\ fp[q] \in Fingerprints
           /\ table'[key[q]] = FreshRow(q) /\ table'[key[q]].state = "in_progress"
           /\ \A r \in Requests : Owner(r) => key[r] # key[q]
           /\ SlotOf(key[q]) = Contract!Free \/ key[q] \in Gone(q)
  <1>1. key[q] \in Keys /\ fp[q] \in Fingerprints
    BY GrantFrame DEF IInv, ReqInv, Known, Asked
  <1>2. table'[key[q]] = FreshRow(q)
    BY <1>1 DEF Grants, Insert, Reinsert, Takeover, CommitRow, IInv, ReqInv, Taking
  <1>3. table'[key[q]].state = "in_progress"
    BY <1>1, <1>2, FreshRows DEF IInv
  <1>4. CASE Takeover(q)
    <2>1. table[key[q]].state = "in_progress"
      BY <1>4 DEF Takeover, IInv, ReqInv, Taking, Stale
    <2>2. \A r \in Requests : Owner(r) => key[r] # key[q]
      BY <1>4, StaleIsAbandoned DEF Takeover
    <2> QED  BY <1>1, <1>2, <1>3, <2>1, <2>2, IdleSlot
  <1>5. CASE Insert(q) \/ Reinsert(q)
    <2>1. table[key[q]] = NoRow \/ key[q] \in purged[q]
      BY <1>5 DEF Insert, Reinsert, KeyFree
    <2>2. \A r \in Requests : Owner(r) => key[r] # key[q]
      BY <1>1, <2>1, Unowned
    <2>3. SlotOf(key[q]) = Contract!Free \/ SlotOf(key[q]).state = "stored"
      BY <1>1, <2>2, IdleSlot DEF Contract!Stored
    <2>4. table[key[q]] = NoRow => SlotOf(key[q]) = Contract!Free
      BY <1>1, <2>2, IdleSlot
    <2> QED  BY <1>1, <1>2, <1>3, <2>1, <2>2, <2>3, <2>4 DEF Gone
  <1> QED  BY <1>4, <1>5 DEF Grants

\* A claim that is granted is the contract's Own, after what it has purged.
LEMMA GrantOwns ==
    ASSUME TimelyRequests, IInv, IInv', NEW q \in Requests, Answered(q)
    PROVE  Contract!ForgetAndClaim(q, key[q], fp[q])
  <1> DEFINE left == [k \in Keys |-> IF k \in Gone(q) THEN Contract!Free ELSE SlotOf(k)]
  <1>0. Grants(q)  BY DEF Answered
  <1>1. /\ phase[q] \in {"insert", "reinsert", "takeover"} /\ phase'[q] = "running"
        /\ UNCHANGED <<now, key, fp, stamp, effect, served>>
        /\ \A s \in Requests \ {q} : key[q] \notin purged[s] /\ phase'[s] = phase[s]
    BY <1>0, GrantFrame DEF Answered
  <1>2. key[q] \in Keys /\ ~effect[q] /\ served[q] = NoRequest /\ ~Owner(q)
    BY <1>1 DEF IInv, TypeOK, ReqInv, Known, Asked, ClaimPhases, OwnerPhases, Owner
  <1>3. \A r \in Requests \ {q} : Owner(r)' <=> Owner(r)
    BY <1>1 DEF Owner
  <1>4. Owner(q)'
    BY <1>1 DEF Owner, OwnerPhases
  <1>5. left[key[q]] = Contract!Free
    BY <1>0, <1>2, GrantedRow
  <1>6. ASSUME NEW k \in Keys PROVE left[k].by # q
    <2>1. CASE k \in Gone(q)
      BY <2>1, OracleSentinelAssumption DEF Contract!Free
    <2>2. CASE k \notin Gone(q) /\ table[k] # NoRow /\ table[k].state = "completed"
      <3>1. effect[table[k].body]  BY <2>2 DEF IInv, RowInv, RanFor
      <3>2. SlotOf(k).by = table[k].body  BY <2>2, StoredSlot DEF Contract!Stored
      <3> QED  BY <1>2, <2>2, <3>1, <3>2
    <2>3. CASE /\ k \notin Gone(q) /\ ~(table[k] # NoRow /\ table[k].state = "completed")
               /\ \E r \in Requests : Owner(r) /\ key[r] = k
      <3>1. PICK r \in Requests : Owner(r) /\ key[r] = k  BY <2>3
      <3>2. table[key[r]].state = "in_progress"  BY <2>3, <3>1 DEF IInv, ReqInv, Owned
      <3>3. SlotOf(k) = Contract!Owned(r, fp[r])  BY <3>1, <3>2, OwnedSlot
      <3>4. SlotOf(k).by = r /\ r # q  BY <1>2, <3>1, <3>3 DEF Contract!Owned
      <3> QED  BY <2>3, <3>4
    <2>4. CASE /\ k \notin Gone(q) /\ ~(table[k] # NoRow /\ table[k].state = "completed")
               /\ ~\E r \in Requests : Owner(r) /\ key[r] = k
      BY <2>4, IdleSlot, OracleSentinelAssumption DEF Contract!Free
    <2> QED  BY <2>1, <2>2, <2>3, <2>4
  <1>7. SlotOf(key[q])' = Contract!Owned(q, fp[q])
    <2>1. (CHOOSE s \in Requests : Owner(s)' /\ key'[s] = key[q]) = q
      BY <1>1, <1>4 DEF IInv, PairInv
    <2>2. table'[key[q]].state = "in_progress"  BY <1>0, GrantedRow
    <2>3. \A k : k = key[q] => SlotOf(k)' = [state |-> "owned", fingerprint |-> fp[q], by |-> q]
      BY <1>1, <1>4, <2>1, <2>2 DEF SlotOf
    <2> QED  BY <1>1, <2>3 DEF Contract!Owned
  <1>8. ASSUME NEW k \in Keys \ {key[q]} PROVE SlotOf(k)' = left[k]
    <2>1. table'[k] = IF k \in purged[q] THEN NoRow ELSE table[k]
      BY <1>0, GrantFrame
    <2>2. \A r \in Requests : (Owner(r) /\ key[r] = k) <=> (Owner(r)' /\ key'[r] = k)
      BY <1>1, <1>2, <1>3
    <2> QED  BY <1>1, <2>1, <2>2, CommitForgets
  <1>9. [k \in Keys |-> SlotOf(k)'] = [left EXCEPT ![key[q]] = Contract!Owned(q, fp[q])]
    <2>1. \A k \in Keys : k = key[q] => SlotOf(k)' = Contract!Owned(q, fp[q])
      BY <1>1, <1>7
    <2> QED  BY <1>8, <2>1
  <1>10. left = [k \in Keys |-> IF k \in Gone(q) THEN Contract!Free
                                ELSE [x \in Keys |-> SlotOf(x)][k]]
    OBVIOUS
  <1>11. Gone(q) \in SUBSET {k \in Keys : [x \in Keys |-> SlotOf(x)][k].state = "stored"}
    BY GoneAreStored DEF IInv
  <1> HIDE DEF left
  <1>12. Contract!Starts(left, q, key[q], fp[q])
    BY <1>1, <1>2, <1>5, <1>6, <1>9 DEF Contract!Starts
  <1>13. left = Contract!Without(Gone(q)) /\ Gone(q) \in SUBSET Contract!Holding
    BY <1>10, <1>11 DEF Contract!Without, Contract!Holding
  <1> QED  BY <1>12, <1>13 DEF Contract!ForgetAndClaim

\* A claim that took effect and rejects has purged, and its row is nobody's.
LEMMA LostGrantForgets ==
    ASSUME TimelyRequests, IInv, IInv', NEW q \in Requests, Grants(q), ~Answered(q)
    PROVE  Contract!Forget
  <1> DEFINE left == [k \in Keys |-> IF k \in Gone(q) THEN Contract!Free ELSE SlotOf(k)]
  <1>1. /\ phase[q] \in {"insert", "reinsert", "takeover"} /\ phase'[q] = "done"
        /\ UNCHANGED <<key, fp, served>>
        /\ \A s \in Requests \ {q} : phase'[s] = phase[s]
    BY GrantFrame DEF Answered
  <1>2. \A r \in Requests : Owner(r)' <=> Owner(r)
    BY <1>1 DEF Owner, OwnerPhases
  <1>3. SlotOf(key[q])' = left[key[q]] /\ key[q] \in Keys
    <2>1. /\ key[q] \in Keys /\ table'[key[q]].state = "in_progress"
          /\ \A r \in Requests : Owner(r) => key[r] # key[q]
          /\ SlotOf(key[q]) = Contract!Free \/ key[q] \in Gone(q)
      BY GrantedRow
    <2>2. \A k : k = key[q] => SlotOf(k)' = Contract!Free
      BY <1>1, <1>2, <2>1 DEF SlotOf, Contract!Free
    <2> QED  BY <1>1, <2>1, <2>2
  <1>4. ASSUME NEW k \in Keys \ {key[q]} PROVE SlotOf(k)' = left[k]
    <2>1. table'[k] = IF k \in purged[q] THEN NoRow ELSE table[k]
      BY GrantFrame
    <2> QED  BY <1>1, <1>2, <2>1, CommitForgets
  <1>5. [k \in Keys |-> SlotOf(k)'] = left
    <2>1. \A k \in Keys : k = key[q] => SlotOf(k)' = left[k]  BY <1>1, <1>3
    <2> QED  BY <1>4, <2>1
  <1>6. Gone(q) \in SUBSET {k \in Keys : [x \in Keys |-> SlotOf(x)][k].state = "stored"}
    BY GoneAreStored DEF IInv
  <1>7. left = [k \in Keys |-> IF k \in Gone(q) THEN Contract!Free
                               ELSE [x \in Keys |-> SlotOf(x)][k]]
    OBVIOUS
  <1> HIDE DEF left
  <1> QED
    BY <1>1, <1>5, <1>6, <1>7 DEF Contract!Forget, Contract!Holding, Contract!Without

\* A claim that is refused forgets what it has purged, and may be answered
\* from the slot.
LEMMA RefusalAnswers ==
    ASSUME IInv, IInv', NEW q \in Requests, SelectRefused(q)
    PROVE  Contract!Forget \/ Contract!ForgetAndClaim(q, key[q], fp[q])
  <1> DEFINE left == [k \in Keys |-> IF k \in Gone(q) THEN Contract!Free ELSE SlotOf(k)]
  <1>1. key[q] \in Keys /\ served[q] = NoRequest /\ key[q] \notin purged[q]
    BY DEF SelectRefused, IInv, ReqInv, Known, Asked, Locks
  <1>2. PICK how \in {"mismatch", "in_progress", "replay"}, from \in Requests \cup {NoRequest} :
           /\ Refused(q, how, from)
           /\ \/ from = NoRequest
              \/ /\ table[key[q]] # NoRow /\ table[key[q]].state = "completed"
                 /\ table[key[q]].fingerprint = fp[q] /\ table[key[q]].body = from
    BY <1>1, Rows DEF SelectRefused, IInv
  <1>3. /\ phase[q] = "select" /\ phase' = [phase EXCEPT ![q] = "done"]
        /\ served' \in {served, [served EXCEPT ![q] = from]}
        /\ UNCHANGED <<key, fp>>
        /\ \A k \in Keys : table'[k] = IF k \in purged[q] THEN NoRow ELSE table[k]
    BY <1>2 DEF SelectRefused, Refused, AnswerLost, CommitPurge
  <1>4. \A r \in Requests : Owner(r)' <=> Owner(r)
    BY <1>3 DEF IInv, TypeOK, Owner, OwnerPhases
  <1>5. [k \in Keys |-> SlotOf(k)'] = left
    <2>1. ASSUME NEW k \in Keys PROVE SlotOf(k)' = left[k]
      BY <1>3, <1>4, CommitForgets
    <2> QED  BY <2>1
  <1>6. left = [k \in Keys |-> IF k \in Gone(q) THEN Contract!Free
                               ELSE [x \in Keys |-> SlotOf(x)][k]]
    OBVIOUS
  <1>7. Gone(q) \in SUBSET {k \in Keys : [x \in Keys |-> SlotOf(x)][k].state = "stored"}
    BY GoneAreStored DEF IInv
  <1>8. CASE from = NoRequest \/ served' = served
    <2>1. served' = served  BY <1>1, <1>3, <1>8 DEF IInv, TypeOK
    <2> HIDE DEF left
    <2> QED
      BY <1>5, <1>6, <1>7, <2>1 DEF Contract!Forget, Contract!Holding, Contract!Without
  <1>9. CASE from # NoRequest /\ served' = [served EXCEPT ![q] = from]
    <2>2. SlotOf(key[q]) = Contract!Stored(from, fp[q])
      BY <1>1, <1>2, <1>9, StoredSlot
    <2>3. left[key[q]].state = "stored" /\ left[key[q]].fingerprint = fp[q] /\ left[key[q]].by = from
      BY <1>1, <2>2 DEF Gone, Contract!Stored
    <2> HIDE DEF left
    <2> QED
      BY <1>1, <1>3, <1>5, <1>6, <1>7, <1>9, <2>3
         DEF Contract!ForgetAndClaim, Contract!Answers, Contract!Holding, Contract!Without
  <1> QED  BY <1>3, <1>8, <1>9

\* A step of an owner with its own row changes the slot of its key only.
LEMMA OwnerFrame ==
    ASSUME IInv, IInv', NEW q \in Requests, Owner(q), UNCHANGED <<key, fp>>,
           \A r \in Requests \ {q} : phase'[r] = phase[r],
           \A k \in Keys \ {key[q]} : table'[k] = table[k]
    PROVE  /\ key[q] \in Keys /\ fp[q] \in Fingerprints
           /\ \A k \in Keys \ {key[q]} : SlotOf(k)' = SlotOf(k)
           /\ Owner(q)' \/ \A r \in Requests : Owner(r)' => key'[r] # key[q]
  <1>1. key[q] \in Keys /\ fp[q] \in Fingerprints
    BY DEF IInv, ReqInv, Known, Asked, Owner, OwnerPhases
  <1>2. \A r \in Requests \ {q} : Owner(r)' <=> Owner(r)
    BY DEF Owner
  <1>3. Owner(q)' \/ \A r \in Requests : Owner(r)' => key'[r] # key[q]
    BY <1>2 DEF IInv, PairInv
  <1>4. ASSUME NEW k \in Keys \ {key[q]} PROVE SlotOf(k)' = SlotOf(k)
    BY <1>2, SlotFrame
  <1> QED  BY <1>1, <1>3, <1>4

\* complete() is the contract's Fill, whether its answer comes or not.
LEMMA CompleteFills ==
    ASSUME IInv, IInv', NEW q \in Requests, Fills(q)
    PROVE  Contract!Fill(q, key[q], fp[q]) /\ key[q] \in Keys /\ fp[q] \in Fingerprints
  <1>1. /\ phase[q] = "completing" /\ Owner(q) /\ UNCHANGED <<key, fp>>
        /\ served' \in {served, [served EXCEPT ![q] = q]}
        /\ \A r \in Requests \ {q} : phase'[r] = phase[r]
    BY DEF Fills, Complete, CompleteError, Owner, OwnerPhases, IInv, TypeOK, reqvars
  <1>2. /\ key[q] \in Keys /\ table[key[q]] # NoRow /\ table[key[q]].fingerprint = fp[q]
        /\ table[key[q]].state = "in_progress"
    BY <1>1 DEF IInv, ReqInv, Known, Asked, Owned, Owner, OwnerPhases
  <1>3. /\ \A k \in Keys \ {key[q]} : table'[k] = table[k]
        /\ table'[key[q]] = [table[key[q]] EXCEPT !.state = "completed", !.body = q]
    BY <1>2 DEF Fills, Complete, CompleteError, Fill, IInv, TypeOK
  <1>4. /\ table'[key[q]] # NoRow /\ table'[key[q]].state = "completed"
        /\ table'[key[q]].body = q /\ table'[key[q]].fingerprint = fp[q]
    <2>1. table[key[q]] \in Row  BY <1>2 DEF IInv, TypeOK
    <2>2. table'[key[q]] \in Row  BY <1>3, <2>1 DEF Row
    <2> QED  BY <1>2, <1>3, <2>1, <2>2, OracleSentinelAssumption DEF Row
  <1>5. /\ fp[q] \in Fingerprints /\ SlotOf(key[q]) = Contract!Owned(q, fp[q])
        /\ \A k \in Keys \ {key[q]} : SlotOf(k)' = SlotOf(k)
    BY <1>1, <1>2, <1>3, OwnerFrame, OwnedSlot
  <1>6. ASSUME NEW k \in Keys, k = key[q] PROVE SlotOf(k)' = Contract!Stored(q, fp[q])
    BY <1>4, <1>6 DEF SlotOf, Contract!Stored
  <1>7. [k \in Keys |-> SlotOf(k)'] =
        [[k \in Keys |-> SlotOf(k)] EXCEPT ![key[q]] = Contract!Stored(q, fp[q])]
    BY <1>5, <1>6
  <1> QED  BY <1>1, <1>2, <1>5, <1>7 DEF Contract!Fill

\* release(), one that changes nothing, and the crash of an owner.
Leaves(q) ==
    Deletes(q) \/ (DiscardError(q) /\ UNCHANGED table) \/ (Crash(q) /\ Owner(q))

\* Each of these is the contract's GiveUp; after a complete() whose answer was
\* lost it forgets the response, or nothing happens to it.
LEMMA LeavingGivesUp ==
    ASSUME IInv, IInv', NEW q \in Requests, Leaves(q)
    PROVE  [Contract!Next]_(Contract!vars)
  <1>1. /\ Owner(q) /\ ~Owner(q)' /\ UNCHANGED <<key, fp, served>>
        /\ \A r \in Requests \ {q} : phase'[r] = phase[r]
        /\ table' = table \/ table' = [table EXCEPT ![key[q]] = NoRow]
    BY DEF Leaves, Deletes, Release, DiscardError, Failed, Delete, Crash, reqvars, Owner,
           OwnerPhases, IInv, TypeOK
  <1>2. key[q] \in Keys /\ table[key[q]] # NoRow
    BY <1>1 DEF IInv, ReqInv, Known, Asked, Owned, Owner, OwnerPhases
  <1>3. /\ \A k \in Keys \ {key[q]} : table'[k] = table[k]
        /\ table'[key[q]] = NoRow \/ table'[key[q]] = table[key[q]]
    BY <1>1, <1>2 DEF IInv, TypeOK
  <1>4. /\ fp[q] \in Fingerprints
        /\ \A r \in Requests : Owner(r)' => key'[r] # key[q]
        /\ \A k \in Keys \ {key[q]} : SlotOf(k)' = SlotOf(k)
    BY <1>1, <1>3, OwnerFrame
  <1>5. CASE table[key[q]].state = "in_progress"
    <2>1. SlotOf(key[q]) = Contract!Owned(q, fp[q])  BY <1>1, <1>5, OwnedSlot
    <2>2. ASSUME NEW k \in Keys, k = key[q] PROVE SlotOf(k)' = Contract!Free
      BY <1>3, <1>4, <1>5, <2>2 DEF SlotOf, Contract!Free
    <2>3. [k \in Keys |-> SlotOf(k)'] =
          [[k \in Keys |-> SlotOf(k)] EXCEPT ![key[q]] = Contract!Free]
      BY <1>4, <2>2
    <2>4. Contract!GiveUp(q, key[q], fp[q])
      BY <1>1, <1>2, <2>1, <2>3 DEF Contract!GiveUp
    <2> QED  BY <1>2, <1>4, <2>4 DEF Contract!Next
  <1>6. CASE table[key[q]].state = "completed" /\ table'[key[q]] = NoRow
    <2>1. SlotOf(key[q]).state = "stored"  BY <1>2, <1>6, StoredSlot DEF Contract!Stored
    <2>2. ASSUME NEW k \in Keys, k = key[q] PROVE SlotOf(k)' = Contract!Free
      BY <1>4, <1>6, <2>2 DEF SlotOf, Contract!Free
    <2>3. [k \in Keys |-> SlotOf(k)'] =
          [k \in Keys |-> IF k \in {key[q]} THEN Contract!Free ELSE [x \in Keys |-> SlotOf(x)][k]]
      BY <1>4, <2>2
    <2>4. {key[q]} \in SUBSET {k \in Keys : [x \in Keys |-> SlotOf(x)][k].state = "stored"}
      BY <1>2, <2>1
    <2>5. Contract!Forget
      BY <1>1, <2>3, <2>4 DEF Contract!Forget, Contract!Holding, Contract!Without
    <2> QED  BY <2>5 DEF Contract!Next
  <1>7. CASE table[key[q]].state = "completed" /\ table'[key[q]] = table[key[q]]
    <2>1. \A k \in Keys : k = key[q] => SlotOf(k)' = SlotOf(k)
      BY <1>2, <1>7 DEF SlotOf
    <2>2. \A k \in Keys : SlotOf(k)' = SlotOf(k)  BY <1>4, <2>1
    <2> QED  BY <1>1, <2>2 DEF Contract!vars
  <1>8. table[key[q]].state \in {"in_progress", "completed"}
    BY <1>2, Rows DEF IInv
  <1> QED  BY <1>3, <1>5, <1>6, <1>7, <1>8

\* What no client can tell: a step that leaves rows, answers and owners alone.
Hidden(q) ==
    \/ Quiet(q) /\ ~DiscardError(q)
    \/ PurgeExpired(q) \/ ReinsertConflict(q) \/ ClaimError(q) \/ (Crash(q) /\ ~Owner(q))

\* They leave the state of the contract alone.
LEMMA HiddenSteps ==
    ASSUME IInv, IInv', Tick \/ UNCHANGED vars \/ \E q \in Requests : Hidden(q)
    PROVE  UNCHANGED Contract!vars
  <1>1. table' = table /\ served' = served
    BY DEF Hidden, Quiet, Begin, PurgeExpired, InsertConflict, SelectNothing, SelectStale,
           HandlerSucceeds, HandlerFails, CompleteError, ReleaseError, ReinsertConflict,
           ClaimError, Crash, Abort, Tick, reqvars, vars
  <1>2. ASSUME NEW r \in Requests
        PROVE  (Owner(r)' <=> Owner(r)) /\ (Owner(r) => key'[r] = key[r] /\ fp'[r] = fp[r])
    BY DEF IInv, TypeOK, Hidden, Quiet, Begin, PurgeExpired, InsertConflict, SelectNothing,
           SelectStale, HandlerSucceeds, HandlerFails, CompleteError, ReleaseError,
           ReinsertConflict, ClaimError, Crash, Abort, Tick, reqvars, vars, Owner, ClaimPhases,
           OwnerPhases
  <1>3. ASSUME NEW k \in Keys PROVE SlotOf(k)' = SlotOf(k)
    BY <1>1, <1>2, SlotFrame
  <1> QED  BY <1>1, <1>3 DEF Contract!vars

\* Every step of a worker, of a handler and of the table is a step of the
\* contract or leaves the contract's state alone.
LEMMA ContractStep ==
    ASSUME TimelyRequests, ReleasesAnswered, IInv, IInv', [Next]_vars
    PROVE  [Contract!Next]_(Contract!vars)
  <1>1. ASSUME NEW q \in Requests, Grants(q) \/ SelectRefused(q) PROVE Contract!Next
    <2>1. key[q] \in Keys /\ fp[q] \in Fingerprints
      BY <1>1 DEF Grants, Insert, Reinsert, Takeover, SelectRefused, IInv, ReqInv, Known, Asked
    <2> QED  BY <1>1, <2>1, GrantOwns, LostGrantForgets, RefusalAnswers DEF Contract!Next
  <1>2. ASSUME NEW q \in Requests, Fills(q) PROVE Contract!Next
    BY <1>2, CompleteFills DEF Contract!Next
  <1>3. ASSUME NEW q \in Requests, Leaves(q) PROVE [Contract!Next]_(Contract!vars)
    BY <1>3, LeavingGivesUp
  <1>4. ASSUME Tick \/ UNCHANGED vars \/ \E q \in Requests : Hidden(q)
        PROVE  UNCHANGED Contract!vars
    BY <1>4, HiddenSteps
  <1>5. ASSUME NEW q \in Requests, Quiet(q) \/ Fills(q) \/ Deletes(q)
        PROVE  Hidden(q) \/ Fills(q) \/ Leaves(q)
    <2>1. CASE Quiet(q) /\ DiscardError(q)
      <3>1. table' = table
        BY <2>1 DEF Quiet, Begin, InsertConflict, SelectNothing, SelectStale, HandlerSucceeds,
               HandlerFails
      <3> QED  BY <2>1, <3>1 DEF Leaves
    <2> QED  BY <1>5, <2>1 DEF Hidden, Leaves
  <1>6. ASSUME NEW q \in Requests,
               \/ Quiet(q) \/ Complete(q) \/ Release(q) \/ CompleteError(q) \/ ReleaseError(q)
               \/ DiscardError(q)
        PROVE  [Contract!Next]_(Contract!vars)
    <2>1. Quiet(q) \/ Fills(q) \/ Deletes(q)  BY <1>6, RejectingSteps DEF Fills, Deletes
    <2> QED  BY <2>1, <1>2, <1>3, <1>4, <1>5
  <1>7. ASSUME NEW q \in Requests, PurgeExpired(q) \/ RolledBack(q)
        PROVE  [Contract!Next]_(Contract!vars)
    <2>1. Hidden(q) \/ Leaves(q)  BY <1>7 DEF RolledBack, Hidden, Leaves
    <2> QED  BY <2>1, <1>3, <1>4
  <1> QED  BY <1>1, <1>4, <1>6, <1>7 DEF Next, Grants, RolledBack, Quiet

\* When requests are in time, takeovers undisturbed and the releases of failed
\* Results answered, all the statements of all the workers implement the
\* contract: every behaviour, whatever else rejects or dies in it, is one that
\* the contract allows.
THEOREM Refinement ==
    ASSUME TimelyRequests, ~TakeoversOverlap, ReleasesAnswered
    PROVE  Spec => ImplementsContract
  <1>1. Init => Contract!Init
    BY DEF Init, Contract!Init, SlotOf, Owner, OwnerPhases, Contract!Free
  <1>2. IInv /\ IInv' /\ [Next]_vars => [Contract!Next]_(Contract!vars)
    BY ContractStep
  <1> QED
    BY <1>1, <1>2, ClaimInvariant, PTL DEF Spec, ImplementsContract, Contract!Spec
=============================================================================
