------------------------- MODULE IdempotencyProofs -------------------------
(***************************************************************************)
(* Proofs about IdempotencyStore, for every set of requests, keys and      *)
(* fingerprints and every setting of the two TTLs.  Under TimelyHandlers   *)
(* the record of a running handler is its own, although records carry no   *)
(* owner; everything else follows from that.                               *)
(***************************************************************************)
EXTENDS IdempotencyStore, TLAPS

-----------------------------------------------------------------------------
(* The inductive invariant, one idea per conjunct *)

\* A request has an outcome only once it is done, and a key once it ran.
Progress ==
    \A r \in Requests :
        /\ outcome[r] # "none" => phase[r] = "done"
        /\ Ran(r) => key[r] \in Keys /\ fp[r] \in Fingerprints /\ claimed[r] <= now
        /\ outcome[r] = "completed" => served[r] = r
        /\ outcome[r] \in {"none", "failed"} => served[r] = NoRequest

\* A record lives for Ttl from its claim.
RecordLife ==
    \A k \in Keys :
        records[k] # Absent => records[k].expiresAt = records[k].claimedAt + Ttl

\* The record under the key of a running handler is the one its claim wrote.
ClaimHeld ==
    \A r \in Requests :
        phase[r] = "running" =>
            /\ now <= claimed[r] + HandlerMax
            /\ records[key[r]] # Absent
            /\ records[key[r]].state = "in_progress"
            /\ records[key[r]].fingerprint = fp[r]
            /\ records[key[r]].claimedAt = claimed[r]

\* Nobody claimed a key after the handler that is running for it.
LatestClaim ==
    \A r, s \in Requests :
        (phase[r] = "running" /\ Ran(s) /\ key[r] = key[s]) => claimed[s] <= claimed[r]

\* A stored response is that of a successful handler for key and bytes.
StoredBy ==
    \A k \in Keys :
        (records[k] # Absent /\ records[k].state = "completed") =>
            \E o \in Requests :
                /\ records[k].body = o
                /\ outcome[o] = "completed"
                /\ key[o] = k
                /\ fp[o] = records[k].fingerprint
                /\ claimed[o] = records[k].claimedAt

\* Until Ttl after the claim of a successful handler, its record is there.
Remembered ==
    \A r \in Requests :
        (outcome[r] = "completed" /\ now < claimed[r] + Ttl) =>
            /\ records[key[r]] # Absent
            /\ records[key[r]].state = "completed"
            /\ records[key[r]].claimedAt = claimed[r]

\* What a granted claim guarantees until its handler settles or hangs.
Core ==
    /\ Progress
    /\ RecordLife
    /\ ClaimHeld
    /\ LatestClaim
    /\ StoredBy
    /\ Remembered
    /\ OneRunningHandler
    /\ AtMostOncePerTtl
    /\ ReplayFaithful

\* A running request has a key of the header, never the "no key" value.
KeyKnown == \A r \in Requests : phase[r] = "running" => key[r] \in Keys

TypeInv == TypeOK /\ KeyKnown

IInv == TypeInv /\ Core

-----------------------------------------------------------------------------
(* Type correctness *)

\* Writing a claim keeps the store's type.
LEMMA ClaimTypes ==
    ASSUME TypeOK, NEW k \in Keys, NEW f \in Fingerprints
    PROVE  [records EXCEPT ![k] = FreshClaim(f)] \in [Keys -> ClaimRecord \cup {Absent}]
<1>1. FreshClaim(f) \in ClaimRecord
  BY TtlAssumption DEF TypeOK, FreshClaim, ClaimRecord
<1>2. QED
  BY <1>1 DEF TypeOK

\* complete() keeps the store's type.
LEMMA CompleteTypes ==
    ASSUME TypeOK, NEW r \in Requests, key[r] \in Keys
    PROVE  Complete(r) \in [Keys -> ClaimRecord \cup {Absent}]
<1>1. CASE records[key[r]] = Absent
  BY <1>1 DEF TypeOK, Complete
<1>2. CASE records[key[r]] # Absent
  <2>1. records[key[r]] \in ClaimRecord
    BY <1>2 DEF TypeOK
  <2>2. [records[key[r]] EXCEPT !.state = "completed", !.body = r] \in ClaimRecord
    BY <2>1 DEF ClaimRecord
  <2>3. QED
    BY <1>2, <2>2 DEF TypeOK, Complete
<1>3. QED
  BY <1>1, <1>2

\* An answer without a handler keeps the types and the known keys.
LEMMA AnswerTypes ==
    ASSUME TypeInv, NEW r \in Requests, NEW k \in Keys \cup {NoKey},
           NEW f \in Fingerprints \cup {NoFingerprint}, NEW how \in Outcomes,
           NEW from \in Requests \cup {NoRequest},
           Arrive(r, k, f), Answer(r, how, from)
    PROVE  TypeInv'
BY DEF TypeInv, TypeOK, KeyKnown, Arrive, Answer, Phases

\* Every step keeps the types.
LEMMA TypeStep == TypeInv /\ [Next]_vars => TypeInv'
<1> SUFFICES ASSUME TypeInv, [Next]_vars PROVE TypeInv'
  OBVIOUS
<1>1. ASSUME NEW r \in Requests, PassThrough(r) PROVE TypeInv'
  BY <1>1, AnswerTypes DEF PassThrough, Outcomes
<1>2. ASSUME NEW r \in Requests, MissingKey(r) PROVE TypeInv'
  BY <1>2, AnswerTypes DEF MissingKey, Outcomes
<1>3. ASSUME NEW r \in Requests, NEW k \in Keys, NEW f \in Fingerprints, Claim(r, k, f)
      PROVE  TypeInv'
  <2>1. records' \in [Keys -> ClaimRecord \cup {Absent}]
    BY <1>3, ClaimTypes DEF TypeInv, Claim
  <2>2. QED
    BY <1>3, <2>1 DEF TypeInv, TypeOK, KeyKnown, Claim, Arrive, Phases
<1>4. ASSUME NEW r \in Requests, NEW k \in Keys, NEW f \in Fingerprints, Mismatch(r, k, f)
      PROVE  TypeInv'
  BY <1>4, AnswerTypes DEF Mismatch, Outcomes
<1>5. ASSUME NEW r \in Requests, NEW k \in Keys, NEW f \in Fingerprints, InProgress(r, k, f)
      PROVE  TypeInv'
  BY <1>5, AnswerTypes DEF InProgress, Outcomes
<1>6. ASSUME NEW r \in Requests, NEW k \in Keys, NEW f \in Fingerprints, Replay(r, k, f)
      PROVE  TypeInv'
  <2>1. records[k] \in ClaimRecord
    BY <1>6, TtlAssumption DEF TypeInv, TypeOK, Replay, Vacant
  <2>2. records[k].body \in Requests \cup {NoRequest}
    BY <2>1 DEF ClaimRecord
  <2>3. QED
    BY <1>6, <2>2, AnswerTypes DEF Replay, Outcomes
<1>7. ASSUME NEW r \in Requests, Succeed(r) PROVE TypeInv'
  <2>1. key[r] \in Keys
    BY <1>7 DEF TypeInv, KeyKnown, Succeed
  <2>2. records' \in [Keys -> ClaimRecord \cup {Absent}]
    BY <1>7, <2>1, CompleteTypes DEF TypeInv, Succeed
  <2>3. QED
    BY <1>7, <2>2 DEF TypeInv, TypeOK, KeyKnown, Succeed, Phases, Outcomes
<1>8. ASSUME NEW r \in Requests, Fail(r) PROVE TypeInv'
  BY <1>8 DEF TypeInv, TypeOK, KeyKnown, Fail, Release, Phases, Outcomes
<1>9. ASSUME NEW r \in Requests, Hang(r) PROVE TypeInv'
  BY <1>9 DEF TypeInv, TypeOK, KeyKnown, Hang, Phases
<1>10. CASE Tick
  BY <1>10 DEF TypeInv, TypeOK, KeyKnown, Tick
<1>11. CASE UNCHANGED vars
  BY <1>11 DEF TypeInv, TypeOK, KeyKnown, vars
<1>12. QED
  BY <1>1, <1>2, <1>3, <1>4, <1>5, <1>6, <1>7, <1>8, <1>9, <1>10, <1>11 DEF Next

\* Every reachable state of interceptor and store is well typed.
THEOREM TypeCorrect == Spec => []TypeOK
<1>1. Init => TypeInv
  BY SentinelAssumption DEF Init, TypeInv, TypeOK, KeyKnown, Phases, Outcomes
<1>2. TypeInv /\ [Next]_vars => TypeInv'
  BY TypeStep
<1>3. TypeInv => TypeOK
  BY DEF TypeInv
<1>4. QED
  BY <1>1, <1>2, <1>3, PTL DEF Spec

-----------------------------------------------------------------------------
(* The inductive step, action by action *)

\* A request with no handler never disturbs the others, whatever it is
\* answered, provided that a replay is faithful.
LEMMA AnswerKeepsCore ==
    ASSUME TypeOK, Core, NEW r \in Requests, NEW k \in Keys \cup {NoKey},
           NEW f \in Fingerprints \cup {NoFingerprint},
           NEW how \in Outcomes \ {"none", "completed", "failed"},
           NEW from \in Requests \cup {NoRequest},
           Arrive(r, k, f), Answer(r, how, from),
           how = "replay" => \E o \in Requests : /\ from = o
                                                  /\ outcome[o] = "completed"
                                                  /\ key[o] = k
                                                  /\ fp[o] = f
    PROVE  Core'
<1>1. outcome[r] = "none" /\ phase[r] = "new" /\ ~Ran(r)
  BY DEF TypeOK, Core, Progress, Arrive, Outcomes, Ran
<1>2. \A s \in Requests \ {r} : /\ phase'[s] = phase[s] /\ key'[s] = key[s] /\ fp'[s] = fp[s]
                                /\ outcome'[s] = outcome[s] /\ served'[s] = served[s]
                                /\ claimed'[s] = claimed[s] /\ Ran(s)' = Ran(s)
  BY DEF TypeOK, Arrive, Answer, Ran
<1>3. phase'[r] = "done" /\ outcome'[r] = how /\ ~Ran(r)' /\ served'[r] = from
      /\ key'[r] = k /\ fp'[r] = f
  BY DEF TypeOK, Arrive, Answer, Ran, Outcomes
<1>4. now' = now /\ records' = records
  BY DEF Answer
<1>5. Progress'
  BY <1>1, <1>2, <1>3, <1>4 DEF Core, Progress
<1>6. RecordLife'
  BY <1>4 DEF Core, RecordLife
<1>7. ClaimHeld'
  BY <1>1, <1>2, <1>3, <1>4 DEF Core, ClaimHeld
<1>8. LatestClaim'
  BY <1>1, <1>2, <1>3, <1>4 DEF Core, LatestClaim
<1>9. StoredBy'
  BY <1>1, <1>2, <1>3, <1>4 DEF Core, StoredBy
<1>10. Remembered'
  BY <1>1, <1>2, <1>3, <1>4 DEF Core, Remembered
<1>11. OneRunningHandler'
  BY <1>1, <1>2, <1>3, <1>4 DEF Core, OneRunningHandler
<1>12. AtMostOncePerTtl'
  BY <1>1, <1>2, <1>3, <1>4 DEF Core, AtMostOncePerTtl
<1>13. ReplayFaithful'
  BY <1>1, <1>2, <1>3, <1>4 DEF Core, ReplayFaithful
<1>14. QED
  BY <1>5, <1>6, <1>7, <1>8, <1>9, <1>10, <1>11, <1>12, <1>13 DEF Core

\* Nobody can claim the key of a running handler.
LEMMA RunningExcludesClaim ==
    ASSUME TimelyHandlers, TypeOK, Core, NEW s \in Requests, NEW f \in Fingerprints,
           phase[s] = "running", key[s] \in Keys
    PROVE  ~Claimable(key[s], f)
<1>1. /\ records[key[s]] \in ClaimRecord
      /\ records[key[s]].claimedAt = claimed[s]
      /\ records[key[s]].expiresAt = claimed[s] + Ttl
      /\ now <= claimed[s] + HandlerMax
      /\ claimed[s] \in Nat
      /\ now \in Nat
  BY DEF TypeOK, Core, ClaimHeld, RecordLife
<1>2. ~Vacant(key[s])
  BY <1>1, TtlAssumption, BoundAssumption, SentinelAssumption DEF Vacant, TimelyHandlers
<1>3. ~Abandoned(key[s])
  BY <1>1, TtlAssumption, BoundAssumption DEF Abandoned, TimelyHandlers
<1>4. QED
  BY <1>2, <1>3 DEF Claimable

\* Nobody can claim the key of a success that is younger than Ttl.
LEMMA MemoryExcludesClaim ==
    ASSUME TypeOK, Core, NEW s \in Requests, NEW f \in Fingerprints,
           outcome[s] = "completed", now < claimed[s] + Ttl
    PROVE  ~Claimable(key[s], f)
<1>1. /\ key[s] \in Keys
      /\ claimed[s] \in Nat
      /\ now \in Nat
      /\ records[key[s]] \in ClaimRecord
      /\ records[key[s]].state = "completed"
      /\ records[key[s]].expiresAt = claimed[s] + Ttl
  BY DEF TypeOK, Core, Progress, Ran, Remembered, RecordLife
<1>2. ~Vacant(key[s])
  BY <1>1, TtlAssumption, SentinelAssumption DEF Vacant
<1>3. QED
  BY <1>1, <1>2 DEF Claimable, Abandoned

\* Granting a claim preserves the invariant.
LEMMA ClaimKeepsCore ==
    ASSUME TimelyHandlers, TypeInv, Core, NEW r \in Requests, NEW k \in Keys,
           NEW f \in Fingerprints, Claim(r, k, f)
    PROVE  Core'
<1>1. outcome[r] = "none" /\ phase[r] = "new" /\ ~Ran(r)
  BY DEF TypeInv, TypeOK, Core, Progress, Claim, Arrive, Outcomes, Ran
<1>2. \A s \in Requests \ {r} : /\ phase'[s] = phase[s] /\ key'[s] = key[s] /\ fp'[s] = fp[s]
                                /\ outcome'[s] = outcome[s] /\ served'[s] = served[s]
                                /\ claimed'[s] = claimed[s] /\ Ran(s)' = Ran(s)
  BY DEF TypeInv, TypeOK, Claim, Arrive, Ran
<1>3. /\ phase'[r] = "running" /\ outcome'[r] = "none" /\ Ran(r)' /\ claimed'[r] = now
      /\ key'[r] = k /\ fp'[r] = f /\ served'[r] = served[r]
  BY <1>1 DEF TypeInv, TypeOK, Claim, Arrive, Ran
<1>4. /\ now' = now
      /\ records'[k] = FreshClaim(f)
      /\ \A other \in Keys \ {k} : records'[other] = records[other]
  BY DEF TypeInv, TypeOK, Claim
<1>5. \A s \in Requests : phase[s] = "running" => key[s] # k
  BY RunningExcludesClaim DEF TypeInv, KeyKnown, Claim
<1>6. \A s \in Requests : outcome[s] = "completed" /\ key[s] = k => ~(now < claimed[s] + Ttl)
  BY MemoryExcludesClaim DEF TypeInv, Claim
<1>7. now \in Nat /\ \A s \in Requests : claimed[s] \in Nat
  BY DEF TypeInv, TypeOK
<1>8. FreshClaim(f) # Absent
  <2>1. FreshClaim(f) \in ClaimRecord
    BY <1>7, TtlAssumption DEF FreshClaim, ClaimRecord
  <2>2. QED
    BY <2>1, SentinelAssumption
<1>9. Progress'
  BY <1>1, <1>2, <1>3, <1>4, <1>7 DEF Core, Progress
<1>10. RecordLife'
  BY <1>4 DEF Core, RecordLife, FreshClaim
<1>11. ClaimHeld'
  BY <1>2, <1>3, <1>4, <1>5, <1>7, <1>8, BoundAssumption
     DEF Core, ClaimHeld, FreshClaim, TypeInv, KeyKnown
<1>12. LatestClaim'
  BY <1>1, <1>2, <1>3, <1>5, <1>4, <1>7 DEF Core, LatestClaim, Progress
<1>13. StoredBy'
  BY <1>1, <1>2, <1>3, <1>4 DEF Core, StoredBy, FreshClaim
<1>14. Remembered'
  BY <1>1, <1>2, <1>3, <1>4, <1>6 DEF Core, Remembered, Progress, Ran
<1>15. OneRunningHandler'
  BY <1>2, <1>3, <1>5 DEF Core, OneRunningHandler
<1>16. AtMostOncePerTtl'
  BY <1>1, <1>2, <1>3, <1>6, <1>7, TtlAssumption DEF Core, AtMostOncePerTtl
<1>17. ReplayFaithful'
  BY <1>1, <1>2, <1>3 DEF Core, ReplayFaithful
<1>18. QED
  BY <1>9, <1>10, <1>11, <1>12, <1>13, <1>14, <1>15, <1>16, <1>17 DEF Core

\* What a settling handler finds, changes and leaves alone.
Settled(r) ==
    /\ phase[r] = "running" /\ phase'[r] = "done" /\ outcome[r] = "none"
    /\ key[r] \in Keys /\ Ran(r) /\ Ran(r)'
    /\ now' = now /\ key' = key /\ fp' = fp /\ claimed' = claimed
    /\ \A s \in Requests \ {r} : /\ phase'[s] = phase[s] /\ outcome'[s] = outcome[s]
                                 /\ served'[s] = served[s] /\ Ran(s)' = Ran(s)
    /\ \A s \in Requests \ {r} : key[s] = key[r] => phase[s] # "running"
    /\ \A s \in Requests : outcome[s] = "completed" /\ key[s] = key[r]
                             => ~(now < claimed[s] + Ttl)

\* No other handler runs for the key and no success of it is young.
LEMMA SettleFrame ==
    ASSUME TypeInv, Core, NEW r \in Requests, Succeed(r) \/ Fail(r)
    PROVE  Settled(r)
<1>1. phase[r] = "running"
  BY DEF Succeed, Fail
<1>2. outcome[r] = "none" /\ key[r] \in Keys
  BY <1>1 DEF TypeInv, TypeOK, KeyKnown, Core, Progress, Outcomes
<1>3. /\ phase'[r] = "done" /\ Ran(r) /\ Ran(r)'
      /\ now' = now /\ key' = key /\ fp' = fp /\ claimed' = claimed
      /\ \A s \in Requests \ {r} : /\ phase'[s] = phase[s] /\ outcome'[s] = outcome[s]
                                   /\ served'[s] = served[s] /\ Ran(s)' = Ran(s)
  BY DEF TypeInv, TypeOK, Succeed, Fail, Ran
<1>4. \A s \in Requests \ {r} : key[s] = key[r] => phase[s] # "running"
  BY <1>1 DEF Core, OneRunningHandler
<1>5. \A s \in Requests : outcome[s] = "completed" /\ key[s] = key[r] => ~(now < claimed[s] + Ttl)
  BY <1>1 DEF Core, ClaimHeld, Remembered
<1>6. QED
  BY <1>1, <1>2, <1>3, <1>4, <1>5 DEF Settled

\* Storing the response of a successful handler preserves the invariant.
LEMMA SucceedKeepsCore ==
    ASSUME TypeInv, Core, NEW r \in Requests, Succeed(r)
    PROVE  Core'
<1>0. Settled(r)
  BY SettleFrame
<1> USE <1>0 DEF Settled
<1>1. outcome'[r] = "completed" /\ served'[r] = r
  BY DEF TypeInv, TypeOK, Succeed
<1>2. /\ records[key[r]] # Absent
      /\ records[key[r]].fingerprint = fp[r]
      /\ records[key[r]].claimedAt = claimed[r]
  BY DEF Core, ClaimHeld
<1>3. records[key[r]] \in ClaimRecord
  BY <1>2 DEF TypeInv, TypeOK
<1>4. /\ \A other \in Keys \ {key[r]} : records'[other] = records[other]
      /\ records'[key[r]] = [records[key[r]] EXCEPT !.state = "completed", !.body = r]
  BY <1>2 DEF TypeInv, TypeOK, Succeed, Complete
<1>5. /\ records'[key[r]].state = "completed"
      /\ records'[key[r]].body = r
      /\ records'[key[r]].fingerprint = fp[r]
      /\ records'[key[r]].claimedAt = claimed[r]
      /\ records'[key[r]].expiresAt = records[key[r]].expiresAt
      /\ records'[key[r]] \in ClaimRecord
  BY <1>2, <1>3, <1>4 DEF ClaimRecord
<1>6. records'[key[r]] # Absent
  BY <1>5, SentinelAssumption
<1>7. now \in Nat /\ \A s \in Requests : claimed[s] \in Nat
  BY DEF TypeInv, TypeOK
<1>8. Progress'
  BY <1>1, <1>7 DEF Core, Progress
<1>9. RecordLife'
  <2> SUFFICES ASSUME NEW k \in Keys, records'[k] # Absent
               PROVE  records'[k].expiresAt = records'[k].claimedAt + Ttl
    BY DEF RecordLife
  <2>1. CASE k = key[r]
    BY <2>1, <1>2, <1>5 DEF Core, RecordLife
  <2>2. CASE k # key[r]
    BY <2>2, <1>4 DEF Core, RecordLife
  <2>3. QED
    BY <2>1, <2>2
<1>10. ClaimHeld'
  BY <1>4 DEF Core, ClaimHeld, TypeInv, KeyKnown
<1>11. LatestClaim'
  BY DEF Core, LatestClaim
<1>12. StoredBy'
  <2> SUFFICES ASSUME NEW k \in Keys, records'[k] # Absent, records'[k].state = "completed"
               PROVE  \E o \in Requests : /\ records'[k].body = o
                                          /\ outcome'[o] = "completed"
                                          /\ key[o] = k
                                          /\ fp[o] = records'[k].fingerprint
                                          /\ claimed[o] = records'[k].claimedAt
    BY DEF StoredBy
  <2>1. CASE k = key[r]
    BY <2>1, <1>1, <1>5
  <2>2. CASE k # key[r]
    BY <2>2, <1>4 DEF Core, StoredBy
  <2>3. QED
    BY <2>1, <2>2
<1>13. Remembered'
  <2> SUFFICES ASSUME NEW a \in Requests, outcome'[a] = "completed", now < claimed[a] + Ttl
               PROVE  /\ records'[key[a]] # Absent
                      /\ records'[key[a]].state = "completed"
                      /\ records'[key[a]].claimedAt = claimed[a]
    BY DEF Remembered
  <2>1. CASE a = r
    BY <2>1, <1>5, <1>6
  <2>2. CASE a # r
    BY <2>2, <1>4 DEF Core, Remembered, Progress, Ran
  <2>3. QED
    BY <2>1, <2>2
<1>14. OneRunningHandler'
  BY DEF Core, OneRunningHandler
<1>15. AtMostOncePerTtl'
  <2> SUFFICES ASSUME NEW a \in Requests, NEW b \in Requests,
                      a # b, outcome'[a] = "completed", Ran(b)', key[a] = key[b]
               PROVE  claimed[b] <= claimed[a] \/ claimed[b] >= claimed[a] + Ttl
    BY DEF AtMostOncePerTtl
  <2>1. CASE a = r
    BY <2>1 DEF Core, LatestClaim
  <2>2. CASE a # r /\ b = r
    BY <2>2 DEF Core, AtMostOncePerTtl
  <2>3. CASE a # r /\ b # r
    BY <2>3 DEF Core, AtMostOncePerTtl
  <2>4. QED
    BY <2>1, <2>2, <2>3
<1>16. ReplayFaithful'
  BY <1>1 DEF Core, ReplayFaithful
<1>17. QED
  BY <1>8, <1>9, <1>10, <1>11, <1>12, <1>13, <1>14, <1>15, <1>16 DEF Core

\* Releasing the key of a failed handler preserves the invariant.
LEMMA FailKeepsCore ==
    ASSUME TypeInv, Core, NEW r \in Requests, Fail(r)
    PROVE  Core'
<1>0. Settled(r)
  BY SettleFrame
<1> USE <1>0 DEF Settled
<1>1. outcome'[r] = "failed" /\ served' = served
  BY DEF TypeInv, TypeOK, Fail
<1>2. /\ \A other \in Keys \ {key[r]} : records'[other] = records[other]
      /\ records'[key[r]] = Absent
  BY DEF TypeInv, TypeOK, Fail, Release
<1>3. now \in Nat /\ \A s \in Requests : claimed[s] \in Nat
  BY DEF TypeInv, TypeOK
<1>4. Progress'
  BY <1>1, <1>3 DEF Core, Progress
<1>5. RecordLife'
  BY <1>2 DEF Core, RecordLife
<1>6. ClaimHeld'
  BY <1>2 DEF Core, ClaimHeld, TypeInv, KeyKnown
<1>7. LatestClaim'
  BY DEF Core, LatestClaim
<1>8. StoredBy'
  BY <1>1, <1>2 DEF Core, StoredBy
<1>9. Remembered'
  BY <1>1, <1>2 DEF Core, Remembered, Progress, Ran
<1>10. OneRunningHandler'
  BY DEF Core, OneRunningHandler
<1>11. AtMostOncePerTtl'
  BY <1>1 DEF Core, AtMostOncePerTtl
<1>12. ReplayFaithful'
  BY <1>1 DEF Core, ReplayFaithful
<1>13. QED
  BY <1>4, <1>5, <1>6, <1>7, <1>8, <1>9, <1>10, <1>11, <1>12 DEF Core

\* A handler that hangs keeps its record and stops counting as running.
LEMMA HangKeepsCore ==
    ASSUME TypeInv, Core, NEW r \in Requests, Hang(r)
    PROVE  Core'
<1>1. /\ phase[r] = "running" /\ phase'[r] = "hung" /\ outcome[r] = "none" /\ Ran(r) /\ Ran(r)'
      /\ \A s \in Requests \ {r} : phase'[s] = phase[s] /\ Ran(s)' = Ran(s)
  BY DEF TypeInv, TypeOK, Core, Progress, Outcomes, Hang, Ran
<1>2. /\ now' = now /\ records' = records /\ key' = key /\ fp' = fp
      /\ claimed' = claimed /\ outcome' = outcome /\ served' = served
  BY DEF Hang
<1>3. Progress'
  BY <1>1, <1>2 DEF Core, Progress
<1>4. RecordLife' /\ StoredBy' /\ Remembered' /\ ReplayFaithful'
  BY <1>2 DEF Core, RecordLife, StoredBy, Remembered, ReplayFaithful
<1>5. ClaimHeld' /\ OneRunningHandler'
  BY <1>1, <1>2 DEF Core, ClaimHeld, OneRunningHandler
<1>6. LatestClaim' /\ AtMostOncePerTtl'
  BY <1>1, <1>2 DEF Core, LatestClaim, AtMostOncePerTtl
<1>7. QED
  BY <1>3, <1>4, <1>5, <1>6 DEF Core

\* The passing of time expires claims but never one that is running.
LEMMA TickKeepsCore ==
    ASSUME TypeInv, Core, Tick
    PROVE  Core'
<1>1. /\ now' = now + 1 /\ records' = records /\ phase' = phase /\ key' = key /\ fp' = fp
      /\ claimed' = claimed /\ outcome' = outcome /\ served' = served
      /\ \A r \in Requests : phase[r] = "running" => now < claimed[r] + HandlerMax
      /\ now \in Nat /\ \A r \in Requests : claimed[r] \in Nat
  BY DEF Tick, TypeInv, TypeOK
<1>2. Progress'
  BY <1>1 DEF Core, Progress, Ran
<1>3. RecordLife' /\ StoredBy' /\ ReplayFaithful' /\ OneRunningHandler'
  BY <1>1 DEF Core, RecordLife, StoredBy, ReplayFaithful, OneRunningHandler
<1>4. LatestClaim' /\ AtMostOncePerTtl'
  BY <1>1 DEF Core, LatestClaim, AtMostOncePerTtl, Ran
<1>5. ClaimHeld'
  BY <1>1, BoundAssumption DEF Core, ClaimHeld
<1>6. Remembered'
  BY <1>1, TtlAssumption DEF Core, Remembered
<1>7. QED
  BY <1>2, <1>3, <1>4, <1>5, <1>6 DEF Core

\* A replay hands out what StoredBy says of the record.
LEMMA ReplayKeepsCore ==
    ASSUME TypeInv, Core, NEW r \in Requests, NEW k \in Keys, NEW f \in Fingerprints,
           Replay(r, k, f)
    PROVE  Core'
<1>1. records[k] # Absent /\ records[k].fingerprint = f /\ records[k].state = "completed"
  BY DEF Replay, Vacant, Matches
<1>2. \E o \in Requests : /\ records[k].body = o
                          /\ outcome[o] = "completed"
                          /\ key[o] = k
                          /\ fp[o] = f
  BY <1>1 DEF Core, StoredBy
<1>3. QED
  BY <1>2, AnswerKeepsCore DEF TypeInv, Replay, Outcomes

\* Every step preserves the invariant when handlers settle in time.
LEMMA CoreStep ==
    ASSUME TimelyHandlers, TypeInv, Core, [Next]_vars
    PROVE  Core'
<1>1. ASSUME NEW r \in Requests, PassThrough(r) PROVE Core'
  BY <1>1, AnswerKeepsCore DEF TypeInv, PassThrough, Outcomes
<1>2. ASSUME NEW r \in Requests, MissingKey(r) PROVE Core'
  BY <1>2, AnswerKeepsCore DEF TypeInv, MissingKey, Outcomes
<1>3. ASSUME NEW r \in Requests, NEW k \in Keys, NEW f \in Fingerprints, Mismatch(r, k, f)
      PROVE  Core'
  BY <1>3, AnswerKeepsCore DEF TypeInv, Mismatch, Outcomes
<1>4. ASSUME NEW r \in Requests, NEW k \in Keys, NEW f \in Fingerprints, InProgress(r, k, f)
      PROVE  Core'
  BY <1>4, AnswerKeepsCore DEF TypeInv, InProgress, Outcomes
<1>5. CASE UNCHANGED vars
  BY <1>5 DEF vars, Core, Progress, RecordLife, ClaimHeld, LatestClaim, StoredBy,
              Remembered, OneRunningHandler, AtMostOncePerTtl, ReplayFaithful, Ran
<1>6. QED
  BY <1>1, <1>2, <1>3, <1>4, <1>5, ClaimKeepsCore, ReplayKeepsCore, SucceedKeepsCore,
     FailKeepsCore, HangKeepsCore, TickKeepsCore DEF Next

\* The invariant holds of every reachable state.
LEMMA InductiveInvariant == TimelyHandlers => (Spec => []IInv)
<1> SUFFICES ASSUME TimelyHandlers PROVE Spec => []IInv
  OBVIOUS
<1>1. Init => IInv
  BY SentinelAssumption
     DEF Init, IInv, TypeInv, TypeOK, KeyKnown, Core, Progress, RecordLife, ClaimHeld,
         LatestClaim, StoredBy, Remembered, OneRunningHandler, AtMostOncePerTtl,
         ReplayFaithful, Ran, Phases, Outcomes
<1>2. IInv /\ [Next]_vars => IInv'
  BY TypeStep, CoreStep DEF IInv
<1>3. QED
  BY <1>1, <1>2, PTL DEF Spec

-----------------------------------------------------------------------------
(* The theorems *)

\* When handlers settle within their claim's life, two of them never run at
\* once for one key.
THEOREM MutualExclusion == TimelyHandlers => (Spec => []OneRunningHandler)
<1>1. IInv => OneRunningHandler
  BY DEF IInv, Core
<1>2. QED
  BY <1>1, InductiveInvariant, PTL

\* When handlers settle within their claim's life, a success is the last run
\* of its key until Ttl has passed since its claim.
THEOREM AtMostOnce == TimelyHandlers => (Spec => []AtMostOncePerTtl)
<1>1. IInv => AtMostOncePerTtl
  BY DEF IInv, Core
<1>2. QED
  BY <1>1, InductiveInvariant, PTL

\* When handlers settle within their claim's life, a replay returns the
\* response of a success with the same key and the same bytes.
THEOREM FaithfulReplay == TimelyHandlers => (Spec => []ReplayFaithful)
<1>1. IInv => ReplayFaithful
  BY DEF IInv, Core
<1>2. QED
  BY <1>1, InductiveInvariant, PTL

\* A stored response that has not expired survives every step.
LEMMA StableStep ==
    ASSUME IInv, [Next]_vars, NEW k \in Keys,
           records[k] # Absent, records[k].state = "completed", records[k].expiresAt > now
    PROVE  records'[k] = records[k]
<1>0. now \in Nat /\ records[k] \in ClaimRecord
  BY DEF IInv, TypeInv, TypeOK
<1>1. records[k].expiresAt \in Nat
  BY <1>0 DEF ClaimRecord
<1>2. ~Vacant(k)
  BY <1>0, <1>1 DEF Vacant
<1>3. ASSUME NEW r \in Requests, NEW other \in Keys, NEW f \in Fingerprints, Claim(r, other, f)
      PROVE  records'[k] = records[k]
  <2>1. other # k
    BY <1>2, <1>3 DEF Claim, Claimable, Abandoned
  <2>2. QED
    BY <1>3, <2>1 DEF Claim, IInv, TypeInv, TypeOK
<1>4. ASSUME NEW r \in Requests, phase[r] = "running" PROVE key[r] # k
  BY <1>4 DEF IInv, Core, ClaimHeld
<1>5. ASSUME NEW r \in Requests, Succeed(r) \/ Fail(r) PROVE records'[k] = records[k]
  BY <1>4, <1>5 DEF Succeed, Fail, Complete, Release, IInv, TypeInv, TypeOK
<1>6. ASSUME NEW r \in Requests, PassThrough(r) \/ MissingKey(r) \/ Hang(r)
      PROVE  records'[k] = records[k]
  BY <1>6 DEF PassThrough, MissingKey, Hang, Answer
<1>7. ASSUME NEW r \in Requests, NEW other \in Keys, NEW f \in Fingerprints,
             Mismatch(r, other, f) \/ InProgress(r, other, f) \/ Replay(r, other, f)
      PROVE  records'[k] = records[k]
  BY <1>7 DEF Mismatch, InProgress, Replay, Answer
<1>8. CASE Tick \/ UNCHANGED vars
  BY <1>8 DEF Tick, vars
<1>9. QED
  BY <1>3, <1>5, <1>6, <1>7, <1>8 DEF Next

\* When handlers settle within their claim's life, no step changes a stored
\* response before it expires.
THEOREM StableReplay == TimelyHandlers => (Spec => StoredResponseStable)
<1> SUFFICES ASSUME TimelyHandlers PROVE Spec => StoredResponseStable
  OBVIOUS
<1>1. IInv /\ [Next]_vars =>
        [\A k \in Keys :
          (records[k] # Absent /\ records[k].state = "completed" /\ records[k].expiresAt > now)
              => records'[k] = records[k]]_vars
  BY StableStep
<1>2. QED
  BY <1>1, InductiveInvariant, PTL DEF Spec, StoredResponseStable

-----------------------------------------------------------------------------
(* The store and the interceptor implement the contract *)

\* The slot of a key a handler runs for is owned by that handler.
LEMMA OwnedSlot ==
    ASSUME IInv, NEW r \in Requests, phase[r] = "running"
    PROVE  SlotOf(key[r]) = Contract!Owned(r, fp[r])
<1>1. (CHOOSE x \in Requests : phase[x] = "running" /\ key[x] = key[r]) = r
  BY DEF IInv, Core, OneRunningHandler
<1>2. QED
  BY <1>1 DEF SlotOf, Contract!Owned

\* The slot of a key no handler runs for is the live record's response, or free.
LEMMA IdleSlot ==
    ASSUME NEW k \in Keys, \A r \in Requests : phase[r] = "running" => key[r] # k
    PROVE  SlotOf(k) = IF ~Vacant(k) /\ records[k].state = "completed"
                       THEN Contract!Stored(records[k].body, records[k].fingerprint)
                       ELSE Contract!Free
BY DEF SlotOf, Contract!Stored, Contract!Free

\* A slot depends on the running handlers and the record of its key only.
LEMMA SlotFrame ==
    ASSUME IInv, IInv', NEW k \in Keys,
           \A r \in Requests : (phase[r] = "running" /\ key[r] = k)
                                 <=> (phase'[r] = "running" /\ key'[r] = k),
           \A r \in Requests : phase[r] = "running" /\ key[r] = k => fp'[r] = fp[r],
           records'[k] = records[k], Vacant(k)' = Vacant(k)
    PROVE  SlotOf(k)' = SlotOf(k)
<1>1. CASE \E r \in Requests : phase[r] = "running" /\ key[r] = k
  <2>1. PICK r \in Requests : phase[r] = "running" /\ key[r] = k
    BY <1>1
  <2>2. SlotOf(k) = Contract!Owned(r, fp[r])
    BY <2>1, OwnedSlot
  <2>3. (CHOOSE x \in Requests : phase'[x] = "running" /\ key'[x] = k) = r
    BY <2>1 DEF IInv, Core, OneRunningHandler
  <2>4. SlotOf(k)' = [state |-> "owned", fingerprint |-> fp'[r], by |-> r]
    BY <2>1, <2>3 DEF SlotOf
  <2>5. QED
    BY <2>1, <2>2, <2>4 DEF Contract!Owned
<1>2. CASE ~\E r \in Requests : phase[r] = "running" /\ key[r] = k
  BY <1>2 DEF SlotOf
<1>3. QED
  BY <1>1, <1>2

\* An answer without a handler leaves every slot as it is.
LEMMA AnswerKeepsSlots ==
    ASSUME IInv, IInv', NEW r \in Requests, NEW k, NEW f, NEW how, NEW from,
           Arrive(r, k, f), Answer(r, how, from)
    PROVE  /\ [x \in Keys |-> SlotOf(x)'] = [x \in Keys |-> SlotOf(x)]
           /\ served[r] = NoRequest
<1>1. ASSUME NEW x \in Keys PROVE SlotOf(x)' = SlotOf(x)
  <2>1. records' = records /\ now' = now /\ Vacant(x)' = Vacant(x)
    BY DEF Answer, Vacant
  <2>2. \A s \in Requests : (phase[s] = "running" /\ key[s] = x)
                              <=> (phase'[s] = "running" /\ key'[s] = x)
    BY DEF IInv, TypeInv, TypeOK, Arrive, Answer
  <2>3. \A s \in Requests : phase[s] = "running" /\ key[s] = x => fp'[s] = fp[s]
    BY DEF IInv, TypeInv, TypeOK, Arrive
  <2>4. QED
    BY <2>1, <2>2, <2>3, SlotFrame
<1>2. served[r] = NoRequest
  BY DEF IInv, TypeInv, TypeOK, Core, Progress, Arrive, Outcomes
<1>3. QED
  BY <1>1, <1>2

\* A granted claim is the contract's Own.
LEMMA ClaimOwns ==
    ASSUME TimelyHandlers, IInv, IInv', NEW r \in Requests, NEW k \in Keys,
           NEW f \in Fingerprints, Claim(r, k, f)
    PROVE  Contract!Own(r, k, f)
<1>1. \A s \in Requests : phase[s] = "running" => key[s] # k
  BY RunningExcludesClaim DEF IInv, TypeInv, KeyKnown, Claim
<1>2. SlotOf(k) = Contract!Free
  <2>1. ~(~Vacant(k) /\ records[k].state = "completed")
    BY DEF Claim, Claimable, Abandoned
  <2>2. QED
    BY <1>1, <2>1, IdleSlot
<1>3. phase[r] = "new" /\ outcome[r] = "none" /\ served[r] = NoRequest
  BY DEF IInv, TypeInv, TypeOK, Core, Progress, Claim, Arrive, Outcomes
<1>4. ASSUME NEW x \in Keys PROVE SlotOf(x).by # r
  <2>1. CASE \E s \in Requests : phase[s] = "running" /\ key[s] = x
    <3>1. PICK s \in Requests : phase[s] = "running" /\ key[s] = x
      BY <2>1
    <3>2. SlotOf(x) = Contract!Owned(s, fp[s])
      BY <3>1, OwnedSlot
    <3>3. QED
      BY <1>3, <3>1, <3>2 DEF Contract!Owned
  <2>2. CASE ~\E s \in Requests : phase[s] = "running" /\ key[s] = x
    <3>1. CASE ~Vacant(x) /\ records[x].state = "completed"
      <4>1. SlotOf(x).by = records[x].body
        BY <2>2, <3>1, IdleSlot DEF Contract!Stored
      <4>2. records[x] # Absent
        BY <3>1 DEF Vacant
      <4>3. QED
        BY <1>3, <3>1, <4>1, <4>2 DEF IInv, Core, StoredBy
    <3>2. CASE ~(~Vacant(x) /\ records[x].state = "completed")
      BY <2>2, <3>2, IdleSlot, SentinelAssumption DEF Contract!Free
    <3>3. QED
      BY <3>1, <3>2
  <2>3. QED
    BY <2>1, <2>2
<1>5. phase'[r] = "running" /\ key'[r] = k /\ fp'[r] = f /\ served' = served
  BY DEF IInv, TypeInv, TypeOK, Claim, Arrive
<1>6. SlotOf(k)' = Contract!Owned(r, f)
  <2>1. (CHOOSE x \in Requests : phase'[x] = "running" /\ key'[x] = k) = r
    BY <1>5 DEF IInv, Core, OneRunningHandler
  <2>2. QED
    BY <1>5, <2>1 DEF SlotOf, Contract!Owned
<1>7. ASSUME NEW x \in Keys \ {k} PROVE SlotOf(x)' = SlotOf(x)
  <2>1. records'[x] = records[x] /\ Vacant(x)' = Vacant(x)
    BY DEF IInv, TypeInv, TypeOK, Claim, Vacant
  <2>2. \A s \in Requests : (phase[s] = "running" /\ key[s] = x)
                              <=> (phase'[s] = "running" /\ key'[s] = x)
    BY <1>3, <1>5 DEF IInv, TypeInv, TypeOK, Claim, Arrive
  <2>3. \A s \in Requests : phase[s] = "running" /\ key[s] = x => fp'[s] = fp[s]
    BY <1>3 DEF IInv, TypeInv, TypeOK, Claim, Arrive
  <2>4. QED
    BY <2>1, <2>2, <2>3, SlotFrame
<1>8. [x \in Keys |-> SlotOf(x)'] =
      [[x \in Keys |-> SlotOf(x)] EXCEPT ![k] = Contract!Owned(r, f)]
  BY <1>6, <1>7
<1>9. QED
  BY <1>2, <1>3, <1>4, <1>5, <1>8 DEF Contract!Own, Contract!Starts

\* A handler that leaves "running" changes the slot of its key only.
LEMMA LeaveFrame ==
    ASSUME IInv, IInv', NEW r \in Requests, Succeed(r) \/ Fail(r) \/ Hang(r)
    PROVE  /\ key[r] \in Keys
           /\ SlotOf(key[r]) = Contract!Owned(r, fp[r])
           /\ \A s \in Requests : phase'[s] = "running" => key'[s] # key[r]
           /\ \A x \in Keys \ {key[r]} : SlotOf(x)' = SlotOf(x)
<1>1. phase[r] = "running" /\ phase' = [phase EXCEPT ![r] = phase'[r]] /\ phase'[r] # "running"
  BY DEF Succeed, Fail, Hang, IInv, TypeInv, TypeOK
<1>2. key[r] \in Keys /\ key' = key /\ fp' = fp /\ now' = now
  BY <1>1 DEF Succeed, Fail, Hang, IInv, TypeInv, KeyKnown
<1>3. \A s \in Requests : phase'[s] = "running" => key'[s] # key[r]
  BY <1>1, <1>2 DEF IInv, TypeInv, TypeOK, Core, OneRunningHandler
<1>4. ASSUME NEW x \in Keys \ {key[r]} PROVE SlotOf(x)' = SlotOf(x)
  <2>1. records'[x] = records[x]
    BY <1>2 DEF Succeed, Fail, Hang, Complete, Release, IInv, TypeInv, TypeOK
  <2>2. Vacant(x)' = Vacant(x)
    BY <1>2, <2>1 DEF Vacant
  <2>3. \A s \in Requests : (phase[s] = "running" /\ key[s] = x)
                              <=> (phase'[s] = "running" /\ key'[s] = x)
    BY <1>1, <1>2 DEF IInv, TypeInv, TypeOK
  <2>4. QED
    BY <1>2, <2>1, <2>2, <2>3, SlotFrame
<1>5. QED
  BY <1>1, <1>2, <1>3, <1>4, OwnedSlot

\* A success is the contract's Fill.
LEMMA SucceedFills ==
    ASSUME TimelyHandlers, IInv, IInv', NEW r \in Requests, Succeed(r)
    PROVE  Contract!Fill(r, key[r], fp[r])
<1>0. /\ key[r] \in Keys
      /\ SlotOf(key[r]) = Contract!Owned(r, fp[r])
      /\ \A s \in Requests : phase'[s] = "running" => key'[s] # key[r]
      /\ \A x \in Keys \ {key[r]} : SlotOf(x)' = SlotOf(x)
  BY LeaveFrame
<1>1. /\ records[key[r]] \in ClaimRecord
      /\ records[key[r]] # Absent
      /\ records[key[r]].fingerprint = fp[r]
      /\ records[key[r]].expiresAt = claimed[r] + Ttl
      /\ now <= claimed[r] + HandlerMax
      /\ now \in Nat /\ claimed[r] \in Nat
  BY <1>0 DEF IInv, TypeInv, TypeOK, Core, ClaimHeld, RecordLife, Succeed
<1>2. records'[key[r]] = [records[key[r]] EXCEPT !.state = "completed", !.body = r]
  BY <1>0, <1>1 DEF Succeed, Complete, IInv, TypeInv, TypeOK
<1>3. /\ records'[key[r]].state = "completed"
      /\ records'[key[r]].body = r
      /\ records'[key[r]].fingerprint = fp[r]
      /\ records'[key[r]].expiresAt = claimed[r] + Ttl
      /\ records'[key[r]] \in ClaimRecord
  BY <1>1, <1>2 DEF ClaimRecord
<1>4. ~Vacant(key[r])'
  <2>1. records'[key[r]] # Absent
    BY <1>3, SentinelAssumption
  <2>2. now' = now /\ key' = key
    BY DEF Succeed
  <2>3. ~(records'[key[r]].expiresAt <= now)
    BY <1>1, <1>3, TtlAssumption, BoundAssumption DEF TimelyHandlers
  <2>4. QED
    BY <2>1, <2>2, <2>3 DEF Vacant
<1>5. ASSUME NEW k \in Keys, k = key[r] PROVE SlotOf(k)' = Contract!Stored(r, fp[r])
  <2>1. ~\E s \in Requests : phase'[s] = "running" /\ key'[s] = k
    BY <1>0, <1>5
  <2>2. ~Vacant(k)'
    BY <1>4, <1>5 DEF Succeed
  <2>3. QED
    BY <1>3, <1>5, <2>1, <2>2 DEF SlotOf, Contract!Stored
<1>6. [x \in Keys |-> SlotOf(x)'] =
      [[x \in Keys |-> SlotOf(x)] EXCEPT ![key[r]] = Contract!Stored(r, fp[r])]
  BY <1>0, <1>5
<1>7. served' = [served EXCEPT ![r] = r]
  BY DEF Succeed
<1>8. QED
  BY <1>0, <1>6, <1>7 DEF Contract!Fill

\* A failure and a hang are the contract's GiveUp.
LEMMA LeaveGivesUp ==
    ASSUME IInv, IInv', NEW r \in Requests, Fail(r) \/ Hang(r)
    PROVE  Contract!GiveUp(r, key[r], fp[r])
<1>0. /\ key[r] \in Keys
      /\ SlotOf(key[r]) = Contract!Owned(r, fp[r])
      /\ \A s \in Requests : phase'[s] = "running" => key'[s] # key[r]
      /\ \A x \in Keys \ {key[r]} : SlotOf(x)' = SlotOf(x)
  BY LeaveFrame
<1>1. records'[key[r]] = Absent \/ records'[key[r]].state = "in_progress"
  BY <1>0 DEF Fail, Hang, Release, IInv, TypeInv, TypeOK, Core, ClaimHeld
<1>2. ASSUME NEW k \in Keys, k = key[r] PROVE SlotOf(k)' = Contract!Free
  <2>1. ~\E s \in Requests : phase'[s] = "running" /\ key'[s] = k
    BY <1>0, <1>2
  <2>2. ~(~Vacant(k)' /\ records'[k].state = "completed")
    BY <1>1, <1>2 DEF Vacant
  <2>3. QED
    BY <2>1, <2>2 DEF SlotOf, Contract!Free
<1>3. [x \in Keys |-> SlotOf(x)'] =
      [[x \in Keys |-> SlotOf(x)] EXCEPT ![key[r]] = Contract!Free]
  BY <1>0, <1>2
<1>4. served' = served
  BY DEF Fail, Hang
<1>5. QED
  BY <1>0, <1>3, <1>4 DEF Contract!GiveUp

\* A replay is the contract's Replay.
LEMMA ReplayReplays ==
    ASSUME IInv, IInv', NEW r \in Requests, NEW k \in Keys, NEW f \in Fingerprints,
           Replay(r, k, f)
    PROVE  Contract!Replay(r, k, f)
<1>1. /\ [x \in Keys |-> SlotOf(x)'] = [x \in Keys |-> SlotOf(x)]
      /\ served[r] = NoRequest
  BY AnswerKeepsSlots DEF Replay
<1>2. /\ ~Vacant(k) /\ records[k] # Absent
      /\ records[k].state = "completed" /\ records[k].fingerprint = f
  BY DEF Replay, Matches, Vacant
<1>3. \A s \in Requests : phase[s] = "running" => key[s] # k
  BY <1>2 DEF IInv, Core, ClaimHeld
<1>4. SlotOf(k) = Contract!Stored(records[k].body, f)
  BY <1>2, <1>3, IdleSlot
<1>5. served' = [served EXCEPT ![r] = records[k].body]
  BY DEF Replay, Answer
<1>6. /\ SlotOf(k).state = "stored" /\ SlotOf(k).fingerprint = f
      /\ SlotOf(k).by = records[k].body
  BY <1>4 DEF Contract!Stored
<1>7. QED
  BY <1>1, <1>5, <1>6 DEF Contract!Replay, Contract!Answers

\* The passing of time is the contract's Forget.
LEMMA TickForgets ==
    ASSUME IInv, IInv', Tick
    PROVE  Contract!Forget
<1>1. /\ records' = records /\ phase' = phase /\ key' = key /\ fp' = fp /\ served' = served
      /\ now' = now + 1 /\ now \in Nat
  BY DEF Tick, IInv, TypeInv, TypeOK
<1> DEFINE gone == {k \in Keys : SlotOf(k).state = "stored" /\ Vacant(k)'}
<1>2. ASSUME NEW k \in Keys PROVE Vacant(k) => Vacant(k)'
  <2>1. records[k] # Absent => records[k].expiresAt \in Nat
    BY DEF IInv, TypeInv, TypeOK, ClaimRecord
  <2>2. QED
    BY <1>1, <2>1 DEF Vacant
<1>3. ASSUME NEW k \in Keys
      PROVE  SlotOf(k)' = IF k \in gone THEN Contract!Free ELSE SlotOf(k)
  <2>1. CASE \E r \in Requests : phase[r] = "running" /\ key[r] = k
    <3>1. PICK r \in Requests : phase[r] = "running" /\ key[r] = k
      BY <2>1
    <3>2. SlotOf(k) = Contract!Owned(r, fp[r])
      BY <3>1, OwnedSlot
    <3>3. k \notin gone
      BY <3>2 DEF Contract!Owned
    <3>4. SlotOf(k)' = SlotOf(k)
      BY <1>1, <2>1 DEF SlotOf
    <3>5. QED
      BY <3>3, <3>4
  <2>2. CASE ~\E r \in Requests : phase[r] = "running" /\ key[r] = k
    <3>1. SlotOf(k) = IF ~Vacant(k) /\ records[k].state = "completed"
                      THEN Contract!Stored(records[k].body, records[k].fingerprint)
                      ELSE Contract!Free
      BY <2>2, IdleSlot
    <3>2. SlotOf(k)' = IF ~Vacant(k)' /\ records[k].state = "completed"
                       THEN Contract!Stored(records[k].body, records[k].fingerprint)
                       ELSE Contract!Free
      BY <1>1, <2>2 DEF SlotOf, Contract!Stored, Contract!Free
    <3>3. SlotOf(k).state = "stored" <=> ~Vacant(k) /\ records[k].state = "completed"
      BY <3>1 DEF Contract!Stored, Contract!Free
    <3>4. k \in gone <=> SlotOf(k).state = "stored" /\ Vacant(k)'
      BY DEF gone
    <3>5. QED
      BY <1>2, <3>1, <3>2, <3>3, <3>4
  <2>3. QED
    BY <2>1, <2>2
<1>4. gone \in SUBSET {k \in Keys : [x \in Keys |-> SlotOf(x)][k].state = "stored"}
  OBVIOUS
<1>5. [k \in Keys |-> SlotOf(k)'] =
      [k \in Keys |-> IF k \in gone THEN Contract!Free ELSE [x \in Keys |-> SlotOf(x)][k]]
  BY <1>3
<1> HIDE DEF gone
<1>6. QED
  BY <1>1, <1>4, <1>5 DEF Contract!Forget, Contract!Holding, Contract!Without

\* Every step of interceptor and store is a step of the contract or leaves
\* the contract's state alone.
LEMMA ContractStep ==
    ASSUME TimelyHandlers, IInv, IInv', [Next]_vars
    PROVE  [Contract!Next]_(Contract!vars)
<1>1. ASSUME NEW r \in Requests, PassThrough(r) \/ MissingKey(r)
      PROVE  UNCHANGED Contract!vars
  <2>1. /\ [x \in Keys |-> SlotOf(x)'] = [x \in Keys |-> SlotOf(x)]
        /\ served[r] = NoRequest
    BY <1>1, AnswerKeepsSlots DEF PassThrough, MissingKey
  <2>2. served' = served
    BY <1>1, <2>1 DEF PassThrough, MissingKey, Answer, IInv, TypeInv, TypeOK
  <2>3. QED
    BY <2>1, <2>2 DEF Contract!vars
<1>2. ASSUME NEW r \in Requests, NEW k \in Keys, NEW f \in Fingerprints,
             Mismatch(r, k, f) \/ InProgress(r, k, f)
      PROVE  UNCHANGED Contract!vars
  <2>1. /\ [x \in Keys |-> SlotOf(x)'] = [x \in Keys |-> SlotOf(x)]
        /\ served[r] = NoRequest
    BY <1>2, AnswerKeepsSlots DEF Mismatch, InProgress
  <2>2. served' = served
    BY <1>2, <2>1 DEF Mismatch, InProgress, Answer, IInv, TypeInv, TypeOK
  <2>3. QED
    BY <2>1, <2>2 DEF Contract!vars
<1>3. ASSUME NEW r \in Requests, Succeed(r) PROVE Contract!Next
  <2>1. key[r] \in Keys /\ fp[r] \in Fingerprints
    BY <1>3 DEF Succeed, IInv, Core, Progress, Ran
  <2>2. QED
    BY <1>3, <2>1, SucceedFills DEF Contract!Next
<1>4. ASSUME NEW r \in Requests, Fail(r) \/ Hang(r) PROVE Contract!Next
  <2>1. key[r] \in Keys /\ fp[r] \in Fingerprints
    BY <1>4 DEF Fail, Hang, IInv, Core, Progress, Ran
  <2>2. QED
    BY <1>4, <2>1, LeaveGivesUp DEF Contract!Next
<1>5. ASSUME NEW r \in Requests, NEW k \in Keys, NEW f \in Fingerprints, Claim(r, k, f)
      PROVE  Contract!Next
  BY <1>5, ClaimOwns DEF Contract!Next
<1>6. ASSUME NEW r \in Requests, NEW k \in Keys, NEW f \in Fingerprints, Replay(r, k, f)
      PROVE  Contract!Next
  BY <1>6, ReplayReplays DEF Contract!Next
<1>7. CASE Tick
  BY <1>7, TickForgets DEF Contract!Next
<1>8. CASE UNCHANGED vars
  BY <1>8 DEF vars, Contract!vars, SlotOf, Vacant
<1>9. QED
  BY <1>1, <1>2, <1>3, <1>4, <1>5, <1>6, <1>7, <1>8 DEF Next

\* When handlers settle within their claim's life, interceptor and store
\* implement the contract: every behaviour is one the contract allows.
THEOREM Refinement == TimelyHandlers => (Spec => ImplementsContract)
<1> SUFFICES ASSUME TimelyHandlers PROVE Spec => ImplementsContract
  OBVIOUS
<1>1. Init => Contract!Init
  BY DEF Init, Contract!Init, SlotOf, Vacant, Contract!Free
<1>2. IInv /\ IInv' /\ [Next]_vars => [Contract!Next]_(Contract!vars)
  BY ContractStep
<1>3. QED
  BY <1>1, <1>2, InductiveInvariant, PTL DEF Spec, ImplementsContract, Contract!Spec

=============================================================================
