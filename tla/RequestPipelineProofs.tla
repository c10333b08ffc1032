------------------------ MODULE RequestPipelineProofs ------------------------
(***************************************************************************)
(* Proofs about RequestPipeline, for any routes, requests, keys, bodies    *)
(* and errors of handlers: nothing runs, claims or replays past the        *)
(* decorators of its route, replays are fresh, failures are told as        *)
(* failures unless a failed Result goes out raw, and what the guards let   *)
(* through is counted once.                                                *)
(***************************************************************************)
EXTENDS RequestPipeline, TLAPS

-----------------------------------------------------------------------------
(* The path *)

Names == {"parse", "context", "throttle", "csrf", "jwt", "roles", "metrics",
          "deprecation", "zod", "format", "idempotency", "handler"}

\* What a concatenation is made of.
LEMMA Joined ==
    ASSUME NEW s \in Seq(Names), NEW t \in Seq(Names), NEW u, u = s \o t
    PROVE  /\ u \in Seq(Names) /\ Len(u) = Len(s) + Len(t)
           /\ \A i \in 1..Len(s) : u[i] = s[i]
           /\ \A i \in Len(s) + 1 .. Len(s) + Len(t) : u[i] = t[i - Len(s)]
OBVIOUS

\* The twelve stages, by number.
LEMMA Stages ==
    /\ DOMAIN Path = 1..12
    /\ Path[1] = "parse" /\ Path[2] = "context"
    /\ Path[3] = "throttle" /\ Path[4] = "csrf" /\ Path[5] = "jwt" /\ Path[6] = "roles"
    /\ Path[7] = "metrics" /\ Path[8] = "deprecation" /\ Path[9] = "zod"
    /\ Path[10] = "format" /\ Path[11] = "idempotency" /\ Path[12] = "handler"
<1> DEFINE Way == Middleware \o Guards
           Inner == Way \o Interceptors
           Final == <<"handler">>
<1>1. /\ Way \in Seq(Names) /\ Len(Way) = 6
      /\ Way[1] = "parse" /\ Way[2] = "context"
      /\ Way[3] = "throttle" /\ Way[4] = "csrf" /\ Way[5] = "jwt" /\ Way[6] = "roles"
  <2>1. /\ Middleware \in Seq(Names) /\ Len(Middleware) = 2
        /\ Middleware[1] = "parse" /\ Middleware[2] = "context"
    BY DEF Middleware, Names
  <2>2. /\ Guards \in Seq(Names) /\ Len(Guards) = 4
        /\ Guards[1] = "throttle" /\ Guards[2] = "csrf" /\ Guards[3] = "jwt" /\ Guards[4] = "roles"
    BY DEF Guards, Names
  <2>3. /\ Way \in Seq(Names) /\ Len(Way) = Len(Middleware) + Len(Guards)
        /\ \A i \in 1..Len(Middleware) : Way[i] = Middleware[i]
        /\ \A i \in Len(Middleware) + 1 .. Len(Middleware) + Len(Guards) :
              Way[i] = Guards[i - Len(Middleware)]
    BY <2>1, <2>2, Joined
  <2> HIDE DEF Way
  <2>4. QED
    BY <2>1, <2>2, <2>3
<1> HIDE DEF Way
<1>2. /\ Inner \in Seq(Names) /\ Len(Inner) = 11
      /\ \A i \in 1..6 : Inner[i] = Way[i]
      /\ Inner[7] = "metrics" /\ Inner[8] = "deprecation" /\ Inner[9] = "zod"
      /\ Inner[10] = "format" /\ Inner[11] = "idempotency"
  <2>1. /\ Interceptors \in Seq(Names) /\ Len(Interceptors) = 5
        /\ Interceptors[1] = "metrics" /\ Interceptors[2] = "deprecation"
        /\ Interceptors[3] = "zod" /\ Interceptors[4] = "format"
        /\ Interceptors[5] = "idempotency"
    BY DEF Interceptors, Names
  <2>2. /\ Inner \in Seq(Names) /\ Len(Inner) = Len(Way) + Len(Interceptors)
        /\ \A i \in 1..Len(Way) : Inner[i] = Way[i]
        /\ \A i \in Len(Way) + 1 .. Len(Way) + Len(Interceptors) :
              Inner[i] = Interceptors[i - Len(Way)]
    BY <1>1, <2>1, Joined
  <2> HIDE DEF Inner
  <2>3. QED
    BY <1>1, <2>1, <2>2
<1>3. Path = Inner \o Final
  BY DEF Path, Inner, Way
<1>4. Final \in Seq(Names) /\ Len(Final) = 1 /\ Final[1] = "handler"
  BY DEF Names
<1> HIDE DEF Inner, Final
<1>5. /\ Path \in Seq(Names) /\ Len(Path) = Len(Inner) + Len(Final)
      /\ \A i \in 1..Len(Inner) : Path[i] = Inner[i]
      /\ \A i \in Len(Inner) + 1 .. Len(Inner) + Len(Final) : Path[i] = Final[i - Len(Inner)]
  <2>1. Inner \in Seq(Names) /\ Final \in Seq(Names)
    BY <1>2, <1>4
  <2>2. ASSUME NEW s \in Seq(Names), NEW t \in Seq(Names), Path = s \o t
        PROVE  /\ Path \in Seq(Names) /\ Len(Path) = Len(s) + Len(t)
               /\ \A i \in 1..Len(s) : Path[i] = s[i]
               /\ \A i \in Len(s) + 1 .. Len(s) + Len(t) : Path[i] = t[i - Len(s)]
    BY <2>2
  <2>3. QED
    BY <1>3, <2>1, <2>2
<1>6. Len(Path) = 12 /\ Path[12] = "handler"
  BY <1>2, <1>4, <1>5
<1>7. \A i \in 1..11 : Path[i] = Inner[i]
  BY <1>2, <1>5
<1>8. DOMAIN Path = 1..12
  <2>1. DOMAIN Path = 1..Len(Path)
    BY <1>5
  <2>2. QED
    BY <1>6, <2>1
<1>9. \A i \in 1..6 : Path[i] = Way[i]
  BY <1>2, <1>7
<1>10. QED
  BY <1>1, <1>2, <1>6, <1>7, <1>8, <1>9

\* Where the way out leads.
LEMMA WayOut ==
    ASSUME NEW r \in Requests, at[r] \in 1..12
    PROVE  /\ Entered(r) = {} <=> at[r] <= 10
           /\ at[r] = 11 => Max(Entered(r)) = 10
           /\ at[r] = 12 => Max(Entered(r)) = 11
<1>1. Entered(r) = {i \in {10, 11} : i < at[r]}
  BY Stages DEF Entered
<1>2. at[r] = 11 => Entered(r) = {10}
  BY <1>1
<1>3. at[r] = 12 => Entered(r) = {10, 11}
  BY <1>1
<1>4. Max({10}) = 10 /\ Max({10, 11}) = 11
  BY DEF Max
<1>5. QED
  BY <1>1, <1>2, <1>3, <1>4

-----------------------------------------------------------------------------
(* The inductive invariant *)

Types ==
    /\ ask \in [Requests -> AllAsks] /\ \A r \in Requests : ask[r] \in Asks[r]
    /\ at \in [Requests -> 1..12]
    /\ going \in [Requests -> {"in", "out", "sent"}]
    /\ DOMAIN result = Requests /\ DOMAIN produced = Requests
    /\ DOMAIN id = Requests /\ DOMAIN user = Requests
    /\ notice \in [Requests -> BOOLEAN] /\ timed \in [Requests -> BOOLEAN]
    /\ DOMAIN answer = Requests /\ DOMAIN counted = Requests
    /\ served \in [Requests -> Requests \cup {NoRequest}]
    /\ DOMAIN slot = Keys /\ DOMAIN kept = Keys

Credentials(a) == Token(a) # NoToken /\ Token(a).valid
HasRole(r) == user[r] # NoToken /\ ask[r].route.roles \cap user[r].roles # {}

\* What the stages before its place have established for r.  The way out ends
\* before the guards, so this outlives it.
Passed(r) ==
    /\ at[r] >= 2 => ask[r].body # "malformed"
    /\ id[r] = IF at[r] >= 3 THEN r ELSE NoRequest
    /\ at[r] >= 5 => ~Suspicious(ask[r])
    /\ at[r] >= 6 /\ ~ask[r].route.public => Credentials(ask[r])
    /\ user[r] = IF at[r] >= 6 /\ ~ask[r].route.public THEN Token(ask[r]) ELSE NoToken
    /\ at[r] >= 7 => ask[r].route.roles = {} \/ HasRole(r)
    /\ timed[r] <=> at[r] >= 8
    /\ notice[r] <=> at[r] >= 9 /\ ask[r].route.deprecated
    /\ at[r] >= 10 => ~Invalid(ask[r])

\* What ends the way in of a request with v before it reaches a handler.
Grounds(r, v) ==
    \/ at[r] = 1 /\ ask[r].body = "malformed"
    \/ at[r] = 3 /\ v = Failure(HttpError(429))
    \/ at[r] = 4 /\ Suspicious(ask[r])
    \/ at[r] = 5 /\ ~ask[r].route.public /\ ~Credentials(ask[r])
    \/ at[r] = 6 /\ ask[r].route.roles # {} /\ ~HasRole(r)
    \/ at[r] = 9 /\ v = Failure(HttpError(400))
    \/ /\ at[r] \in {10, 11}
       /\ \/ \E kind \in {"bad_request", "validation", "conflict"} : v = Failure(Problem(kind))
          \/ \E e \in StoreErrors : v = Failure(e)

\* The statuses of those ends.
Refusals == {400, 401, 403, 409, 422, 429}
IsRefusal(v) == v = Failure(v.error) /\ StatusOf(v.error) \in Refusals

\* The result v, where r now stands on its way out.
Carries(r, v) ==
    IF at[r] = 10 /\ ~Raw(ask[r]) THEN result[r] = Formatted(r, v) ELSE result[r] = v

IsEnding(r, v) == v \in Endings(r) \cup {Failure(Problem("not_found"))}

Ran(r) == produced[r] # Pending
WasReplayed(r) == served[r] \notin {r, NoRequest}

\* A request whose handler ran carries out what it ended with, and has stored
\* a success before it leaves the store; or a call of the store rejected.
Told(r) ==
    \/ /\ Carries(r, produced[r])
       /\ at[r] <= 11 /\ Keyed(r) /\ ~Failed(produced[r]) => served[r] = r
    \/ StoreFailed(r) /\ Keyed(r) /\ served[r] = NoRequest

\* A request carries out what its handler, another one's, or a stage ended with.
Outcome(r) ==
    /\ going[r] = "in" => ~Ran(r) /\ served[r] = NoRequest
    /\ going[r] = "sent" => at[r] <= 10
    /\ at[r] = 12 => served[r] = NoRequest
    /\ Ran(r) => at[r] >= 10 /\ IsEnding(r, produced[r]) /\ Told(r) /\ ~WasReplayed(r)
    /\ WasReplayed(r) =>
          /\ at[r] \in {10, 11}
          /\ Ran(served[r]) /\ ~Failed(produced[served[r]])
          /\ Carries(r, produced[served[r]])
    /\ served[r] = r => Ran(r)
    /\ going[r] # "in" /\ ~Ran(r) /\ ~WasReplayed(r) =>
          Grounds(r, result[r]) /\ (IsRefusal(result[r]) \/ StoreFailed(r))

\* A request has at most one answer, the one that its result makes.
Answers(r) ==
    LET sent == Response(r, result[r]) IN
    /\ answer[r] = IF going[r] = "sent" THEN <<sent>> ELSE <<>>
    /\ counted[r] = IF going[r] = "sent" /\ timed[r] THEN <<sent.status>> ELSE <<>>

\* A slot is of a request that got as far as the store; what is stored is what
\* the handler behind it ended with, and is no failure.
SlotInv(k) ==
    LET o == slot[k].by IN
    /\ slot[k].state \in {"free", "owned", "stored"}
    /\ slot[k].state = "free" => o = NoRequest
    /\ slot[k].state # "free" => o \in Requests /\ at[o] >= 10
    /\ slot[k].state = "stored" => Ran(o) /\ ~Failed(produced[o]) /\ kept[k] = produced[o]

ReqInv(r) == Passed(r) /\ Outcome(r) /\ Answers(r)

IInv ==
    /\ Types
    /\ \A r \in Requests : ReqInv(r)
    /\ \A k \in Keys : SlotInv(k)

-----------------------------------------------------------------------------
(* Places, results and the steps of the others *)

\* Being at a stage is being at its place on the path.
LEMMA Places ==
    ASSUME Types, NEW r \in Requests
    PROVE  /\ At(r, "parse") => at[r] = 1
           /\ At(r, "context") => at[r] = 2
           /\ At(r, "throttle") => at[r] = 3
           /\ At(r, "csrf") => at[r] = 4
           /\ At(r, "jwt") => at[r] = 5
           /\ At(r, "roles") => at[r] = 6
           /\ At(r, "metrics") => at[r] = 7
           /\ At(r, "deprecation") => at[r] = 8
           /\ At(r, "zod") => at[r] = 9
           /\ At(r, "format") => at[r] = 10
           /\ At(r, "idempotency") => at[r] = 11
           /\ At(r, "handler") => at[r] = 12
           /\ Leaving(r, "idempotency") => at[r] = 12 /\ Max(Entered(r)) = 11
           /\ Leaving(r, "format") => at[r] = 11 /\ Max(Entered(r)) = 10
           /\ Entered(r) = {} => at[r] <= 10
<1>1. at[r] \in 1..12
  BY DEF Types
<1>2. \A stage : At(r, stage) => Path[at[r]] = stage
  BY DEF At
<1>3. \A stage : Leaving(r, stage) => Entered(r) # {} /\ Path[Max(Entered(r))] = stage
  BY DEF Leaving
<1>4. Leaving(r, "idempotency") => at[r] = 12 /\ Max(Entered(r)) = 11
  BY <1>1, <1>3, WayOut, Stages
<1>5. Leaving(r, "format") => at[r] = 11 /\ Max(Entered(r)) = 10
  BY <1>1, <1>3, WayOut, Stages
<1>6. Entered(r) = {} => at[r] <= 10
  BY <1>1, WayOut
<1>7. QED
  BY <1>1, <1>2, <1>4, <1>5, <1>6, Stages

\* What the constructors of results make.
LEMMA Errors ==
    ASSUME NEW e
    PROVE  /\ Failure(e).is = "error" /\ Failure(e).error = e /\ Failure(e).form = "none"
           /\ Failure(e).success = FALSE /\ Failure(e) # Pending /\ Failed(Failure(e))
BY DEF Failure, Pending, Failed

\* A value is what it was made of.
LEMMA Values ==
    ASSUME NEW form, NEW success, NEW meta, NEW by, NEW e, NEW v,
           v = Value(form, success, meta, by, e)
    PROVE  /\ v.is = "value" /\ v.form = form /\ v.success = success /\ v.meta = meta
           /\ v.by = by /\ v.error = e /\ v # Pending
           /\ \A m : /\ [v EXCEPT !.meta = m].is = "value"
                     /\ [v EXCEPT !.meta = m].form = form /\ [v EXCEPT !.meta = m].by = by
                     /\ [v EXCEPT !.meta = m].success = success
                     /\ [v EXCEPT !.meta = m].meta = m
BY DEF Value, Pending

\* A handler ends with an error, a failed Result or a value of its own.
LEMMA HandlersEnd ==
    ASSUME NEW r \in Requests, NEW v, IsEnding(r, v)
    PROVE  /\ v # Pending
           /\ \/ /\ v.is = "error" /\ v.form = "none" /\ Failed(v) /\ v.success = FALSE
                 /\ v.error \in HandlerErrors \cup {Problem("not_found")}
              \/ /\ v.is = "value" /\ v.form = "err" /\ Failed(v) /\ v.success = FALSE
                 /\ v.error \in HandlerErrors
              \/ /\ ~Failed(v)
                 /\ \E form \in {"plain", "ok", "envelope", "stream"}, success \in BOOLEAN :
                       v = Value(form, success, NoRequest, r, NoError)
<1>1. CASE \E e \in HandlerErrors \cup {Problem("not_found")} : v = Failure(e)
  <2>1. PICK e \in HandlerErrors \cup {Problem("not_found")} : v = Failure(e)
    BY <1>1
  <2>2. v.is = "error" /\ v.form = "none" /\ v.error = e /\ v.success = FALSE
        /\ v # Pending /\ Failed(v)
    BY <2>1, Errors
  <2>3. QED
    BY <2>2
<1>2. CASE \E e \in HandlerErrors : v = Value("err", FALSE, NoRequest, r, e)
  <2>1. PICK e \in HandlerErrors : v = Value("err", FALSE, NoRequest, r, e)
    BY <1>2
  <2>2. /\ v.is = "value" /\ v.form = "err" /\ v.success = FALSE /\ v.error = e
        /\ v # Pending
    BY <2>1 DEF Value, Pending
  <2>3. QED
    BY <2>2 DEF Failed
<1>3. CASE \E form \in {"plain", "ok", "envelope", "stream"}, success \in BOOLEAN :
              v = Value(form, success, NoRequest, r, NoError)
  <2>1. PICK form \in {"plain", "ok", "envelope", "stream"}, success \in BOOLEAN :
               v = Value(form, success, NoRequest, r, NoError)
    BY <1>3
  <2>2. v.is = "value" /\ v.form = form /\ v # Pending
    BY <2>1, Values
  <2>3. ~Failed(v)
    BY <2>2 DEF Failed
  <2>4. QED
    BY <2>1, <2>2, <2>3
<1>4. QED
  BY <1>1, <1>2, <1>3 DEF IsEnding, Endings, Forms

\* The presenter knows no status below 400.
LEMMA StatusOfError ==
    ASSUME NEW e
    PROVE  /\ Presented(e) \in {422, 404, 409, 401, 403, 503, 400, 500, 501}
           /\ e.class = "problem" => StatusOf(e) = Presented(e)
BY DEF Presented, StatusOf, KindToStatus

\* What the stages refuse with.
LEMMA StatusesOfRefusals ==
    /\ \A status \in Refusals : IsRefusal(Failure(HttpError(status)))
    /\ IsRefusal(Failure(ClientError(400)))
    /\ \A kind \in {"forbidden", "unauthorized", "bad_request", "validation", "conflict"} :
          IsRefusal(Failure(Problem(kind)))
<1>1. ASSUME NEW status \in Refusals PROVE StatusOf(HttpError(status)) = status
  BY DEF StatusOf, HttpError
<1>2. StatusOf(ClientError(400)) = 400
  BY DEF StatusOf, ClientError
<1>3. ASSUME NEW kind \in {"forbidden", "unauthorized", "bad_request", "validation", "conflict"}
      PROVE  StatusOf(Problem(kind)) \in Refusals
  BY DEF StatusOf, Presented, Problem, KindToStatus, Refusals
<1>4. 400 \in Refusals
  BY DEF Refusals
<1>5. QED
  <2>1. ASSUME NEW e, StatusOf(e) \in Refusals
        PROVE  IsRefusal(Failure(e))
    <3>1. Failure(e).error = e
      BY Errors
    <3>2. QED
      BY <2>1, <3>1 DEF IsRefusal
  <2>2. QED
    BY <1>1, <1>2, <1>3, <1>4, <2>1

\* Another request does not notice a step that leaves its own variables alone.
LEMMA Untouched ==
    ASSUME Types, NEW r \in Requests, ReqInv(r), ask' = ask,
           at'[r] = at[r], going'[r] = going[r], result'[r] = result[r], id'[r] = id[r],
           user'[r] = user[r], notice'[r] = notice[r], timed'[r] = timed[r],
           answer'[r] = answer[r], counted'[r] = counted[r], served'[r] = served[r],
           produced'[r] = produced[r],
           \A o \in Requests : Ran(o) => produced'[o] = produced[o]
    PROVE  ReqInv(r)'
<1>1. Passed(r)'
  BY DEF ReqInv, Passed, HasRole
<1>2. Answers(r)'
  BY DEF ReqInv, Answers, Response
<1>3. Outcome(r)'
  <2>1. \A v : Carries(r, v)' <=> Carries(r, v)
    BY DEF Carries, Formatted
  <2>2. \A v : IsEnding(r, v)' <=> IsEnding(r, v)
    BY DEF IsEnding, Endings, Forms
  <2>3. Ran(r)' <=> Ran(r)
    BY DEF Ran
  <2>4. WasReplayed(r)' <=> WasReplayed(r)
    BY DEF WasReplayed
  <2>5. Grounds(r, result[r])' <=> Grounds(r, result[r])
    BY DEF Grounds, HasRole
  <2>6. WasReplayed(r) => Ran(served[r])' /\ produced'[served[r]] = produced[served[r]]
    BY DEF ReqInv, Outcome, WasReplayed, Types, Ran
  <2>7. (StoreFailed(r)' <=> StoreFailed(r)) /\ (Keyed(r)' <=> Keyed(r))
    BY DEF StoreFailed, Keyed
  <2>8. Told(r)' <=> Told(r)
    BY <2>1, <2>7 DEF Told
  <2>9. QED
    BY <2>1, <2>2, <2>3, <2>4, <2>5, <2>6, <2>7, <2>8 DEF ReqInv, Outcome
<1>4. QED
  BY <1>1, <1>2, <1>3 DEF ReqInv

-----------------------------------------------------------------------------
(* The way in *)

\* q goes to the next stage or is refused; nothing is claimed or replayed.
Stepping(q) ==
    \/ Parse(q) \/ OpenContext(q) \/ Throttle(q) \/ Csrf(q) \/ Jwt(q) \/ Roles(q)
    \/ Metrics(q) \/ Deprecation(q) \/ Zod(q) \/ EnterFormat(q)
    \/ Undecorated(q) \/ MissingKey(q) \/ Mismatch(q) \/ InProgress(q)

\* What q leaves alone whenever it takes a step of its own.
Alone(q) ==
    /\ ask' = ask
    /\ \A r \in Requests \ {q} :
          /\ at'[r] = at[r] /\ going'[r] = going[r] /\ result'[r] = result[r] /\ id'[r] = id[r]
          /\ user'[r] = user[r] /\ notice'[r] = notice[r] /\ timed'[r] = timed[r]
          /\ answer'[r] = answer[r] /\ counted'[r] = counted[r] /\ served'[r] = served[r]
          /\ produced'[r] = produced[r]
    /\ Ran(q) => produced'[q] = produced[q]

\* So a step of q is about q and the slots.
LEMMA StepOfOne ==
    ASSUME IInv, NEW q \in Requests, Types', Alone(q), ReqInv(q)', \A k \in Keys : SlotInv(k)'
    PROVE  IInv'
<1>1. ASSUME NEW r \in Requests \ {q}
      PROVE  ReqInv(r)'
  BY Untouched DEF IInv, Alone
<1>2. QED
  BY <1>1 DEF IInv

\* A slot that is not written stays as good as it was.
LEMMA SlotStays ==
    ASSUME IInv, NEW q \in Requests, NEW k \in Keys, Alone(q),
           slot'[k] = slot[k], kept'[k] = kept[k],
           at[q] >= 10 => at'[q] >= 10
    PROVE  SlotInv(k)'
BY DEF IInv, SlotInv, Alone, Ran, Types

\* The next stage, or a refusal.
Goes(q) ==
    /\ ask' = ask /\ produced' = produced /\ answer' = answer /\ counted' = counted
    /\ result' = result /\ going' = going /\ going[q] = "in"
    /\ at' = [at EXCEPT ![q] = @ + 1]

Refused(q) ==
    /\ UNCHANGED <<ask, at, local, outside, produced, store>>
    /\ going[q] = "in" /\ going' = [going EXCEPT ![q] = "out"]
    /\ \E v : result' = [result EXCEPT ![q] = v] /\ IsRefusal(v)

\* A request that is passed on keeps the invariant if it has passed its stage.
LEMMA Advance ==
    ASSUME IInv, NEW q \in Requests, Goes(q), at[q] <= 11, Passed(q)',
           served' = served, UNCHANGED <<slot, kept>> \/ \A k \in Keys : SlotInv(k)',
           DOMAIN slot' = Keys, DOMAIN kept' = Keys,
           DOMAIN id' = Requests, DOMAIN user' = Requests,
           notice' \in [Requests -> BOOLEAN], timed' \in [Requests -> BOOLEAN],
           \A r \in Requests \ {q} : /\ id'[r] = id[r] /\ user'[r] = user[r]
                                     /\ notice'[r] = notice[r] /\ timed'[r] = timed[r]
    PROVE  IInv'
<1>1. Types'
  <2>1. at' \in [Requests -> 1..12]
    BY DEF IInv, Types, Goes
  <2>2. QED
    BY <2>1 DEF IInv, Types, Goes
<1>2. Alone(q)
  BY DEF IInv, Types, Goes, Alone
<1>3. Outcome(q)'
  BY DEF IInv, Types, ReqInv, Goes, Outcome, Ran, WasReplayed
<1>4. Answers(q)'
  BY DEF IInv, Types, ReqInv, Goes, Answers
<1>5. ASSUME NEW k \in Keys PROVE SlotInv(k)'
  BY <1>2, SlotStays DEF IInv, Types, Goes
<1>6. QED
  BY <1>1, <1>2, <1>3, <1>4, <1>5, StepOfOne DEF ReqInv

\* So does one that is turned back with an error that has its grounds.
LEMMA Refusal ==
    ASSUME IInv, NEW q \in Requests, Refused(q), Grounds(q, result'[q])
    PROVE  IInv'
<1>1. Types'
  <2>1. /\ going' \in [Requests -> {"in", "out", "sent"}] /\ DOMAIN result' = Requests
        /\ ask' = ask /\ at' = at /\ produced' = produced /\ id' = id /\ user' = user
        /\ notice' = notice /\ timed' = timed /\ answer' = answer /\ counted' = counted
        /\ served' = served /\ slot' = slot /\ kept' = kept
    <3>1. PICK v : result' = [result EXCEPT ![q] = v]
      BY DEF Refused
    <3>2. QED
      BY <3>1 DEF IInv, Types, Refused, local, outside, store
  <2>2. QED
    BY <2>1 DEF IInv, Types
<1>2. Alone(q)
  BY DEF IInv, Types, Refused, Alone, local, outside, store
<1>3. Passed(q)'
  BY DEF IInv, ReqInv, Passed, HasRole, Refused, local
<1>4. Outcome(q)'
  <2>1. Grounds(q, result[q])'
    BY DEF Refused, Grounds, HasRole, local
  <2>2. QED
    BY <2>1 DEF IInv, Types, ReqInv, Outcome, Refused, Ran, WasReplayed, store
<1>5. Answers(q)'
  BY DEF IInv, Types, ReqInv, Answers, Refused, outside
<1>6. ASSUME NEW k \in Keys PROVE SlotInv(k)'
  BY <1>2, SlotStays DEF Refused, store
<1>7. QED
  BY <1>1, <1>2, <1>3, <1>4, <1>5, <1>6, StepOfOne DEF ReqInv

\* The stages before the token: a body that cannot be parsed, the rate limit
\* and a foreign origin are grounds for a refusal.
LEMMA EarlySteps ==
    ASSUME IInv, NEW q \in Requests, Parse(q) \/ OpenContext(q) \/ Throttle(q) \/ Csrf(q)
    PROVE  IInv'
<1> USE DEF Pass, local, outside, store
<1>1. CASE Parse(q)
  <2>1. going[q] = "in" /\ at[q] = 1
    BY <1>1, Places DEF Parse, At, IInv
  <2>2. CASE ask[q].body # "malformed"
    <3>1. Goes(q) /\ UNCHANGED <<local, store>>
      BY <1>1, <2>1, <2>2 DEF Parse, Goes
    <3>2. Passed(q)'
      BY <2>1, <2>2, <3>1 DEF IInv, Types, ReqInv, Passed, Goes
    <3>3. QED
      BY <2>1, <3>1, <3>2, Advance DEF IInv, Types
  <2>3. CASE ask[q].body = "malformed"
    <3>1. Refused(q)
      BY <1>1, <2>1, <2>3, StatusesOfRefusals DEF Parse, Reject, TurnBack, Refused
    <3>2. QED
      BY <2>1, <2>3, <3>1, Refusal DEF Grounds
  <2>4. QED
    BY <2>2, <2>3
<1>2. CASE OpenContext(q)
  <2>1. going[q] = "in" /\ at[q] = 2
    BY <1>2, Places DEF OpenContext, At, IInv
  <2>2. Goes(q) /\ id' = [id EXCEPT ![q] = q] /\ UNCHANGED <<user, notice, timed, store>>
    BY <1>2, <2>1 DEF OpenContext, Goes
  <2>3. Passed(q)'
    BY <2>1, <2>2 DEF IInv, Types, ReqInv, Passed, Goes
  <2>4. QED
    BY <2>1, <2>2, <2>3, Advance DEF IInv, Types
<1>3. CASE Throttle(q)
  <2>1. going[q] = "in" /\ at[q] = 3
    BY <1>3, Places DEF Throttle, At, IInv
  <2>2. CASE Pass(q) /\ UNCHANGED <<local, store>>
    <3>1. Goes(q)
      BY <2>1, <2>2 DEF Goes
    <3>2. Passed(q)'
      BY <2>1, <2>2, <3>1 DEF IInv, Types, ReqInv, Passed, Goes
    <3>3. QED
      BY <2>1, <2>2, <3>1, <3>2, Advance DEF IInv, Types
  <2>3. CASE Reject(q, HttpError(429))
    <3>1. Refused(q) /\ result'[q] = Failure(HttpError(429))
      <4>1. IsRefusal(Failure(HttpError(429)))
        BY StatusesOfRefusals DEF Refusals
      <4>2. QED
        BY <2>1, <2>3, <4>1 DEF Reject, TurnBack, Refused, IInv, Types
    <3>2. QED
      BY <2>1, <3>1, Refusal DEF Grounds
  <2>4. QED
    BY <1>3, <2>2, <2>3 DEF Throttle
<1>4. CASE Csrf(q)
  <2>1. going[q] = "in" /\ at[q] = 4
    BY <1>4, Places DEF Csrf, At, IInv
  <2>2. CASE ~Suspicious(ask[q])
    <3>1. Goes(q) /\ UNCHANGED <<local, store>>
      BY <1>4, <2>1, <2>2 DEF Csrf, Goes
    <3>2. Passed(q)'
      BY <2>1, <2>2, <3>1 DEF IInv, Types, ReqInv, Passed, Goes
    <3>3. QED
      BY <2>1, <3>1, <3>2, Advance DEF IInv, Types
  <2>3. CASE Suspicious(ask[q])
    <3>1. Refused(q)
      BY <1>4, <2>1, <2>3, StatusesOfRefusals DEF Csrf, Reject, TurnBack, Refused
    <3>2. QED
      BY <2>1, <2>3, <3>1, Refusal DEF Grounds
  <2>4. QED
    BY <2>2, <2>3
<1>5. QED
  BY <1>1, <1>2, <1>3, <1>4

\* The two guards that look at the user.
LEMMA TokenSteps ==
    ASSUME IInv, NEW q \in Requests, Jwt(q) \/ Roles(q)
    PROVE  IInv'
<1> USE DEF Pass, local, outside, store
<1>1. CASE Jwt(q)
  <2>1. going[q] = "in" /\ at[q] = 5
    BY <1>1, Places DEF Jwt, At, IInv
  <2>2. CASE ask[q].route.public
    <3>1. Goes(q) /\ UNCHANGED <<local, store>>
      BY <1>1, <2>1, <2>2 DEF Jwt, Goes
    <3>2. Passed(q)'
      BY <2>1, <2>2, <3>1 DEF IInv, Types, ReqInv, Passed, Goes
    <3>3. QED
      BY <2>1, <3>1, <3>2, Advance DEF IInv, Types
  <2>3. CASE ~ask[q].route.public /\ Credentials(ask[q])
    <3>1. Goes(q) /\ user' = [user EXCEPT ![q] = Token(ask[q])]
          /\ UNCHANGED <<id, notice, timed, store>>
      BY <1>1, <2>1, <2>3 DEF Jwt, Goes, Credentials
    <3>2. Passed(q)'
      BY <2>1, <2>3, <3>1 DEF IInv, Types, ReqInv, Passed, Goes
    <3>3. QED
      BY <2>1, <3>1, <3>2, Advance DEF IInv, Types
  <2>4. CASE ~ask[q].route.public /\ ~Credentials(ask[q])
    <3>1. Refused(q)
      <4>1. Reject(q, HttpError(401))
        BY <1>1, <2>4 DEF Jwt, Credentials
      <4>2. IsRefusal(Failure(HttpError(401)))
        BY StatusesOfRefusals DEF Refusals
      <4>3. QED
        BY <2>1, <4>1, <4>2 DEF Reject, TurnBack, Refused
    <3>2. QED
      BY <2>1, <2>4, <3>1, Refusal DEF Grounds
  <2>5. QED
    BY <2>2, <2>3, <2>4
<1>2. CASE Roles(q)
  <2>1. going[q] = "in" /\ at[q] = 6
    BY <1>2, Places DEF Roles, At, IInv
  <2>2. CASE ask[q].route.roles = {} \/ HasRole(q)
    <3>1. Goes(q) /\ UNCHANGED <<local, store>>
      BY <1>2, <2>1, <2>2 DEF Roles, Goes, HasRole
    <3>2. Passed(q)'
      BY <2>1, <2>2, <3>1 DEF IInv, Types, ReqInv, Passed, Goes, HasRole
    <3>3. QED
      BY <2>1, <3>1, <3>2, Advance DEF IInv, Types
  <2>3. CASE ask[q].route.roles # {} /\ ~HasRole(q)
    <3>1. Refused(q)
      <4>1. PICK kind \in {"forbidden", "unauthorized"} : Reject(q, Problem(kind))
        BY <1>2, <2>3 DEF Roles, HasRole
      <4>2. PICK v : v = Failure(Problem(kind)) /\ IsRefusal(v)
        BY StatusesOfRefusals
      <4>3. /\ result' = [result EXCEPT ![q] = v] /\ going' = [going EXCEPT ![q] = "out"]
            /\ UNCHANGED <<ask, at, local, outside, produced, store>>
        BY <4>1, <4>2 DEF Reject, TurnBack
      <4>4. QED
        BY <2>1, <4>2, <4>3 DEF Refused
    <3>2. QED
      BY <2>1, <2>3, <3>1, Refusal DEF Grounds
  <2>4. QED
    BY <2>2, <2>3
<1>3. QED
  BY <1>1, <1>2

\* The interceptors on the way in, and validation.
LEMMA InterceptorSteps ==
    ASSUME IInv, NEW q \in Requests,
           Metrics(q) \/ Deprecation(q) \/ Zod(q) \/ EnterFormat(q) \/ Undecorated(q)
    PROVE  IInv'
<1> USE DEF Pass, local, outside, store
<1>1. CASE Metrics(q)
  <2>1. going[q] = "in" /\ at[q] = 7
    BY <1>1, Places DEF Metrics, At, IInv
  <2>2. Goes(q)
    BY <1>1, <2>1 DEF Metrics, Goes
  <2>3. /\ at'[q] = 8 /\ timed'[q] = TRUE /\ ask' = ask /\ id' = id /\ user' = user
        /\ notice' = notice /\ served' = served /\ slot' = slot /\ kept' = kept
        /\ timed' \in [Requests -> BOOLEAN] /\ \A r \in Requests \ {q} : timed'[r] = timed[r]
    BY <1>1, <2>1 DEF IInv, Types, Metrics
  <2>4. Passed(q)
    BY DEF IInv, ReqInv
  <2>5. Passed(q)'
    BY <2>1, <2>3, <2>4 DEF Passed, HasRole
  <2>6. QED
    BY <2>1, <2>2, <2>3, <2>5, Advance DEF IInv, Types
<1>2. CASE Deprecation(q)
  <2>1. going[q] = "in" /\ at[q] = 8
    BY <1>2, Places DEF Deprecation, At, IInv
  <2>2. Goes(q) /\ notice' = [notice EXCEPT ![q] = ask[q].route.deprecated]
        /\ UNCHANGED <<id, user, timed, store>>
    BY <1>2, <2>1 DEF Deprecation, Goes
  <2>3. ask[q].route.deprecated \in BOOLEAN
    BY AskAssumption DEF IInv, Types, RouteFlags
  <2>4. /\ notice' \in [Requests -> BOOLEAN] /\ notice'[q] = ask[q].route.deprecated
        /\ \A r \in Requests \ {q} : notice'[r] = notice[r]
    BY <2>2, <2>3 DEF IInv, Types
  <2>5. /\ at'[q] = 9 /\ ask' = ask /\ id' = id /\ user' = user /\ timed' = timed
        /\ served' = served /\ slot' = slot /\ kept' = kept
    BY <2>1, <2>2 DEF IInv, Types, Goes
  <2>6. Passed(q)
    BY DEF IInv, ReqInv
  <2>7. Passed(q)'
    BY <2>1, <2>3, <2>4, <2>5, <2>6 DEF Passed, HasRole
  <2>8. QED
    BY <2>1, <2>2, <2>4, <2>5, <2>7, Advance DEF IInv, Types
<1>3. CASE Zod(q)
  <2>1. going[q] = "in" /\ at[q] = 9
    BY <1>3, Places DEF Zod, At, IInv
  <2>2. CASE ~Invalid(ask[q])
    <3>1. Goes(q) /\ UNCHANGED <<local, store>>
      BY <1>3, <2>1, <2>2 DEF Zod, Goes
    <3>2. Passed(q)'
      BY <2>1, <2>2, <3>1 DEF IInv, Types, ReqInv, Passed, Goes, HasRole
    <3>3. QED
      BY <2>1, <3>1, <3>2, Advance DEF IInv, Types
  <2>3. CASE Invalid(ask[q])
    <3>1. Refused(q) /\ result'[q] = Failure(HttpError(400))
      <4>1. IsRefusal(Failure(HttpError(400)))
        BY StatusesOfRefusals DEF Refusals
      <4>2. QED
        BY <1>3, <2>1, <2>3, <4>1 DEF Zod, Reject, TurnBack, Refused, IInv, Types
    <3>2. QED
      BY <2>1, <3>1, Refusal DEF Grounds
  <2>4. QED
    BY <2>2, <2>3
<1>4. CASE EnterFormat(q) \/ Undecorated(q)
  <2>1. going[q] = "in" /\ at[q] \in {10, 11}
    BY <1>4, Places DEF EnterFormat, Undecorated, At, IInv
  <2>2. Goes(q) /\ UNCHANGED <<local, store>>
    BY <1>4, <2>1 DEF EnterFormat, Undecorated, Goes
  <2>3. Passed(q)'
    BY <2>1, <2>2 DEF IInv, Types, ReqInv, Passed, Goes, HasRole
  <2>4. QED
    BY <2>1, <2>2, <2>3, Advance DEF IInv, Types
<1>5. QED
  BY <1>1, <1>2, <1>3, <1>4

-----------------------------------------------------------------------------
(* The store *)

\* The store refuses q, or q has no key to ask for.
LEMMA RefusedByStore ==
    ASSUME IInv, NEW q \in Requests, MissingKey(q) \/ Mismatch(q) \/ InProgress(q)
    PROVE  IInv'
<1>1. going[q] = "in" /\ at[q] = 11
  BY Places DEF MissingKey, Mismatch, InProgress, Asking, At, IInv
<1>2. PICK kind \in {"bad_request", "validation", "conflict"} : Reject(q, Problem(kind))
  BY DEF MissingKey, Mismatch, InProgress
<1>3. Refused(q) /\ result'[q] = Failure(Problem(kind))
  BY <1>1, <1>2, StatusesOfRefusals
     DEF Reject, TurnBack, Refused, IInv, Types, local, outside, store
<1>4. QED
  BY <1>1, <1>3, Refusal DEF Grounds

\* Whoever is granted a key has come past validation.
LEMMA Claims ==
    ASSUME IInv, NEW q \in Requests, Claim(q)
    PROVE  IInv'
<1>1. going[q] = "in" /\ at[q] = 11 /\ ask[q].key \in Keys
  BY Places, AskAssumption DEF Claim, Asking, At, IInv, Types
<1>2. /\ Goes(q) /\ UNCHANGED <<local, kept>> /\ served' = served
      /\ slot' = [slot EXCEPT ![ask[q].key] = Contract!Owned(q, Fingerprint(q))]
  BY <1>1 DEF Claim, Goes, Pass, Contract!Own, Contract!Starts, outside
<1>3. Passed(q)'
  BY <1>1, <1>2 DEF IInv, Types, ReqInv, Passed, Goes, HasRole, local
<1>4. ASSUME NEW k \in Keys PROVE SlotInv(k)'
  <2>1. CASE k = ask[q].key
    BY <1>1, <1>2, <2>1 DEF IInv, Types, SlotInv, Goes, Contract!Owned
  <2>2. CASE k # ask[q].key
    BY <1>1, <1>2, <2>2 DEF IInv, Types, SlotInv, Goes, Ran
  <2>3. QED
    BY <2>1, <2>2
<1>5. QED
  BY <1>1, <1>2, <1>3, <1>4, Advance DEF IInv, Types, local

\* A claim that rejects ends the request, whether it was granted or not.
LEMMA ClaimsFail ==
    ASSUME IInv, NEW q \in Requests, ClaimFails(q)
    PROVE  IInv'
<1>1. going[q] = "in" /\ at[q] = 11 /\ ask[q].key \in Keys
  BY Places, AskAssumption DEF ClaimFails, Asking, At, IInv, Types
<1>2. PICK e \in StoreErrors : TurnBack(q, Failure(e))
  BY DEF ClaimFails
<1>3. /\ result' = [result EXCEPT ![q] = Failure(e)] /\ going' = [going EXCEPT ![q] = "out"]
      /\ UNCHANGED <<ask, at, local, outside, produced, served, kept>>
      /\ \/ slot' = slot
         \/ slot' = [slot EXCEPT ![ask[q].key] = Contract!Owned(q, Fingerprint(q))]
  BY <1>2 DEF ClaimFails, TurnBack, Contract!Own, Contract!Starts
<1>4. Types'
  <2>1. /\ going' \in [Requests -> {"in", "out", "sent"}] /\ DOMAIN result' = Requests
        /\ DOMAIN slot' = Keys
        /\ ask' = ask /\ at' = at /\ produced' = produced /\ id' = id /\ user' = user
        /\ notice' = notice /\ timed' = timed /\ answer' = answer /\ counted' = counted
        /\ served' = served /\ kept' = kept
    BY <1>3 DEF IInv, Types, local, outside
  <2>2. QED
    BY <2>1 DEF IInv, Types
<1>5. Alone(q)
  BY <1>3 DEF IInv, Types, Alone, local, outside
<1>6. Passed(q)'
  BY <1>3 DEF IInv, ReqInv, Passed, HasRole, local
<1>7. Outcome(q)'
  <2>1. /\ at'[q] = 11 /\ going'[q] = "out" /\ result'[q] = Failure(e)
        /\ produced'[q] = produced[q] /\ served'[q] = served[q]
    BY <1>1, <1>3 DEF IInv, Types
  <2>2. ~Ran(q) /\ served[q] = NoRequest
    BY <1>1 DEF IInv, ReqInv, Outcome
  <2>3. Grounds(q, result[q])' /\ StoreFailed(q)'
    BY <2>1 DEF Grounds, StoreFailed
  <2>4. QED
    BY <2>1, <2>2, <2>3, PipelineAssumption DEF Outcome, Ran, WasReplayed
<1>8. Answers(q)'
  BY <1>1, <1>3 DEF IInv, Types, ReqInv, Answers, outside
<1>9. ASSUME NEW k \in Keys PROVE SlotInv(k)'
  <2>1. CASE slot'[k] = slot[k]
    BY <1>3, <1>5, <2>1, SlotStays
  <2>2. CASE slot'[k] # slot[k]
    <3>1. slot'[k] = Contract!Owned(q, Fingerprint(q))
      BY <1>3, <2>2 DEF IInv, Types
    <3>2. at'[q] >= 10
      BY <1>1, <1>3
    <3>3. QED
      BY <3>1, <3>2 DEF SlotInv, Contract!Owned
  <2>3. QED
    BY <2>1, <2>2
<1>10. QED
  BY <1>4, <1>5, <1>6, <1>7, <1>8, <1>9, StepOfOne DEF ReqInv

\* Whoever is shown a stored response gets that of a success.
LEMMA Replays ==
    ASSUME IInv, NEW q \in Requests, Replay(q)
    PROVE  IInv'
<1> DEFINE k == ask[q].key
           o == slot[k].by
<1>1. going[q] = "in" /\ at[q] = 11 /\ k \in Keys
  BY Places, AskAssumption DEF Replay, Asking, At, IInv, Types
<1>2. /\ slot[k].state = "stored" /\ served' = [served EXCEPT ![q] = o] /\ slot' = slot
      /\ result' = [result EXCEPT ![q] = kept[k]] /\ going' = [going EXCEPT ![q] = "out"]
      /\ UNCHANGED <<ask, at, local, outside, produced, kept>>
  BY DEF Replay, TurnBack, Contract!Replay, Contract!Answers
<1>3. o \in Requests /\ Ran(o) /\ ~Failed(produced[o]) /\ kept[k] = produced[o]
  BY <1>1, <1>2 DEF IInv, SlotInv
<1>4. ~Ran(q) /\ o # q
  BY <1>1, <1>3 DEF IInv, ReqInv, Outcome
<1> HIDE DEF o, k
<1>5. Types'
  BY <1>2, <1>3 DEF IInv, Types, local, outside
<1>6. Alone(q)
  BY <1>2 DEF IInv, Types, Alone, local, outside
<1>7. Passed(q)'
  BY <1>2 DEF IInv, ReqInv, Passed, HasRole, local
<1>8. Outcome(q)'
  BY <1>1, <1>2, <1>3, <1>4, PipelineAssumption
     DEF IInv, Types, Outcome, Ran, WasReplayed, Carries
<1>9. Answers(q)'
  BY <1>1, <1>2 DEF IInv, Types, ReqInv, Answers, outside
<1>10. ASSUME NEW other \in Keys PROVE SlotInv(other)'
  BY <1>2, <1>6, SlotStays
<1>11. QED
  BY <1>5, <1>6, <1>7, <1>8, <1>9, <1>10, StepOfOne DEF ReqInv

\* A slot that is freed without a step of a request leaves the others alone.
LEMMA Freed ==
    ASSUME IInv, NEW gone \in SUBSET Keys,
           slot' = [k \in Keys |-> IF k \in gone THEN Contract!Free ELSE slot[k]],
           UNCHANGED <<ask, at, going, result, local, outside, produced, kept, served>>
    PROVE  IInv'
<1>1. Types'
  BY DEF IInv, Types, local, outside
<1>2. ASSUME NEW r \in Requests PROVE ReqInv(r)'
  BY Untouched DEF IInv, local, outside
<1>3. ASSUME NEW k \in Keys PROVE SlotInv(k)'
  BY DEF IInv, SlotInv, Contract!Free, Ran
<1>4. QED
  BY <1>1, <1>2, <1>3 DEF IInv

\* So do a response that expires and a claim that becomes stale.
LEMMA Expiries ==
    ASSUME IInv, Expire \/ \E k \in Keys : Lapse(k)
    PROVE  IInv'
<1>1. CASE Expire
  <2>1. PICK gone \in SUBSET Keys :
           slot' = [k \in Keys |-> IF k \in gone THEN Contract!Free ELSE slot[k]]
    BY <1>1 DEF Expire, Contract!Holding, Contract!Without
  <2>2. UNCHANGED <<ask, at, going, result, local, outside, produced, kept, served>>
    BY <1>1 DEF Expire
  <2>3. QED
    BY <2>1, <2>2, Freed
<1>2. ASSUME NEW q \in Keys, Lapse(q) PROVE IInv'
  <2>1. slot' = [slot EXCEPT ![q] = Contract!Free]
    BY <1>2 DEF Lapse, Contract!GiveUp
  <2>2. slot' = [k \in Keys |-> IF k \in {q} THEN Contract!Free ELSE slot[k]]
    BY <2>1 DEF IInv, Types
  <2>3. UNCHANGED <<ask, at, going, result, local, outside, produced, kept, served>>
    BY <1>2 DEF Lapse, Contract!GiveUp
  <2>4. QED
    BY <2>2, <2>3, Freed
<1>3. QED
  BY <1>1, <1>2

-----------------------------------------------------------------------------
(* The handler and the way out *)

\* A handler ends with what its request then carries.
LEMMA Handlings ==
    ASSUME IInv, NEW q \in Requests, Handle(q)
    PROVE  IInv'
<1>1. going[q] = "in" /\ at[q] = 12
  BY Places DEF Handle, At, IInv
<1>2. PICK ending : IsEnding(q, ending) /\ produced' = [produced EXCEPT ![q] = ending]
                    /\ TurnBack(q, ending)
  BY DEF Handle, IsEnding
<1>3. /\ result' = [result EXCEPT ![q] = ending] /\ going' = [going EXCEPT ![q] = "out"]
      /\ UNCHANGED <<ask, at, local, outside, store>>
  BY <1>2 DEF Handle, TurnBack
<1>4. ending # Pending
  BY <1>2, HandlersEnd
<1>5. ~Ran(q) /\ served[q] = NoRequest
  BY <1>1 DEF IInv, ReqInv, Outcome
<1>6. Types'
  <2>1. /\ going' \in [Requests -> {"in", "out", "sent"}] /\ DOMAIN result' = Requests
        /\ DOMAIN produced' = Requests
        /\ ask' = ask /\ at' = at /\ id' = id /\ user' = user
        /\ notice' = notice /\ timed' = timed /\ answer' = answer /\ counted' = counted
        /\ served' = served /\ slot' = slot /\ kept' = kept
    BY <1>2, <1>3 DEF IInv, Types, local, outside, store
  <2>2. QED
    BY <2>1 DEF IInv, Types
<1>7. Alone(q)
  BY <1>2, <1>3, <1>5 DEF IInv, Types, Alone, local, outside, store
<1>8. Passed(q)'
  BY <1>3 DEF IInv, ReqInv, Passed, HasRole, local
<1>9. Outcome(q)'
  <2>1. /\ at'[q] = 12 /\ going'[q] = "out" /\ result'[q] = ending /\ produced'[q] = ending
        /\ served'[q] = NoRequest
    BY <1>1, <1>2, <1>3, <1>5 DEF IInv, Types, store
  <2>2. IsEnding(q, ending)'
    BY <1>2, <1>3 DEF IsEnding, Endings, Forms
  <2>3. Ran(q)' /\ ~WasReplayed(q)' /\ Carries(q, ending)' /\ served'[q] # q
    BY <1>4, <2>1, PipelineAssumption DEF Ran, WasReplayed, Carries
  <2>4. QED
    BY <2>1, <2>2, <2>3 DEF Outcome, Told
<1>10. Answers(q)'
  BY <1>1, <1>3 DEF IInv, Types, ReqInv, Answers, outside
<1>11. ASSUME NEW k \in Keys PROVE SlotInv(k)'
  BY <1>1, <1>3, <1>7, SlotStays DEF store
<1>12. QED
  BY <1>6, <1>7, <1>8, <1>9, <1>10, <1>11, StepOfOne DEF ReqInv

\* What comes out of the last stage is what a handler ended with, or what a
\* call of the store rejected with.
LEMMA FromHandler ==
    ASSUME IInv, NEW q \in Requests, at[q] = 12, going[q] = "out"
    PROVE  /\ Ran(q) /\ ~WasReplayed(q) /\ served[q] = NoRequest
           /\ result[q] = produced[q] \/ (StoreFailed(q) /\ Keyed(q))
<1>1. Outcome(q)
  BY DEF IInv, ReqInv
<1>2. Ran(q) /\ ~WasReplayed(q) /\ served[q] = NoRequest
  BY <1>1 DEF Outcome, Grounds
<1>3. QED
  BY <1>1, <1>2 DEF Outcome, Told, Carries

\* Out of the idempotency interceptor, or on to its catchError, with the slots
\* and what is stored as good as they were.
LEMMA OutOfStore ==
    ASSUME IInv, NEW q \in Requests, Leaving(q, "idempotency"),
           UNCHANGED <<ask, going, local, outside, produced>>,
           at' \in {at, [at EXCEPT ![q] = 11]},
           DOMAIN result' = Requests, \A r \in Requests \ {q} : result'[r] = result[r],
           served' \in {served, [served EXCEPT ![q] = q]}, at' = at => served' = served,
           DOMAIN slot' = Keys, DOMAIN kept' = Keys, \A k \in Keys : SlotInv(k)',
           Told(q)'
    PROVE  IInv'
<1>1. at[q] = 12 /\ going[q] = "out" /\ at'[q] \in {11, 12}
  BY Places DEF IInv, Leaving, Types
<1>2. Ran(q) /\ ~WasReplayed(q) /\ served[q] = NoRequest
  BY <1>1, FromHandler
<1>3. Types'
  <2>1. /\ at' \in [Requests -> 1..12] /\ served' \in [Requests -> Requests \cup {NoRequest}]
        /\ ask' = ask /\ going' = going /\ produced' = produced /\ id' = id /\ user' = user
        /\ notice' = notice /\ timed' = timed /\ answer' = answer /\ counted' = counted
    BY DEF IInv, Types, local, outside
  <2>2. QED
    BY <2>1 DEF IInv, Types
<1>4. Alone(q)
  BY DEF IInv, Types, Alone, local, outside
<1>5. Passed(q)'
  <2>1. /\ at'[q] \in {11, 12} /\ ask' = ask /\ id' = id /\ user' = user /\ notice' = notice
        /\ timed' = timed
    BY <1>1 DEF IInv, Types, local
  <2>2. Passed(q)
    BY DEF IInv, ReqInv
  <2>3. QED
    BY <1>1, <2>1, <2>2 DEF Passed, HasRole
<1>6. Outcome(q)'
  <2>1. /\ going'[q] = "out" /\ produced'[q] = produced[q] /\ IsEnding(q, produced[q])
        /\ served'[q] \in {q, NoRequest}
        /\ at'[q] = 12 => served'[q] = NoRequest
    BY <1>1, <1>2 DEF IInv, Types, ReqInv, Outcome
  <2>2. IsEnding(q, produced[q])'
    BY <2>1 DEF IsEnding, Endings, Forms
  <2>3. Ran(q)' /\ ~WasReplayed(q)'
    BY <1>2, <2>1 DEF Ran, WasReplayed
  <2>4. QED
    BY <1>1, <2>1, <2>2, <2>3 DEF Outcome
<1>7. Answers(q)'
  BY <1>1 DEF IInv, Types, ReqInv, Answers, outside
<1>8. QED
  BY <1>3, <1>4, <1>5, <1>6, <1>7, StepOfOne DEF ReqInv

\* Only a success is stored, and a key that is cleared is free again.
LEMMA StoredOrCleared ==
    ASSUME IInv, NEW q \in Requests, Settling(q), produced' = produced,
           at' \in {at, [at EXCEPT ![q] = 11]},
           \/ UNCHANGED <<slot, kept>>
           \/ Stores(q) /\ ~Failed(result[q])
           \/ Clears(q)
    PROVE  DOMAIN slot' = Keys /\ DOMAIN kept' = Keys /\ \A k \in Keys : SlotInv(k)'
<1>1. at[q] = 12 /\ going[q] = "out"
  BY Places DEF IInv, Settling, Leaving
<1>2. Ran(q) /\ (result[q] = produced[q] \/ StoreFailed(q))
  BY <1>1, FromHandler
<1>3. ask[q].key \in Keys
  BY AskAssumption DEF Settling, Keyed, IInv, Types
<1>4. ASSUME NEW k \in Keys, slot'[k] = slot[k], kept'[k] = kept[k] \/ slot[k].state # "stored"
      PROVE  SlotInv(k)'
  <2>1. \A r \in Requests : at[r] >= 10 => at'[r] >= 10
    BY <1>1 DEF IInv, Types
  <2>2. QED
    BY <1>4, <2>1 DEF IInv, SlotInv, Ran
<1>5. CASE UNCHANGED <<slot, kept>>
  BY <1>4, <1>5 DEF IInv, Types
<1>6. CASE Stores(q) /\ ~Failed(result[q])
  <2>1. /\ slot' = [slot EXCEPT ![ask[q].key] = Contract!Stored(q, Fingerprint(q))]
        /\ kept' = [kept EXCEPT ![ask[q].key] = result[q]]
    BY <1>6 DEF Stores
  <2>2. result[q] = produced[q]
    BY <1>2, <1>6, Errors DEF StoreFailed
  <2>3. ASSUME NEW k \in Keys PROVE SlotInv(k)'
    <3>1. CASE k = ask[q].key
      <4>1. slot'[k].state = "stored" /\ slot'[k].by = q /\ kept'[k] = produced[q]
        BY <2>1, <2>2, <3>1 DEF IInv, Types, Contract!Stored
      <4>2. at'[q] >= 10
        BY <1>1 DEF IInv, Types
      <4>3. QED
        BY <1>2, <1>6, <2>2, <4>1, <4>2 DEF SlotInv, Ran
    <3>2. CASE k # ask[q].key
      BY <1>4, <2>1, <3>2 DEF IInv, Types
    <3>3. QED
      BY <3>1, <3>2
  <2>4. QED
    BY <2>1, <2>3 DEF IInv, Types
<1>7. CASE Clears(q)
  <2>1. /\ kept' = kept /\ DOMAIN slot' = Keys /\ slot'[ask[q].key] = Contract!Free
        /\ \A k \in Keys : k # ask[q].key => slot'[k] = slot[k]
    <3>1. CASE Contract!GiveUp(q, ask[q].key, Fingerprint(q))
      BY <1>3, <1>7, <3>1 DEF Clears, Contract!GiveUp, IInv, Types
    <3>2. CASE slot' = Contract!Without({ask[q].key})
      BY <1>3, <1>7, <3>2 DEF Clears, Contract!Without
    <3>3. QED
      BY <1>7, <3>1, <3>2 DEF Clears
  <2>2. ASSUME NEW k \in Keys PROVE SlotInv(k)'
    <3>1. CASE k = ask[q].key
      BY <2>1, <3>1 DEF Contract!Free, SlotInv
    <3>2. CASE k # ask[q].key
      BY <1>4, <2>1, <3>2
    <3>3. QED
      BY <3>1, <3>2
  <2>3. QED
    BY <2>1, <2>2 DEF IInv, Types
<1>8. QED
  BY <1>5, <1>6, <1>7

\* The calls of the store that settle a key, and those that reject.
LEMMA StoreSteps ==
    ASSUME IInv, NEW q \in Requests,
           \/ Complete(q) \/ CompleteFails(q) \/ Release(q) \/ ReleaseFails(q)
           \/ DiscardFails(q) \/ LeaveUndecorated(q)
    PROVE  IInv'
<1>1. Leaving(q, "idempotency")
  BY DEF Complete, CompleteFails, Release, ReleaseFails, DiscardFails, LeaveUndecorated, Settling
<1>2. at[q] = 12 /\ going[q] = "out" /\ Max(Entered(q)) = 11
  BY <1>1, Places DEF IInv, Leaving
<1>3. /\ served[q] = NoRequest
      /\ result[q] = produced[q] \/ (StoreFailed(q) /\ Keyed(q))
  BY <1>2, FromHandler
<1>4. ASSUME Outward(q)
      PROVE  /\ at' = [at EXCEPT ![q] = 11] /\ at'[q] = 11
             /\ UNCHANGED <<ask, going, local, outside, produced>>
  BY <1>2, <1>4 DEF Outward, IInv, Types
<1>5. ASSUME NEW e \in StoreErrors, result' = [result EXCEPT ![q] = Failure(e)],
             served' = served, ask' = ask, Settling(q)
      PROVE  /\ Told(q)' /\ DOMAIN result' = Requests
             /\ \A r \in Requests \ {q} : result'[r] = result[r]
  <2>1. StoreFailed(q)' /\ Keyed(q)' /\ served'[q] = NoRequest
    BY <1>3, <1>5 DEF StoreFailed, Keyed, Settling, IInv, Types
  <2>2. QED
    BY <1>5, <2>1 DEF Told, IInv, Types
<1>6. CASE Complete(q)
  <2>1. Outward(q) /\ Settling(q) /\ Stores(q) /\ ~Failed(result[q]) /\ result' = result
    BY <1>6 DEF Complete
  <2>2. result[q] = produced[q]
    BY <1>3, <2>1, Errors DEF StoreFailed
  <2>3. served' = [served EXCEPT ![q] = q] /\ served'[q] = q
    BY <1>6 DEF Complete, IInv, Types
  <2>4. Told(q)'
    BY <1>4, <2>1, <2>2, <2>3 DEF Told, Carries
  <2>5. DOMAIN slot' = Keys /\ DOMAIN kept' = Keys /\ \A k \in Keys : SlotInv(k)'
    BY <1>4, <2>1, StoredOrCleared
  <2>6. at' # at
    BY <1>2, <1>4, <2>1
  <2>7. QED
    BY <1>1, <1>4, <2>1, <2>3, <2>4, <2>5, <2>6, OutOfStore DEF IInv, Types
<1>7. CASE CompleteFails(q)
  <2>1. /\ Settling(q) /\ ~Failed(result[q]) /\ served' = served
        /\ Stores(q) \/ UNCHANGED <<slot, kept>>
        /\ UNCHANGED <<ask, at, going, local, outside, produced>>
    BY <1>7 DEF CompleteFails, Caught
  <2>2. PICK e \in StoreErrors : result' = [result EXCEPT ![q] = Failure(e)]
    BY <1>7 DEF CompleteFails, Caught
  <2>3. QED
    BY <1>1, <1>5, <2>1, <2>2, StoredOrCleared, OutOfStore
<1>8. CASE Release(q)
  <2>1. Outward(q) /\ Settling(q) /\ Clears(q) /\ Failed(result[q]) /\ result' = result
    BY <1>8 DEF Release
  <2>2. served' = served
    BY <2>1 DEF Clears, Contract!GiveUp
  <2>3. Told(q)'
    <3>1. CASE result[q] = produced[q]
      BY <1>4, <2>1, <3>1 DEF Told, Carries
    <3>2. CASE StoreFailed(q) /\ Keyed(q)
      BY <1>3, <1>4, <2>1, <2>2, <3>2 DEF Told, StoreFailed, Keyed
    <3>3. QED
      BY <1>3, <3>1, <3>2
  <2>4. QED
    BY <1>1, <1>4, <2>1, <2>2, <2>3, StoredOrCleared, OutOfStore DEF IInv, Types
<1>9. CASE ReleaseFails(q)
  <2>1. /\ Settling(q) /\ served' = served /\ UNCHANGED <<slot, kept>>
        /\ UNCHANGED <<ask, at, going, local, outside, produced>>
    BY <1>9 DEF ReleaseFails, Caught, store
  <2>2. PICK e \in StoreErrors : result' = [result EXCEPT ![q] = Failure(e)]
    BY <1>9 DEF ReleaseFails, Caught
  <2>3. QED
    BY <1>1, <1>5, <2>1, <2>2, StoredOrCleared, OutOfStore
<1>10. CASE DiscardFails(q)
  <2>1. Settling(q) /\ Outward(q) /\ (Clears(q) \/ UNCHANGED store)
    BY <1>10 DEF DiscardFails
  <2>2. served' = served
    BY <2>1 DEF Clears, Contract!GiveUp, store
  <2>3. PICK e \in StoreErrors : result' = [result EXCEPT ![q] = Failure(e)]
    BY <1>10 DEF DiscardFails
  <2>4. Clears(q) \/ UNCHANGED <<slot, kept>>
    BY <2>1 DEF store
  <2>5. QED
    BY <1>1, <1>4, <1>5, <2>1, <2>2, <2>3, <2>4, StoredOrCleared, OutOfStore
<1>11. CASE LeaveUndecorated(q)
  <2>1. Outward(q) /\ ~Keyed(q) /\ result' = result /\ UNCHANGED store
    BY <1>11 DEF LeaveUndecorated
  <2>2. result[q] = produced[q]
    BY <1>3, <2>1
  <2>3. Told(q)'
    BY <1>4, <2>1, <2>2 DEF Told, Carries, Keyed
  <2>4. ASSUME NEW k \in Keys PROVE SlotInv(k)'
    <3>1. \A r \in Requests : at[r] >= 10 => at'[r] >= 10
      BY <1>2, <1>4, <2>1 DEF IInv, Types
    <3>2. QED
      BY <1>4, <2>1, <3>1 DEF IInv, SlotInv, Ran, store
  <2>5. QED
    BY <1>1, <1>4, <2>1, <2>3, <2>4, OutOfStore DEF IInv, Types, store
<1>12. QED
  BY <1>6, <1>7, <1>8, <1>9, <1>10, <1>11

\* The envelope keeps success and failure apart.
LEMMA Formattings ==
    ASSUME IInv, NEW q \in Requests, LeaveFormat(q)
    PROVE  IInv'
<1>1. at[q] = 11 /\ going[q] = "out" /\ Max(Entered(q)) = 10
  BY Places DEF IInv, LeaveFormat, Leaving
<1>2. /\ at' = [at EXCEPT ![q] = 10]
      /\ result' = [result EXCEPT ![q] = IF Raw(ask[q]) THEN @ ELSE Formatted(q, @)]
      /\ UNCHANGED <<ask, going, local, outside, produced, store>>
  BY <1>1 DEF LeaveFormat, Outward
<1>3. Types'
  <2>1. /\ at' \in [Requests -> 1..12] /\ DOMAIN result' = Requests
        /\ ask' = ask /\ going' = going /\ produced' = produced /\ id' = id /\ user' = user
        /\ notice' = notice /\ timed' = timed /\ answer' = answer /\ counted' = counted
        /\ served' = served /\ slot' = slot /\ kept' = kept
    BY <1>2 DEF IInv, Types, local, outside, store
  <2>2. QED
    BY <2>1 DEF IInv, Types
<1>4. Alone(q)
  BY <1>2 DEF IInv, Types, Alone, local, outside, store
<1>5. Passed(q)'
  <2>1. /\ at'[q] = 10 /\ ask' = ask /\ id' = id /\ user' = user /\ notice' = notice
        /\ timed' = timed
    BY <1>2 DEF IInv, Types, local
  <2>2. Passed(q)
    BY DEF IInv, ReqInv
  <2>3. QED
    BY <1>1, <2>1, <2>2 DEF Passed, HasRole
<1>6. Outcome(q)'
  <2>1. /\ at'[q] = 10 /\ going'[q] = "out" /\ produced' = produced /\ served' = served
        /\ result'[q] = IF Raw(ask[q]) THEN result[q] ELSE Formatted(q, result[q])
    BY <1>1, <1>2 DEF IInv, Types, store
  <2>2. Outcome(q)
    BY DEF IInv, ReqInv
  <2>3. ASSUME NEW v, Carries(q, v)
        PROVE  Carries(q, v)'
    <3>1. result[q] = v
      BY <1>1, <2>3 DEF Carries
    <3>2. Formatted(q, v)' = Formatted(q, v) /\ Raw(ask[q])' = Raw(ask[q])
      BY <1>2 DEF Formatted, Raw, local
    <3>3. QED
      BY <2>1, <3>1, <3>2 DEF Carries
  <2>4. IsEnding(q, produced[q])' <=> IsEnding(q, produced[q])
    BY <1>2 DEF IsEnding, Endings, Forms
  <2>5. ASSUME NEW e, result[q] = Failure(e)
        PROVE  result'[q] = Failure(e)
    <3>1. Formatted(q, result[q]) = result[q]
      BY <2>5, Errors DEF Formatted
    <3>2. QED
      BY <2>1, <2>5, <3>1
  <2>6. StoreFailed(q) => StoreFailed(q)'
    BY <2>5 DEF StoreFailed
  <2>7. Told(q) => Told(q)'
    <3>1. Keyed(q)' <=> Keyed(q)
      BY <1>2 DEF Keyed
    <3>2. QED
      BY <1>1, <2>1, <2>3, <2>6, <3>1 DEF Told
  <2>8. ASSUME ~Ran(q), ~WasReplayed(q)
        PROVE  Grounds(q, result[q])' /\ (IsRefusal(result'[q]) \/ StoreFailed(q)')
    <3>1. CASE \E kind \in {"bad_request", "validation", "conflict"} :
                  result[q] = Failure(Problem(kind))
      <4>1. PICK kind \in {"bad_request", "validation", "conflict"} :
                 result[q] = Failure(Problem(kind))
        BY <3>1
      <4>2. result'[q] = Failure(Problem(kind)) /\ IsRefusal(result'[q])
        BY <2>5, <4>1, StatusesOfRefusals
      <4>3. QED
        BY <2>1, <4>2 DEF Grounds
    <3>2. CASE StoreFailed(q)
      BY <2>1, <2>6, <3>2 DEF Grounds, StoreFailed
    <3>3. QED
      BY <1>1, <2>2, <2>8, <3>1, <3>2 DEF Outcome, Grounds, StoreFailed
  <2>9. QED
    BY <1>1, <2>1, <2>2, <2>3, <2>4, <2>7, <2>8 DEF Outcome, Ran, WasReplayed
<1>7. Answers(q)'
  BY <1>1, <1>2 DEF IInv, Types, ReqInv, Answers, outside
<1>8. ASSUME NEW k \in Keys PROVE SlotInv(k)'
  BY <1>1, <1>2, <1>4, SlotStays DEF IInv, Types, store
<1>9. QED
  BY <1>3, <1>4, <1>5, <1>6, <1>7, <1>8, StepOfOne DEF ReqInv

\* What is sent follows from what the request carries.
LEMMA Sendings ==
    ASSUME IInv, NEW q \in Requests, Send(q)
    PROVE  IInv'
<1> DEFINE sent == Response(q, result[q])
<1>1. at[q] <= 10 /\ going[q] = "out"
  BY Places DEF IInv, Send
<1>2. /\ going' = [going EXCEPT ![q] = "sent"]
      /\ answer' = [answer EXCEPT ![q] = Append(@, sent)]
      /\ counted' = [counted EXCEPT ![q] = IF timed[q] THEN Append(@, sent.status) ELSE @]
      /\ UNCHANGED <<ask, at, result, local, produced, store>>
  BY DEF Send
<1>3. Types'
  <2>1. /\ going' \in [Requests -> {"in", "out", "sent"}]
        /\ DOMAIN answer' = Requests /\ DOMAIN counted' = Requests
        /\ ask' = ask /\ at' = at /\ produced' = produced /\ id' = id /\ user' = user
        /\ notice' = notice /\ timed' = timed /\ result' = result
        /\ served' = served /\ slot' = slot /\ kept' = kept
    BY <1>2 DEF IInv, Types, local, store
  <2>2. QED
    BY <2>1 DEF IInv, Types
<1>4. Alone(q)
  BY <1>2 DEF IInv, Types, Alone, local, store
<1>5. Passed(q)'
  BY <1>2 DEF IInv, ReqInv, Passed, HasRole, local
<1>6. Outcome(q)'
  <2>1. going'[q] = "sent" /\ at' = at
    BY <1>2 DEF IInv, Types
  <2>2. Outcome(q)
    BY DEF IInv, ReqInv
  <2>3. \A v : Carries(q, v)' <=> Carries(q, v)
    BY <1>2 DEF Carries, Formatted, local
  <2>4. IsEnding(q, produced[q])' <=> IsEnding(q, produced[q])
    BY <1>2 DEF IsEnding, Endings, Forms
  <2>5. Grounds(q, result[q])' <=> Grounds(q, result[q])
    BY <1>2 DEF Grounds, HasRole, local
  <2>6. /\ StoreFailed(q)' <=> StoreFailed(q)
        /\ Told(q)' <=> Told(q)
    BY <1>2, <2>1, <2>3 DEF StoreFailed, Told, Keyed, store
  <2>7. QED
    BY <1>1, <1>2, <2>1, <2>2, <2>3, <2>4, <2>5, <2>6 DEF Outcome, Ran, WasReplayed, store
<1>7. Answers(q)'
  <2>1. sent' = sent
    BY <1>2 DEF Response, local
  <2>2. answer[q] = <<>> /\ counted[q] = <<>>
    BY <1>1 DEF IInv, ReqInv, Answers
  <2>3. /\ answer'[q] = Append(<<>>, sent)
        /\ counted'[q] = IF timed[q] THEN Append(<<>>, sent.status) ELSE <<>>
    BY <1>2, <2>2 DEF IInv, Types
  <2>4. \A x : Append(<<>>, x) = <<x>>
    OBVIOUS
  <2> HIDE DEF sent
  <2>5. going'[q] = "sent" /\ timed' = timed
    BY <1>2 DEF IInv, Types, local
  <2>6. answer'[q] = <<sent>> /\ counted'[q] = IF timed[q] THEN <<sent.status>> ELSE <<>>
    BY <2>3, <2>4
  <2>7. QED
    BY <2>1, <2>5, <2>6 DEF Answers, sent
<1>8. ASSUME NEW k \in Keys PROVE SlotInv(k)'
  BY <1>2, <1>4, SlotStays DEF store
<1>9. QED
  BY <1>3, <1>4, <1>5, <1>6, <1>7, <1>8, StepOfOne DEF ReqInv

-----------------------------------------------------------------------------
(* The invariant and what it says *)

\* At the beginning every request is before the first stage.
LEMMA Starts ==
    ASSUME Init
    PROVE  IInv
<1>1. Types
  BY DEF Init, Types, Contract!Init
<1>2. ASSUME NEW r \in Requests PROVE ReqInv(r)
  <2>1. /\ at[r] = 1 /\ going[r] = "in" /\ result[r] = Pending /\ produced[r] = Pending
        /\ id[r] = NoRequest /\ user[r] = NoToken /\ notice[r] = FALSE /\ timed[r] = FALSE
        /\ answer[r] = <<>> /\ counted[r] = <<>> /\ served[r] = NoRequest
    BY DEF Init, Contract!Init
  <2>2. r # NoRequest
    BY PipelineAssumption
  <2>3. Passed(r)
    BY <2>1 DEF Passed
  <2>4. Outcome(r)
    BY <2>1, <2>2 DEF Outcome, Ran, WasReplayed
  <2>5. Answers(r)
    BY <2>1 DEF Answers
  <2>6. QED
    BY <2>3, <2>4, <2>5 DEF ReqInv
<1>3. ASSUME NEW k \in Keys PROVE SlotInv(k)
  BY DEF Init, Contract!Init, Contract!Free, SlotInv
<1>4. QED
  BY <1>1, <1>2, <1>3 DEF IInv

\* Every step of every stage keeps the invariant.
LEMMA Steps ==
    ASSUME IInv, [Next]_vars
    PROVE  IInv'
<1>1. CASE Expire \/ \E k \in Keys : Lapse(k)
  BY <1>1, Expiries
<1>2. ASSUME NEW q \in Requests, StageOf(q)
      PROVE  IInv'
  BY <1>2, EarlySteps, TokenSteps, InterceptorSteps, RefusedByStore, Claims, ClaimsFail,
     Replays, Handlings, StoreSteps, Formattings, Sendings DEF StageOf
<1>3. CASE UNCHANGED vars
  <2>1. Types'
    BY <1>3 DEF IInv, Types, vars, local, outside, store
  <2>2. ASSUME NEW r \in Requests PROVE ReqInv(r)'
    BY <1>3, Untouched DEF IInv, vars, local, outside, store
  <2>3. ASSUME NEW k \in Keys PROVE SlotInv(k)'
    BY <1>3 DEF IInv, SlotInv, Ran, vars, store
  <2>4. QED
    BY <2>1, <2>2, <2>3 DEF IInv
<1>4. QED
  BY <1>1, <1>2, <1>3 DEF Next, Done

\* The invariant holds in every reachable state.
LEMMA Invariance == Spec => []IInv
<1>1. Init => IInv
  BY Starts
<1>2. IInv /\ [Next]_vars => IInv'
  BY Steps
<1>3. QED
  BY <1>1, <1>2, PTL DEF Spec

\* A request that has got past the validation satisfies its route.
LEMMA PastValidation ==
    ASSUME IInv, NEW r \in Requests, at[r] >= 10
    PROVE  Entitlement(ask[r])
<1>1. Passed(r) /\ at[r] \in 1..12
  BY DEF IInv, ReqInv, Types
<1>2. QED
  BY <1>1 DEF Passed, HasRole, Credentials, Entitlement

\* A handler runs, a key is claimed and a stored response is shown only for a
\* request that satisfies every decorator of its route: no order of requests
\* and no expiry lets the store be reached around a guard or the validation.
THEOREM EntitledOnly == Spec => []Entitled
<1>1. IInv => Entitled
  <2> SUFFICES ASSUME IInv, NEW r \in Requests,
                      produced[r] # Pending \/ served[r] # NoRequest
                         \/ \E k \in Keys : slot[k].by = r
               PROVE  Entitlement(ask[r])
    BY DEF Entitled
  <2>1. CASE Ran(r) \/ served[r] # NoRequest
    <3>1. at[r] >= 10
      BY <2>1 DEF IInv, ReqInv, Outcome, WasReplayed
    <3>2. QED
      BY <3>1, PastValidation
  <2>2. CASE \E k \in Keys : slot[k].by = r
    <3>1. at[r] >= 10
      BY <2>2, PipelineAssumption DEF IInv, SlotInv
    <3>2. QED
      BY <3>1, PastValidation
  <2>3. QED
    BY <2>1, <2>2 DEF Ran
<1>2. QED
  BY <1>1, Invariance, PTL

\* The answer of a request is made once, of its result.
LEMMA Sent ==
    ASSUME IInv, NEW r \in Requests, Answered(r)
    PROVE  /\ going[r] = "sent" /\ at[r] \in 1..10
           /\ Head(answer[r]) = Response(r, result[r])
           /\ counted[r] = IF timed[r] THEN <<Response(r, result[r]).status>> ELSE <<>>
<1>1. Answers(r) /\ Outcome(r) /\ at[r] \in 1..12
  BY DEF IInv, ReqInv, Types
<1>2. going[r] = "sent" /\ answer[r] = <<Response(r, result[r])>>
  BY <1>1 DEF Answers, Answered
<1>3. \A x : Head(<<x>>) = x
  OBVIOUS
<1>4. QED
  BY <1>1, <1>2, <1>3 DEF Answers, Outcome

\* The fields of an answer.
LEMMA Fields ==
    ASSUME NEW r, NEW v
    PROVE  LET a == Response(r, v) IN
           /\ a.status = IF v.is = "error" THEN StatusOf(v.error) ELSE ask[r].route.status
           /\ a.form = IF v.is = "error" THEN "envelope" ELSE v.form
           /\ a.meta = IF v.is = "error" THEN id[r] ELSE v.meta
           /\ a.by = v.by /\ a.success = v.success /\ a.notice = notice[r]
BY DEF Response

\* A success stays a success of its handler through the formatting, and is
\* wrapped with the correlation id of the request that takes it out.
LEMMA SuccessOut ==
    ASSUME NEW r \in Requests, NEW o \in Requests, NEW v, IsEnding(o, v), ~Failed(v),
           Carries(r, v), at[r] = 10, id[r] = r
    PROVE  /\ result[r].is = "value" /\ result[r].by = o
           /\ result[r].form = "envelope" /\ ~Raw(ask[r]) => result[r].meta = r
<1>1. PICK form \in {"plain", "ok", "envelope", "stream"}, success \in BOOLEAN :
           v = Value(form, success, NoRequest, o, NoError)
  BY HandlersEnd
<1>2. /\ v.is = "value" /\ v.form = form /\ v.by = o /\ v.meta = NoRequest
      /\ [v EXCEPT !.meta = r].is = "value" /\ [v EXCEPT !.meta = r].by = o
      /\ [v EXCEPT !.meta = r].meta = r
  BY <1>1, Values
<1>3. CASE Raw(ask[r]) \/ form = "stream"
  <2>1. result[r] = v
    BY <1>2, <1>3 DEF Carries, Formatted
  <2>2. QED
    BY <1>2, <1>3, <2>1
<1>4. CASE ~Raw(ask[r]) /\ form = "envelope"
  <2>1. result[r] = [v EXCEPT !.meta = r]
    <3>1. Formatted(r, v) = [v EXCEPT !.meta = IF @ = NoRequest THEN id[r] ELSE @]
      BY <1>2, <1>4 DEF Formatted
    <3>2. QED
      BY <1>2, <1>4, <3>1 DEF Carries
  <2>2. QED
    BY <1>2, <2>1
<1>5. CASE ~Raw(ask[r]) /\ form \in {"plain", "ok"}
  <2>1. PICK w : w = Value("envelope", TRUE, r, o, NoError)
    OBVIOUS
  <2>2. result[r] = w
    BY <1>2, <1>5, <2>1 DEF Carries, Formatted
  <2>3. w.is = "value" /\ w.meta = r /\ w.by = o
    BY <2>1 DEF Value
  <2>4. QED
    BY <2>2, <2>3
<1>6. QED
  BY <1>3, <1>4, <1>5

\* A replay gives the payload of the one execution of its key, a success, with
\* the status of its route and its own correlation id.
THEOREM FreshReplays == Spec => []ReplayIsFresh
<1>1. IInv => ReplayIsFresh
  <2> SUFFICES ASSUME IInv, NEW r \in Requests, Answered(r), WasReplayed(r)
               PROVE  LET a == Head(answer[r]) IN
                      /\ a.by = served[r] /\ ~Failed(produced[served[r]])
                      /\ a.status = ask[r].route.status
                      /\ a.form = "envelope" /\ ~Raw(ask[r]) => a.meta = r
    BY DEF ReplayIsFresh, WasReplayed
  <2> DEFINE o == served[r]
  <2>1. at[r] \in 1..10 /\ Head(answer[r]) = Response(r, result[r])
    BY Sent
  <2>2. Outcome(r) /\ Passed(r) /\ o \in Requests
    BY DEF IInv, ReqInv, Types, WasReplayed
  <2>3. /\ at[r] = 10 /\ id[r] = r /\ Ran(o) /\ ~Failed(produced[o])
        /\ Carries(r, produced[o])
    BY <2>1, <2>2 DEF Outcome, Passed
  <2>4. IsEnding(o, produced[o])
    BY <2>2, <2>3 DEF IInv, ReqInv, Outcome
  <2>5. /\ result[r].is = "value" /\ result[r].by = o
        /\ result[r].form = "envelope" /\ ~Raw(ask[r]) => result[r].meta = r
    BY <2>2, <2>3, <2>4, SuccessOut
  <2>6. QED
    BY <2>1, <2>3, <2>5, Fields
<1>2. QED
  BY <1>1, Invariance, PTL

\* A failure goes out as an error unless the raw value is asked for.
LEMMA FailureOut ==
    ASSUME NEW r \in Requests, NEW v, IsEnding(r, v), Failed(v), Carries(r, v),
           at[r] = 10, ~Raw(ask[r])
    PROVE  /\ result[r].is = "error" /\ result[r].success = FALSE
           /\ \/ result[r].error \in HandlerErrors
              \/ result[r].error \in {Problem("not_found"), HttpError(422)}
<1>1. result[r] = Formatted(r, v)
  BY DEF Carries
<1>2. CASE v.is = "error"
  <2>1. v.form = "none" /\ v.success = FALSE
        /\ v.error \in HandlerErrors \cup {Problem("not_found")}
    BY <1>2, HandlersEnd, Values
  <2>2. result[r] = v
    BY <1>1, <1>2, <2>1 DEF Formatted
  <2>3. QED
    BY <1>2, <2>1, <2>2
<1>3. CASE v.is # "error"
  <2>1. v.form = "err" /\ v.error \in HandlerErrors
    BY <1>3, HandlersEnd
  <2>2. PICK e \in HandlerErrors \cup {HttpError(422)} : result[r] = Failure(e)
    BY <1>1, <1>3, <2>1 DEF Formatted
  <2>3. /\ Failure(e).is = "error" /\ Failure(e).error = e
        /\ Failure(e).success = FALSE
    BY Errors
  <2>4. QED
    BY <2>2, <2>3
<1>4. QED
  BY <1>2, <1>3

\* The statuses that errors of handlers and of the store carry are at least 400.
ErrorsAreErrors ==
    \A e \in HandlerErrors \cup StoreErrors :
        e.class \in {"http", "exposed"} => e.status \in Nat /\ e.status >= 400

\* Then every such error is answered with one.
LEMMA ErrorStatuses ==
    ASSUME ErrorsAreErrors, NEW e \in HandlerErrors \cup StoreErrors
    PROVE  StatusOf(e) >= 400
BY StatusOfError DEF StatusOf, ErrorsAreErrors

\* What a call of the store has rejected with goes out as an error.
LEMMA StoreFailureOut ==
    ASSUME NEW r \in Requests, StoreFailed(r)
    PROVE  /\ result[r].is = "error" /\ result[r].success = FALSE
           /\ result[r].error \in StoreErrors
<1>1. PICK e \in StoreErrors : result[r] = Failure(e)
  BY DEF StoreFailed
<1>2. Failure(e).is = "error" /\ Failure(e).success = FALSE /\ Failure(e).error = e
  BY Errors
<1>3. QED
  BY <1>1, <1>2

\* A handler that failed is answered with an error.  One that did not is
\* answered with the status of its route, with its response in the store if the
\* route asks for that, or else a call of the store rejected and it is answered
\* with an error.  All of it whatever handlers end with and whichever calls
\* reject, if no error they end with carries a status of success.
THEOREM FailuresAreTold ==
    ASSUME ErrorsAreErrors
    PROVE  Spec => []ToldAsItWent
<1>1. IInv => ToldAsItWent
  <2> SUFFICES ASSUME IInv, NEW r \in Requests, Answered(r), Ran(r),
                      ~Raw(ask[r])
               PROVE  LET a == Head(answer[r])
                          asError == a.status >= 400 /\ ~a.success
                      IN  IF Failed(produced[r]) THEN asError
                          ELSE IF StoreFailed(r)
                               THEN asError /\ Keyed(r) /\ served[r] = NoRequest
                          ELSE /\ a.status = ask[r].route.status
                               /\ Keyed(r) => served[r] = r
    BY DEF ToldAsItWent, Ran
  <2>1. at[r] \in 1..10 /\ Head(answer[r]) = Response(r, result[r])
    BY Sent
  <2>2. Outcome(r) /\ Passed(r)
    BY DEF IInv, ReqInv
  <2>3. at[r] = 10 /\ id[r] = r /\ IsEnding(r, produced[r]) /\ Told(r)
    BY <2>1, <2>2 DEF Outcome, Passed
  <2>4. ASSUME StoreFailed(r)
        PROVE  Head(answer[r]).status >= 400 /\ ~Head(answer[r]).success
    <3>1. result[r].is = "error" /\ result[r].success = FALSE
          /\ StatusOf(result[r].error) >= 400
      BY <2>4, StoreFailureOut, ErrorStatuses
    <3>2. QED
      BY <2>1, <3>1, Fields
  <2>5. CASE Failed(produced[r]) /\ ~StoreFailed(r)
    <3>1. Carries(r, produced[r])
      BY <2>3, <2>5 DEF Told
    <3>2. /\ result[r].is = "error" /\ result[r].success = FALSE
          /\ \/ result[r].error \in HandlerErrors
             \/ result[r].error \in {Problem("not_found"), HttpError(422)}
      BY <2>3, <2>5, <3>1, FailureOut
    <3>3. StatusOf(result[r].error) >= 400
      <4>1. StatusOf(Problem("not_found")) >= 400
        BY StatusOfError DEF Problem
      <4>2. StatusOf(HttpError(422)) >= 400
        BY DEF StatusOf, HttpError
      <4>3. QED
        BY <3>2, <4>1, <4>2, ErrorStatuses
    <3>4. QED
      BY <2>1, <2>5, <3>2, <3>3, Fields
  <2>6. CASE ~Failed(produced[r])
    <3>1. ASSUME Carries(r, produced[r])
          PROVE  result[r].is = "value" /\ ~StoreFailed(r)
      BY <2>3, <2>6, <3>1, SuccessOut, StoreFailureOut
    <3>2. CASE StoreFailed(r)
      BY <2>3, <2>4, <2>6, <3>1, <3>2 DEF Told
    <3>3. CASE ~StoreFailed(r)
      <4>1. /\ Carries(r, produced[r])
            /\ Keyed(r) => served[r] = r
        BY <2>3, <2>6, <3>3 DEF Told
      <4>2. Head(answer[r]).status = ask[r].route.status
        BY <2>1, <3>1, <4>1, Fields
      <4>3. QED
        BY <2>6, <3>3, <4>1, <4>2
    <3>4. QED
      BY <3>2, <3>3
  <2>7. QED
    BY <2>4, <2>5, <2>6
<1>2. QED
  BY <1>1, Invariance, PTL

\* "A failed Result or an exception never leaves with a status of success" has
\* the one exception of departure 17, a failed Result that goes out raw: an
\* exception does not, on whatever route, with whatever header and whatever
\* the handler's error carries.
THEOREM OnlyRawResultsPass ==
    ASSUME ErrorsAreErrors
    PROVE  Spec => [](\A r \in Requests :
                        Answered(r) /\ Failed(produced[r])
                            /\ ~(Raw(ask[r]) /\ produced[r].form = "err")
                        => Head(answer[r]).status >= 400)
<1>1. ASSUME IInv, ToldAsItWent, NEW r \in Requests, Answered(r), Failed(produced[r]),
             ~(Raw(ask[r]) /\ produced[r].form = "err")
      PROVE  Head(answer[r]).status >= 400
  <2>1. Ran(r)
    <3>1. Pending.is = "pending" /\ Pending.form = "none"
      BY DEF Pending
    <3>2. QED
      BY <1>1, <3>1 DEF Failed, Ran
  <2>2. CASE ~Raw(ask[r])
    BY <1>1, <2>1, <2>2 DEF ToldAsItWent, Ran
  <2>3. CASE Raw(ask[r])
    <3>1. at[r] \in 1..10 /\ Head(answer[r]) = Response(r, result[r])
      BY <1>1, Sent
    <3>2. at[r] = 10 /\ IsEnding(r, produced[r]) /\ (Carries(r, produced[r]) \/ StoreFailed(r))
      BY <1>1, <2>1, <3>1 DEF IInv, ReqInv, Outcome, Passed, Told
    <3>3. result[r].is = "error"
          /\ result[r].error \in HandlerErrors \cup StoreErrors \cup {Problem("not_found")}
      <4>1. CASE StoreFailed(r)
        BY <4>1, StoreFailureOut
      <4>2. CASE Carries(r, produced[r])
        <5>1. result[r] = produced[r] /\ produced[r].is = "error"
          BY <1>1, <2>3, <4>2 DEF Carries, Failed
        <5>2. QED
          BY <1>1, <3>2, <5>1, HandlersEnd
      <4>3. QED
        BY <3>2, <4>1, <4>2
    <3>4. StatusOf(result[r].error) >= 400
      <4>1. StatusOf(Problem("not_found")) >= 400
        BY StatusOfError DEF Problem
      <4>2. QED
        BY <3>3, <4>1, ErrorStatuses
    <3>5. QED
      BY <3>1, <3>3, <3>4, Fields
  <2>4. QED
    BY <2>2, <2>3
<1>2. IInv /\ ToldAsItWent =>
        (\A r \in Requests :
            Answered(r) /\ Failed(produced[r]) /\ ~(Raw(ask[r]) /\ produced[r].form = "err")
            => Head(answer[r]).status >= 400)
  BY <1>1
<1>3. Spec => []ToldAsItWent
  BY FailuresAreTold
<1>4. QED
  BY <1>2, <1>3, Invariance, PTL

\* A route with its schema lifted is the same route otherwise.
LEMMA Lifted ==
    ASSUME Types, NEW r \in Requests, NEW b, b = [ask[r] EXCEPT !.route.schema = FALSE]
    PROVE  /\ b.body = ask[r].body /\ b.cookie = ask[r].cookie
           /\ b.bearer = ask[r].bearer /\ b.site = ask[r].site
           /\ b.route.schema = FALSE /\ b.route.public = ask[r].route.public
           /\ b.route.changes = ask[r].route.changes /\ b.route.roles = ask[r].route.roles
<1>1. /\ DOMAIN ask[r] = AskFields
      /\ DOMAIN ask[r].route = RouteFlags \cup {"name", "roles", "status"}
  BY AskAssumption DEF Types
<1>2. b.route = [ask[r].route EXCEPT !.schema = FALSE]
  BY <1>1 DEF AskFields
<1>3. QED
  BY <1>1, <1>2 DEF AskFields, RouteFlags

\* What "admitted" asks of a request, without the notation.
LetIn(r) ==
    LET a == ask[r] IN
    /\ a.body # "malformed" /\ ~Suspicious(a)
    /\ ~a.route.public => Credentials(a)
    /\ a.route.roles # {} => ~a.route.public /\ a.route.roles \cap Token(a).roles # {}

\* Who is let in by its decorators and not stopped by the limit is admitted.
LEMMA AdmittedIs ==
    ASSUME Types, NEW r \in Requests
    PROVE  Admitted(r) <=> LetIn(r) /\ Head(answer[r]).status # 429
<1>1. PICK b : b = [ask[r] EXCEPT !.route.schema = FALSE]
  OBVIOUS
<1>2. /\ b.body = ask[r].body /\ Token(b) = Token(ask[r]) /\ ~Invalid(b)
      /\ Suspicious(b) <=> Suspicious(ask[r])
      /\ b.route.public = ask[r].route.public /\ b.route.roles = ask[r].route.roles
  <2>1. /\ b.body = ask[r].body /\ b.cookie = ask[r].cookie
        /\ b.bearer = ask[r].bearer /\ b.site = ask[r].site
        /\ b.route.schema = FALSE /\ b.route.public = ask[r].route.public
        /\ b.route.changes = ask[r].route.changes /\ b.route.roles = ask[r].route.roles
    BY <1>1, Lifted
  <2>2. Token(b) = Token(ask[r])
    BY <2>1 DEF Token
  <2>3. ~Invalid(b)
    BY <2>1 DEF Invalid
  <2>4. Suspicious(b) <=> Suspicious(ask[r])
    BY <2>1 DEF Suspicious
  <2>5. QED
    BY <2>1, <2>2, <2>3, <2>4
<1>3. Entitlement(b) <=> LetIn(r)
  BY <1>2 DEF Entitlement, LetIn, Credentials
<1>4. QED
  BY <1>1, <1>3 DEF Admitted, LetIn

\* Who has got past the guards satisfies the decorators they look at.
LEMMA PastGuards ==
    ASSUME IInv, NEW r \in Requests, at[r] >= 7
    PROVE  LetIn(r)
<1>1. Passed(r) /\ at[r] \in 1..12
  BY DEF IInv, ReqInv, Types
<1>2. QED
  BY <1>1 DEF Passed, HasRole, Credentials, LetIn

\* Who is turned back by a guard does not, or has met the rate limit.
LEMMA TurnedBack ==
    ASSUME IInv, NEW r \in Requests, at[r] <= 6, Grounds(r, result[r]), LetIn(r)
    PROVE  result[r] = Failure(HttpError(429))
<1>1. Passed(r) /\ at[r] \in 1..12
  BY DEF IInv, ReqInv, Types
<1>2. QED
  BY <1>1 DEF Passed, HasRole, Credentials, LetIn, Grounds

\* 429 is the rate limit's own.
OnlyTheLimit ==
    /\ \A e \in HandlerErrors \cup StoreErrors :
          e.class \in {"http", "exposed"} => e.status # 429
    /\ \A a \in AllAsks : a.route.status # 429

\* A failure goes out with the status of its error.
LEMMA FailureStatus ==
    ASSUME NEW r \in Requests, NEW e, result[r] = Failure(e)
    PROVE  Response(r, result[r]).status = StatusOf(e)
<1>1. PICK v : v = Failure(e)
  OBVIOUS
<1>2. v.is = "error" /\ v.error = e
  BY <1>1, Errors
<1>3. Response(r, v).status = StatusOf(v.error)
  BY <1>2, Fields
<1>4. QED
  BY <1>1, <1>2, <1>3

\* Of those who have got past the guards, none is answered with it.
LEMMA NotLimited ==
    ASSUME OnlyTheLimit, IInv, NEW r \in Requests, Answered(r), at[r] >= 7
    PROVE  Response(r, result[r]).status # 429
<1>1. at[r] \in 1..10 /\ going[r] = "sent" /\ Outcome(r) /\ Passed(r)
  BY Sent DEF IInv, ReqInv
<1>2. ask[r].route.status # 429
  BY DEF OnlyTheLimit, IInv, Types
<1>3. \A e \in HandlerErrors \cup StoreErrors \cup {Problem("not_found")} : StatusOf(e) # 429
  <2>1. \A e \in HandlerErrors \cup StoreErrors : StatusOf(e) # 429
    BY StatusOfError DEF StatusOf, OnlyTheLimit
  <2>2. StatusOf(Problem("not_found")) # 429
    BY StatusOfError DEF Problem
  <2>3. QED
    BY <2>1, <2>2
<1>4. CASE result[r].is # "error"
  BY <1>2, <1>4, Fields
<1>5. CASE result[r].is = "error" /\ ~StoreFailed(r) /\ (Ran(r) \/ WasReplayed(r))
  <2>1. PICK o \in Requests : /\ IsEnding(o, produced[o]) /\ Carries(r, produced[o])
                              /\ o = r \/ ~Failed(produced[o])
    BY <1>1, <1>5 DEF IInv, ReqInv, Outcome, Told, WasReplayed, Types
  <2>2. at[r] = 10 /\ id[r] = r
    BY <1>1, <1>5 DEF Outcome, Passed
  <2>3. Failed(produced[o]) /\ o = r
    BY <1>5, <2>1, <2>2, SuccessOut
  <2>4. CASE Raw(ask[r])
    <3>1. result[r] = produced[r]
      BY <2>1, <2>2, <2>3, <2>4 DEF Carries
    <3>2. result[r].error \in HandlerErrors \cup {Problem("not_found")}
      BY <1>5, <2>1, <2>3, <3>1, HandlersEnd
    <3>3. QED
      BY <1>3, <1>5, <3>2, Fields
  <2>5. CASE ~Raw(ask[r])
    <3>1. result[r].error \in HandlerErrors \cup {Problem("not_found"), HttpError(422)}
      BY <2>1, <2>2, <2>3, <2>5, FailureOut
    <3>2. StatusOf(HttpError(422)) = 422
      BY DEF StatusOf, HttpError
    <3>3. QED
      BY <1>3, <1>5, <3>1, <3>2, Fields
  <2>6. QED
    BY <2>4, <2>5
<1>6. CASE ~Ran(r) /\ ~WasReplayed(r) /\ ~StoreFailed(r)
  <2>1. Grounds(r, result[r])
    BY <1>1, <1>6 DEF Outcome
  <2>2. CASE result[r] = Failure(HttpError(400))
    <3>1. StatusOf(HttpError(400)) = 400
      BY DEF StatusOf, HttpError
    <3>2. QED
      BY <2>2, <3>1, FailureStatus
  <2>3. CASE \E kind \in {"bad_request", "validation", "conflict"} :
                result[r] = Failure(Problem(kind))
    <3>1. PICK kind \in {"bad_request", "validation", "conflict"} :
               result[r] = Failure(Problem(kind))
      BY <2>3
    <3>2. StatusOf(Problem(kind)) # 429
      BY StatusOfError DEF Problem
    <3>3. QED
      BY <3>1, <3>2, FailureStatus
  <2>4. QED
    BY <1>1, <1>6, <2>1, <2>2, <2>3 DEF Grounds, StoreFailed
<1>7. CASE StoreFailed(r)
  <2>1. result[r].is = "error" /\ StatusOf(result[r].error) # 429
    BY <1>3, <1>7, StoreFailureOut
  <2>2. QED
    BY <2>1, Fields
<1>8. QED
  BY <1>4, <1>5, <1>6, <1>7

\* Whatever becomes of a request that the guards let through, it is counted
\* once, with the status that was sent, and carries the notice of a deprecated
\* route; one that the guards refuse is neither, if nothing but the rate limit
\* answers 429.
THEOREM CountedAndNoticed ==
    ASSUME OnlyTheLimit
    PROVE  Spec => []NoticedAndCounted
<1>1. IInv => NoticedAndCounted
  <2> SUFFICES ASSUME IInv, NEW r \in Requests, Answered(r)
               PROVE  LET a == Head(answer[r]) IN
                      /\ a.notice = (Admitted(r) /\ ask[r].route.deprecated)
                      /\ counted[r] = IF Admitted(r) THEN <<a.status>> ELSE <<>>
    BY DEF NoticedAndCounted
  <2> DEFINE sent == Response(r, result[r])
  <2>1. /\ at[r] \in 1..10 /\ going[r] = "sent" /\ Head(answer[r]) = sent
        /\ counted[r] = IF timed[r] THEN <<sent.status>> ELSE <<>>
    BY Sent
  <2>2. Outcome(r) /\ Passed(r) /\ Types
    BY DEF IInv, ReqInv
  <2>3. Ran(r) \/ WasReplayed(r) \/ Grounds(r, result[r])
    BY <2>1, <2>2 DEF Outcome
  <2>4. at[r] <= 6 \/ at[r] >= 9
    BY <2>1, <2>2, <2>3 DEF Outcome, Grounds
  <2>5. CASE at[r] >= 9
    <3>1. LetIn(r) /\ sent.status # 429
      BY <2>5, <2>1, PastGuards, NotLimited
    <3>2. Admitted(r)
      BY <2>1, <2>2, <3>1, AdmittedIs
    <3>3. timed[r] /\ (notice[r] <=> ask[r].route.deprecated)
      BY <2>1, <2>2, <2>5 DEF Passed
    <3>4. notice[r] \in BOOLEAN /\ ask[r].route.deprecated \in BOOLEAN
      BY <2>2, AskAssumption DEF Types, RouteFlags
    <3>5. sent.notice = ask[r].route.deprecated
      BY <3>3, <3>4, Fields
    <3> HIDE DEF sent
    <3>6. QED
      BY <2>1, <3>2, <3>3, <3>4, <3>5
  <2>6. CASE at[r] <= 6
    <3>1. Grounds(r, result[r]) /\ ~timed[r] /\ ~notice[r]
      BY <2>1, <2>2, <2>3, <2>6 DEF Outcome, Passed
    <3>2. ~Admitted(r)
      <4> SUFFICES ASSUME LetIn(r) PROVE sent.status = 429
        BY <2>1, <2>2, AdmittedIs
      <4>1. result[r] = Failure(HttpError(429))
        BY <2>6, <3>1, TurnedBack
      <4>2. StatusOf(HttpError(429)) = 429
        BY DEF StatusOf, HttpError
      <4>3. QED
        BY <4>1, <4>2, FailureStatus
    <3>3. sent.notice = FALSE
      <4>1. notice[r] = FALSE
        BY <2>2, <3>1 DEF Types
      <4>2. QED
        BY <4>1, Fields
    <3> HIDE DEF sent
    <3>4. QED
      BY <2>1, <3>1, <3>2, <3>3
  <2>7. QED
    BY <2>1, <2>4, <2>5, <2>6
<1>2. QED
  BY <1>1, Invariance, PTL

\* The errors of handlers and of the store carry statuses the application knows.
KnownErrors ==
    \A e \in HandlerErrors \cup StoreErrors :
        e.class \in {"http", "exposed"} => e.status \in Statuses

\* What is sent carries one of them, whatever has ended the request.
LEMMA KnownStatus ==
    ASSUME KnownErrors, IInv, NEW r \in Requests, Answered(r)
    PROVE  Response(r, result[r]).status \in Statuses
<1>1. at[r] \in 1..10 /\ going[r] = "sent" /\ Outcome(r) /\ Passed(r)
  BY Sent DEF IInv, ReqInv
<1>2. ask[r].route.status \in Statuses
  BY DEF Statuses, IInv, Types
<1>3. \A e \in HandlerErrors \cup StoreErrors \cup {Problem("not_found")} : StatusOf(e) \in Statuses
  <2>1. \A e : Presented(e) \in Statuses
    BY StatusOfError DEF Statuses
  <2>2. \A e \in HandlerErrors \cup StoreErrors : StatusOf(e) \in Statuses
    BY <2>1 DEF StatusOf, KnownErrors
  <2>3. StatusOf(Problem("not_found")) \in Statuses
    BY <2>1, StatusOfError DEF Problem
  <2>4. QED
    BY <2>2, <2>3
<1>4. CASE result[r].is # "error"
  BY <1>2, <1>4, Fields
<1>5. CASE result[r].is = "error" /\ ~StoreFailed(r) /\ (Ran(r) \/ WasReplayed(r))
  <2>1. PICK o \in Requests : /\ IsEnding(o, produced[o]) /\ Carries(r, produced[o])
                              /\ o = r \/ ~Failed(produced[o])
    BY <1>1, <1>5 DEF IInv, ReqInv, Outcome, Told, WasReplayed, Types
  <2>2. at[r] = 10 /\ id[r] = r
    BY <1>1, <1>5 DEF Outcome, Passed
  <2>3. Failed(produced[o]) /\ o = r
    BY <1>5, <2>1, <2>2, SuccessOut
  <2>4. CASE Raw(ask[r])
    <3>1. result[r] = produced[r]
      BY <2>1, <2>2, <2>3, <2>4 DEF Carries
    <3>2. result[r].error \in HandlerErrors \cup {Problem("not_found")}
      BY <1>5, <2>1, <2>3, <3>1, HandlersEnd
    <3>3. QED
      BY <1>3, <1>5, <3>2, Fields
  <2>5. CASE ~Raw(ask[r])
    <3>1. result[r].error \in HandlerErrors \cup {Problem("not_found"), HttpError(422)}
      BY <2>1, <2>2, <2>3, <2>5, FailureOut
    <3>2. StatusOf(HttpError(422)) \in Statuses
      BY DEF StatusOf, HttpError, Statuses
    <3>3. QED
      BY <1>3, <1>5, <3>1, <3>2, Fields
  <2>6. QED
    BY <2>4, <2>5
<1>6. CASE ~Ran(r) /\ ~WasReplayed(r) /\ ~StoreFailed(r)
  <2>1. PICK e : result[r] = Failure(e) /\ StatusOf(e) \in Refusals
    BY <1>1, <1>6 DEF Outcome, IsRefusal
  <2>2. QED
    BY <2>1, FailureStatus DEF Refusals, Statuses
<1>7. CASE StoreFailed(r)
  <2>1. result[r].is = "error" /\ StatusOf(result[r].error) \in Statuses
    BY <1>3, <1>7, StoreFailureOut
  <2>2. QED
    BY <2>1, Fields
<1>8. QED
  BY <1>4, <1>5, <1>6, <1>7

\* Positions stay on the path, statuses are known ones and slots name requests.
THEOREM TypeCorrect ==
    ASSUME KnownErrors
    PROVE  Spec => []TypeOK
<1>1. IInv => TypeOK
  <2> SUFFICES ASSUME IInv PROVE TypeOK
    OBVIOUS
  <2>1. ASSUME NEW r \in Requests
        PROVE  /\ at[r] \in DOMAIN Path /\ going[r] \in {"in", "out", "sent"}
               /\ id[r] \in {r, NoRequest}
               /\ (going[r] = "sent") <=> (answer[r] # <<>>)
    <3>1. \A x : <<x>> # <<>>
      OBVIOUS
    <3>2. (going[r] = "sent") <=> (answer[r] # <<>>)
      BY <3>1 DEF IInv, ReqInv, Answers
    <3>3. QED
      BY <3>2, Stages DEF IInv, Types, ReqInv, Passed
  <2>2. ASSUME NEW r \in Requests
        PROVE  /\ \A i \in DOMAIN answer[r] : answer[r][i].status \in Statuses
               /\ Range(counted[r]) \subseteq Statuses
    <3>1. CASE ~Answered(r)
      <4>1. answer[r] = <<>> /\ counted[r] = <<>>
        <5>1. \A x : <<x>> # <<>>
          OBVIOUS
        <5>2. QED
          BY <3>1, <5>1 DEF IInv, ReqInv, Answers, Answered
      <4>2. QED
        BY <4>1 DEF Range
    <3>2. CASE Answered(r)
      <4>1. PICK sent : sent = Response(r, result[r]) /\ sent.status \in Statuses
        BY <3>2, KnownStatus
      <4>2. answer[r] = <<sent>> /\ counted[r] \in {<<>>, <<sent.status>>}
        BY <3>2, <4>1 DEF IInv, ReqInv, Answers, Answered
      <4>3. QED
        BY <4>1, <4>2 DEF Range
    <3>3. QED
      BY <3>1, <3>2
  <2>3. ASSUME NEW k \in Keys PROVE slot[k].by \in Requests \cup {NoRequest}
    BY DEF IInv, SlotInv
  <2>4. QED
    BY <2>1, <2>2, <2>3 DEF TypeOK
<1>2. QED
  BY <1>1, Invariance, PTL
=============================================================================
