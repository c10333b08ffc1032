-------------------------- MODULE RequestPipeline --------------------------
(***************************************************************************)
(* One HTTP request through the application, from the body parser to the   *)
(* answer, next to others that share its idempotency key.                  *)
(*                                                                         *)
(*   InterfaceModule         src/interface/interface.module.ts             *)
(*   guards, interceptors, RequestContextMiddleware, GlobalExceptionFilter,*)
(*   ErrorPresenter          src/interface/http/                           *)
(*                                                                         *)
(* Path lists the stages in the order of their registration.  A request    *)
(* goes in from stage to stage; a result (a value or an error) goes out    *)
(* through the interceptors it has entered, innermost first, and leaves as *)
(* one answer.  The idempotency store is what its contract promises:       *)
(* IdempotencyStore is shown to implement IdempotencyContract, and so is   *)
(* OracleIdempotency, whose calls may also reject.                         *)
(***************************************************************************)
EXTENDS Naturals, Sequences, FiniteSets, SequencesExt

CONSTANTS
    Requests,       \* request identities; also their correlation ids
    Keys,           \* well-formed values of the Idempotency-Key header
    Bodies,         \* bodies that parse and satisfy the schema
    Asks,           \* Asks[r]: what r may carry and where it may go
    HandlerErrors,  \* errors a handler may throw or return in a Result
    StoreErrors,    \* what a call of the store may reject with; none in memory
    Limited,        \* may the rate limit be reached?
    NoRequest,      \* "no request"
    NoFingerprint,  \* fingerprint of a free slot
    NoKey,          \* a missing or malformed Idempotency-Key
    NoToken         \* no cookie, no Authorization header

ASSUME PipelineAssumption ==
    /\ NoRequest \notin Requests /\ NoKey \notin Keys /\ Limited \in BOOLEAN

\* What a request carries, and what the decorators of a route may say.
AskFields == {"route", "cookie", "bearer", "site", "body", "key", "skip"}
RouteFlags == {"public", "changes", "deprecated", "schema", "raw", "idempotent",
               "found", "unlimited"}
ASSUME AskAssumption ==
    \A r \in Requests : \A a \in Asks[r] :
        /\ DOMAIN a = AskFields /\ a.skip \in BOOLEAN /\ a.key \in Keys \cup {NoKey}
        /\ DOMAIN a.route = RouteFlags \cup {"name", "roles", "status"}
        /\ \A flag \in RouteFlags : a.route[flag] \in BOOLEAN

VARIABLES
    ask,        \* ask[r]: route, cookie, bearer, site, body, key, skip
    at,         \* at[r]: index into Path
    going,      \* going[r]: "in", "out" or "sent"
    result,     \* result[r]: what goes out
    id,         \* id[r]: req.id, NoRequest until it is set
    user,       \* user[r]: req.user
    notice,     \* notice[r]: Deprecation and Sunset are on the response
    timed,      \* timed[r]: the metrics listener is on the response
    answer,     \* answer[r]: what the client received
    counted,    \* counted[r]: statuses recorded by the metrics for r
    produced,   \* produced[r]: what the handler of r ended with
    slot,       \* slot[k]: who owns or filled the key
    served,     \* served[r]: whose response the store gave r
    kept        \* kept[k]: the payload stored under the key

local == <<id, user, notice, timed>>
store == <<slot, served, kept>>
outside == <<answer, counted>>
vars == <<ask, at, going, result, local, outside, produced, store>>

AllAsks == UNION {Asks[r] : r \in Requests}
Fingerprint(r) == <<ask[r].route.name, ask[r].body>>
Contract == INSTANCE IdempotencyContract
                WITH Fingerprints <- {<<a.route.name, a.body>> : a \in AllAsks}

Middleware == <<"parse", "context">>
Guards == <<"throttle", "csrf", "jwt", "roles">>
MutInterceptorsClaimFirst ==      \* the claim before the validation
    <<"metrics", "deprecation", "idempotency", "zod", "format">>
MutInterceptorsStoreFormatted ==  \* the envelope is stored, not the payload
    <<"metrics", "deprecation", "zod", "idempotency", "format">>
MutInterceptorsNoticeLate ==      \* the notice after the validation
    <<"metrics", "zod", "deprecation", "format", "idempotency">>
Interceptors == <<"metrics", "deprecation", "zod", "format", "idempotency">>
Path == Middleware \o Guards \o Interceptors \o <<"handler">>

-----------------------------------------------------------------------------
(* Results.  An error is what the exception filter can tell apart: an      *)
(* HttpException, an http-errors object, an object whose toProblem() works,*)
(* a DomainError or AppError whose toProblem() does not, anything else.    *)
(* "code" is a Result.err that carries no such object.                     *)

HttpError(status) == [class |-> "http", kind |-> "none", status |-> status]
ClientError(status) == [class |-> "exposed", kind |-> "none", status |-> status]
Problem(kind) == [class |-> "problem", kind |-> kind, status |-> 0]
Bare(class) == [class |-> class, kind |-> "none", status |-> 0]

KindToStatus ==
    [validation |-> 422, not_found |-> 404, conflict |-> 409,
     unauthorized |-> 401, forbidden |-> 403, service_unavailable |-> 503,
     bad_request |-> 400, internal |-> 500, not_implemented |-> 501]

Presented(e) ==
    CASE e.class = "problem" /\ e.kind \in DOMAIN KindToStatus -> KindToStatus[e.kind]
      [] e.class = "domain" -> 422
      [] OTHER -> 500

StatusOf(e) == IF e.class \in {"http", "exposed"} THEN e.status ELSE Presented(e)

NoError == Bare("none")
Pending == [is |-> "pending", form |-> "none", success |-> FALSE, meta |-> NoRequest,
            by |-> NoRequest, error |-> NoError]
Failure(e) == [Pending EXCEPT !.is = "error", !.error = e]
Value(form, success, meta, by, e) ==
    [is |-> "value", form |-> form, success |-> success, meta |-> meta,
     by |-> by, error |-> e]

\* What the handler of r may end with: a plain value, a Result, an envelope
\* of its own, an exception, or a file or stream, which no store can keep.
Forms(r) == {"plain", "ok", "envelope"}
                \cup (IF ask[r].route.idempotent THEN {} ELSE {"stream"})
Endings(r) ==
    {Value(form, TRUE, NoRequest, r, NoError) : form \in Forms(r)}
    \cup {Value("envelope", FALSE, NoRequest, r, NoError)}
    \cup {Value("err", FALSE, NoRequest, r, e) : e \in HandlerErrors}
    \cup {Failure(e) : e \in HandlerErrors}

Init ==
    /\ ask \in [Requests -> AllAsks] /\ \A r \in Requests : ask[r] \in Asks[r]
    /\ at = [r \in Requests |-> 1]
    /\ going = [r \in Requests |-> "in"]
    /\ result = [r \in Requests |-> Pending]
    /\ id = [r \in Requests |-> NoRequest]
    /\ user = [r \in Requests |-> NoToken]
    /\ notice = [r \in Requests |-> FALSE]
    /\ timed = [r \in Requests |-> FALSE]
    /\ answer = [r \in Requests |-> <<>>]
    /\ counted = [r \in Requests |-> <<>>]
    /\ produced = [r \in Requests |-> Pending]
    /\ kept = [k \in Keys |-> Pending]
    /\ Contract!Init

At(r, stage) == going[r] = "in" /\ Path[at[r]] = stage

\* next(), `return true`, next.handle()
Pass(r) ==
    /\ at' = [at EXCEPT ![r] = @ + 1]
    /\ UNCHANGED <<ask, going, result, outside, produced>>

\* The stage of r ends the way in.
TurnBack(r, outcome) ==
    /\ result' = [result EXCEPT ![r] = outcome]
    /\ going' = [going EXCEPT ![r] = "out"]
    /\ UNCHANGED <<ask, at, local, outside>>

Reject(r, e) == TurnBack(r, Failure(e)) /\ UNCHANGED <<produced, store>>

-----------------------------------------------------------------------------
(* Middleware.                                                             *)

Parse(r) ==
    /\ At(r, "parse")
    /\ \/ ask[r].body # "malformed" /\ Pass(r) /\ UNCHANGED <<local, store>>
       \/ ask[r].body = "malformed" /\ Reject(r, ClientError(400))

OpenContext(r) ==
    /\ At(r, "context")
    /\ id' = [id EXCEPT ![r] = r]
    /\ Pass(r)
    /\ UNCHANGED <<user, notice, timed, store>>

(* Guards.                                                                 *)

Throttle(r) ==
    /\ At(r, "throttle")
    /\ \/ Pass(r) /\ UNCHANGED <<local, store>>
       \/ Limited /\ ~ask[r].route.unlimited /\ Reject(r, HttpError(429))

\* A browser sends the cookie on its own, so a change must come from a site
\* that is trusted: the API's own, or one of csrfTrustedOrigins.
Suspicious(a) ==
    /\ a.route.changes
    /\ a.cookie # NoToken
    /\ a.bearer = NoToken
    /\ a.site = "foreign"

Csrf(r) ==
    /\ At(r, "csrf")
    /\ \/ ~Suspicious(ask[r]) /\ Pass(r) /\ UNCHANGED <<local, store>>
       \/ Suspicious(ask[r]) /\ Reject(r, Problem("forbidden"))

\* Cookie first, then "Authorization: Bearer".
Token(a) == IF a.cookie # NoToken THEN a.cookie ELSE a.bearer

Jwt(r) ==
    /\ At(r, "jwt")
    /\ LET token == Token(ask[r])
           valid == token # NoToken /\ token.valid
       IN  \/ ask[r].route.public /\ Pass(r) /\ UNCHANGED <<local, store>>
           \/ /\ ~ask[r].route.public /\ valid
              /\ user' = [user EXCEPT ![r] = token]
              /\ Pass(r)
              /\ UNCHANGED <<id, notice, timed, store>>
           \/ ~ask[r].route.public /\ ~valid /\ Reject(r, HttpError(401))

Roles(r) ==
    /\ At(r, "roles")
    /\ LET required == ask[r].route.roles
       IN  \/ /\ \/ required = {}
                 \/ user[r] # NoToken /\ required \cap user[r].roles # {}
              /\ Pass(r) /\ UNCHANGED <<local, store>>
           \/ /\ required # {} /\ user[r] = NoToken
              /\ Reject(r, Problem("unauthorized"))
           \/ /\ required # {} /\ user[r] # NoToken
              /\ required \cap user[r].roles = {}
              /\ Reject(r, Problem("forbidden"))

-----------------------------------------------------------------------------
(* Interceptors on the way in.                                             *)

Metrics(r) ==
    /\ At(r, "metrics")
    /\ timed' = [timed EXCEPT ![r] = TRUE]
    /\ Pass(r)
    /\ UNCHANGED <<id, user, notice, store>>

Deprecation(r) ==
    /\ At(r, "deprecation")
    /\ notice' = [notice EXCEPT ![r] = ask[r].route.deprecated]
    /\ Pass(r)
    /\ UNCHANGED <<id, user, timed, store>>

Invalid(a) == a.route.schema /\ a.body \notin Bodies

Zod(r) ==
    /\ At(r, "zod")
    /\ \/ ~Invalid(ask[r]) /\ Pass(r) /\ UNCHANGED <<local, store>>
       \/ Invalid(ask[r]) /\ Reject(r, HttpError(400))

EnterFormat(r) == At(r, "format") /\ Pass(r) /\ UNCHANGED <<local, store>>

Undecorated(r) ==
    /\ At(r, "idempotency") /\ ~ask[r].route.idempotent
    /\ Pass(r)
    /\ UNCHANGED <<local, store>>

\* r asks the store: the four outcomes of a claim, a claim that rejects, or no
\* key to claim.
Asking(r) == At(r, "idempotency") /\ ask[r].route.idempotent
Holder(r) == slot[ask[r].key]

\* A call of the store has rejected for r, and r carries its error.
StoreFailed(r) == \E e \in StoreErrors : result[r] = Failure(e)

MissingKey(r) == Asking(r) /\ ask[r].key = NoKey /\ Reject(r, Problem("bad_request"))

Claim(r) ==
    /\ Asking(r) /\ ask[r].key # NoKey
    /\ Contract!Own(r, ask[r].key, Fingerprint(r))
    /\ Pass(r)
    /\ UNCHANGED <<local, kept>>

Mismatch(r) ==
    /\ Asking(r) /\ ask[r].key # NoKey
    /\ Holder(r).state # "free" /\ Holder(r).fingerprint # Fingerprint(r)
    /\ Reject(r, Problem("validation"))

InProgress(r) ==
    /\ Asking(r) /\ ask[r].key # NoKey
    /\ Holder(r) = Contract!Owned(Holder(r).by, Fingerprint(r))
    /\ Reject(r, Problem("conflict"))

Replay(r) ==
    /\ Asking(r) /\ ask[r].key # NoKey
    /\ Contract!Replay(r, ask[r].key, Fingerprint(r))
    /\ TurnBack(r, kept[ask[r].key])
    /\ UNCHANGED <<produced, kept>>

\* The claim may have been granted nevertheless: r is gone then, and its key
\* stays claimed until the claim is stale.
ClaimFails(r) ==
    /\ Asking(r) /\ ask[r].key # NoKey
    /\ \E e \in StoreErrors : TurnBack(r, Failure(e))
    /\ \/ Contract!Own(r, ask[r].key, Fingerprint(r))
       \/ UNCHANGED <<slot, served>>
    /\ UNCHANGED <<produced, kept>>

Handle(r) ==
    /\ At(r, "handler")
    /\ \E ending \in IF ask[r].route.found THEN Endings(r)
                     ELSE {Failure(Problem("not_found"))} :
          /\ produced' = [produced EXCEPT ![r] = ending]
          /\ TurnBack(r, ending)
    /\ UNCHANGED store

-----------------------------------------------------------------------------
(* The way out: through the interceptors that look at results.             *)

Entered(r) == {i \in 1 .. at[r] - 1 : Path[i] \in {"format", "idempotency"}}
Leaving(r, stage) ==
    going[r] = "out" /\ Entered(r) # {} /\ Path[Max(Entered(r))] = stage
Outward(r) ==
    /\ at' = [at EXCEPT ![r] = Max(Entered(r))]
    /\ UNCHANGED <<ask, going, local, outside, produced>>

Failed(outcome) == outcome.is = "error" \/ outcome.form = "err"

\* A result is on its way out to a request that was granted its key.
Keyed(r) == ask[r].route.idempotent /\ ask[r].key # NoKey
Settling(r) == Leaving(r, "idempotency") /\ Keyed(r)

\* complete(): the payload is stored under the key.
Stores(r) ==
    /\ Holder(r) = Contract!Owned(r, Fingerprint(r))
    /\ slot' = [slot EXCEPT ![ask[r].key] = Contract!Stored(r, Fingerprint(r))]
    /\ kept' = [kept EXCEPT ![ask[r].key] = result[r]]

\* release(): a DELETE by key, of the claim or of the response it has become.
Clears(r) ==
    /\ \/ Contract!GiveUp(r, ask[r].key, Fingerprint(r))
       \/ /\ Holder(r) = Contract!Stored(r, Fingerprint(r))
          /\ slot' = Contract!Without({ask[r].key})
          /\ UNCHANGED served
    /\ UNCHANGED kept

Complete(r) ==
    /\ Settling(r) /\ ~Failed(result[r])
    /\ Stores(r)
    /\ served' = [served EXCEPT ![r] = r]
    /\ Outward(r)
    /\ UNCHANGED result

\* The call of the store rejects; catchError takes its error, and releases.
Caught(r) ==
    /\ \E e \in StoreErrors : result' = [result EXCEPT ![r] = Failure(e)]
    /\ UNCHANGED <<ask, at, going, local, outside, produced>>

\* complete() rejects; the payload may be stored nevertheless.
CompleteFails(r) ==
    /\ Settling(r) /\ ~Failed(result[r])
    /\ Stores(r) \/ UNCHANGED <<slot, kept>>
    /\ UNCHANGED served
    /\ Caught(r)

MutRelease(r) ==    \* a failed Result releases the key, an exception does not
    /\ Settling(r) /\ Failed(result[r])
    /\ IF result[r].form = "err" THEN Clears(r) ELSE UNCHANGED store
    /\ Outward(r)
    /\ UNCHANGED result
Release(r) ==
    /\ Settling(r) /\ Failed(result[r])
    /\ Clears(r)
    /\ Outward(r)
    /\ UNCHANGED result

\* The release for a failed Result rejects: catchError makes a second one.
\* (One that took effect nevertheless is left out: OracleIdempotency has it.)
ReleaseFails(r) ==
    /\ Settling(r) /\ result[r].form = "err"
    /\ Caught(r)
    /\ UNCHANGED store

\* The release of catchError rejects: r goes out with that error.
DiscardFails(r) ==
    /\ Settling(r) /\ result[r].is = "error"
    /\ \E e \in StoreErrors : result' = [result EXCEPT ![r] = Failure(e)]
    /\ Clears(r) \/ UNCHANGED store
    /\ Outward(r)

LeaveUndecorated(r) ==
    /\ Leaving(r, "idempotency") /\ ~Keyed(r)
    /\ Outward(r)
    /\ UNCHANGED <<result, store>>

\* Responses the store has kept long enough.  A request is done with its key
\* before its response expires (TimelyRequests of the stores).
Expire ==
    /\ \E gone \in SUBSET {k \in Contract!Holding : ~Leaving(slot[k].by, "idempotency")} :
          gone # {} /\ slot' = Contract!Without(gone)
    /\ UNCHANGED <<ask, at, going, result, local, outside, produced, served, kept>>

\* A claim that failed calls have left behind is stale: the next claim of the
\* key takes it over.
Lapse(k) ==
    /\ slot[k].state = "owned"
    /\ LET r == slot[k].by
       IN  /\ StoreFailed(r) /\ ~Leaving(r, "idempotency")
           /\ Contract!GiveUp(r, k, slot[k].fingerprint)
    /\ UNCHANGED <<ask, at, going, result, local, outside, produced, kept>>

\* x-skip-format and @RawResponse() let the handler's value through.
Raw(a) == a.skip \/ a.route.raw

MutFormatted(r, v) ==   \* every Result is wrapped, failed ones too
    CASE v.is = "error" \/ v.form = "stream" -> v
      [] v.form = "envelope" -> [v EXCEPT !.meta = IF @ = NoRequest THEN id[r] ELSE @]
      [] OTHER -> Value("envelope", v.form # "err", id[r], v.by, NoError)
Formatted(r, v) ==
    CASE v.is = "error" \/ v.form = "stream" -> v
      [] v.form = "envelope" -> [v EXCEPT !.meta = IF @ = NoRequest THEN id[r] ELSE @]
      [] v.form = "err" /\ v.error.class = "problem" -> Failure(v.error)
      [] v.form = "err" /\ v.error.class # "problem" -> Failure(HttpError(422))
      [] OTHER -> Value("envelope", TRUE, id[r], v.by, NoError)

LeaveFormat(r) ==
    /\ Leaving(r, "format")
    /\ result' = [result EXCEPT ![r] = IF Raw(ask[r]) THEN @ ELSE Formatted(r, @)]
    /\ Outward(r)
    /\ UNCHANGED store

\* The router's status, or the one the exception filter sets.
Response(r, v) ==
    [status |-> IF v.is = "error" THEN StatusOf(v.error) ELSE ask[r].route.status,
     form |-> IF v.is = "error" THEN "envelope" ELSE v.form,
     success |-> v.success,
     meta |-> IF v.is = "error" THEN id[r] ELSE v.meta,
     by |-> v.by,
     notice |-> notice[r]]

Send(r) ==
    /\ going[r] = "out" /\ Entered(r) = {}
    /\ going' = [going EXCEPT ![r] = "sent"]
    /\ LET sent == Response(r, result[r])
       IN  /\ answer' = [answer EXCEPT ![r] = Append(@, sent)]
           /\ counted' = [counted EXCEPT
                             ![r] = IF timed[r] THEN Append(@, sent.status) ELSE @]
    /\ UNCHANGED <<ask, at, result, local, produced, store>>

StageOf(r) ==
    \/ Parse(r) \/ OpenContext(r)
    \/ Throttle(r) \/ Csrf(r) \/ Jwt(r) \/ Roles(r)
    \/ Metrics(r) \/ Deprecation(r) \/ Zod(r) \/ EnterFormat(r)
    \/ Undecorated(r) \/ MissingKey(r) \/ Claim(r) \/ Mismatch(r)
    \/ InProgress(r) \/ Replay(r) \/ ClaimFails(r)
    \/ Handle(r)
    \/ Complete(r) \/ CompleteFails(r)
    \/ Release(r) \/ ReleaseFails(r) \/ DiscardFails(r)
    \/ LeaveUndecorated(r) \/ LeaveFormat(r)
    \/ Send(r)

Done == (\A r \in Requests : going[r] = "sent") /\ UNCHANGED vars

Next ==
    \/ Expire
    \/ \E k \in Keys : Lapse(k)
    \/ \E r \in Requests : StageOf(r)
    \/ Done

\* Handlers and calls of the store end, Node runs what is ready, and the clock
\* goes past every claim.
Fairness ==
    /\ \A r \in Requests : WF_vars(StageOf(r))
    /\ \A k \in Keys : WF_vars(Lapse(k))
Spec == Init /\ [][Next]_vars /\ Fairness

-----------------------------------------------------------------------------
Statuses == {400, 401, 403, 404, 409, 413, 422, 429, 500, 501, 503}
                \cup {a.route.status : a \in AllAsks}

\* Positions are on the path, every answer and every count carries a status
\* the application knows, and a slot names a request that exists.
TypeOK ==
    /\ \A r \in Requests :
          /\ at[r] \in DOMAIN Path
          /\ going[r] \in {"in", "out", "sent"}
          /\ id[r] \in {r, NoRequest}
          /\ (going[r] = "sent") <=> (answer[r] # <<>>)
          /\ \A i \in DOMAIN answer[r] : answer[r][i].status \in Statuses
          /\ Range(counted[r]) \subseteq Statuses
    /\ \A k \in Keys : slot[k].by \in Requests \cup {NoRequest}

\* What the decorators of a route ask of a request, whatever the order in
\* which the stages look.
Entitlement(a) ==
    /\ a.body # "malformed" /\ ~Invalid(a)
    /\ ~Suspicious(a)
    /\ ~a.route.public => Token(a) # NoToken /\ Token(a).valid
    /\ a.route.roles # {} =>
          ~a.route.public /\ a.route.roles \cap Token(a).roles # {}

\* A handler runs, a key is claimed, and a stored response is shown only for
\* a request that satisfies every decorator of its route: a replay is behind
\* the same guards and the same validation as the first execution.
Entitled ==
    \A r \in Requests :
        \/ produced[r] # Pending
        \/ served[r] # NoRequest
        \/ \E k \in Keys : slot[k].by = r
        => Entitlement(ask[r])

Answered(r) == answer[r] # <<>>

\* A replay gives the payload of the one execution of its key, which was a
\* success, with the status of the route, in an envelope of its own: the
\* correlation id is the one of the replaying request.
ReplayIsFresh ==
    \A r \in Requests : Answered(r) /\ served[r] \notin {r, NoRequest} =>
        LET a == Head(answer[r]) IN
        /\ a.by = served[r] /\ ~Failed(produced[served[r]])
        /\ a.status = ask[r].route.status
        /\ a.form = "envelope" /\ ~Raw(ask[r]) => a.meta = r

\* Unless the route or the client has asked for the raw value, a handler that
\* threw or returned a failed Result is answered with an error, and one that
\* did not is answered with the status of its route (decision 0004).  The one
\* exception is a route with @Idempotent() for whose request a call of the
\* store rejected: it is answered with an error though its handler succeeded
\* (departure 2), never with a success that the store does not back.
ToldAsItWent ==
    \A r \in Requests :
        Answered(r) /\ produced[r] # Pending /\ ~Raw(ask[r]) =>
            LET a == Head(answer[r])
                asError == a.status >= 400 /\ ~a.success
            IN  IF Failed(produced[r]) THEN asError
                ELSE IF StoreFailed(r) THEN asError /\ Keyed(r) /\ served[r] = NoRequest
                ELSE /\ a.status = ask[r].route.status
                     /\ Keyed(r) => served[r] = r

Admitted(r) ==
    /\ ask[r].body # "malformed" /\ ~Suspicious(ask[r])
    /\ Entitlement([ask[r] EXCEPT !.route.schema = FALSE])
    /\ Head(answer[r]).status # 429

\* Whatever becomes of a request that the guards let through, a failed
\* validation and an error of the handler included, its answer carries the
\* notice of a deprecated route and is counted once with the status that was
\* sent; one that the guards refuse is neither.
NoticedAndCounted ==
    \A r \in Requests : Answered(r) =>
        LET a == Head(answer[r]) IN
        /\ a.notice = (Admitted(r) /\ ask[r].route.deprecated)
        /\ counted[r] = IF Admitted(r) THEN <<a.status>> ELSE <<>>

\* "Counts and times every request" (metrics.interceptor.ts:14).  The code
\* does not keep this: README, departure 15.
EveryAnswerCounted == \A r \in Requests : Answered(r) => Len(counted[r]) = 1

\* On a deprecated route "every response carries" the notice.  The code does
\* not keep this: README, departure 16.
EveryAnswerNoticed ==
    \A r \in Requests :
        Answered(r) /\ ask[r].route.deprecated => Head(answer[r]).notice

\* A failed Result or an exception never leaves with a status of success.  The
\* code does not keep this: README, departure 17.
FailureNeverSuccess ==
    \A r \in Requests :
        Answered(r) /\ Failed(produced[r]) => Head(answer[r]).status >= 400

\* Every request is answered, once, whatever call of the store rejects for it,
\* and no key stays claimed when the execution behind it is over: the request
\* gives it back, or, if a call of the store rejected, the claim becomes stale.
Settles ==
    /\ \A r \in Requests : <>[](Len(answer[r]) = 1)
    /\ \A k \in Keys : (slot[k].state = "owned") ~> (slot[k].state # "owned")
=============================================================================
