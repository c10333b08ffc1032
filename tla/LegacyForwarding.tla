-------------------------- MODULE LegacyForwarding --------------------------
(* The forwarder in front of routes that still live in the legacy service:   *)
(* src/infrastructure/legacy/legacy-forwarder.ts and matches-prefix.util.ts,  *)
(* mounted by src/main.ts ahead of the router.                                *)
(*                                                                            *)
(* One request: calls share nothing.  Its life is the interleaving of four    *)
(* sources of events: the client (uploading, waiting, leaving), the legacy    *)
(* service (answering, stalling, closing, resetting), the idle timer of the   *)
(* outbound socket and the idle timer of the client's own socket              *)
(* (server.setTimeout in main.ts).  node:http is external and modelled as     *)
(* documented: 'timeout' counts the idle time of the socket; an error of the  *)
(* socket, or its end before a response, is an 'error' of the request; its    *)
(* end inside a response only destroys the response stream, and pipe() then   *)
(* neither ends nor destroys its destination; a destroy() without an error is *)
(* an 'error' only before a response; 'aborted' is emitted only while the     *)
(* request has not been read to its end.                                      *)
(*                                                                            *)
(* A path is a sequence of characters.  Header rewriting is left out.         *)
(* Bound: MaxAge, the age after which neither side sends another chunk, for   *)
(* bodies are finite.                                                         *)
EXTENDS Naturals, Sequences, SequencesExt

CONSTANTS
    Paths,           \* request paths
    PrefixLists,     \* the values of legacy.forwardPrefixes, as sets
    LegacyStatuses,  \* what the legacy service may answer
    LegacyTimeoutMs, \* legacy.timeoutMs
    ServerTimeoutMs, \* http.serverTimeout
    MaxAge,
    NoStatus         \* res.headersSent is false

ASSUME LegacyAssumption ==
    /\ Paths \subseteq Seq(STRING)
    /\ \A l \in PrefixLists : l \subseteq Seq(STRING) \ {<<>>}
    /\ LegacyStatuses \cap {502, 504, NoStatus} = {}
    /\ NoStatus \notin {502, 504}
    /\ LegacyTimeoutMs \in Nat \ {0}
    /\ ServerTimeoutMs \in Nat \ {0}
    /\ MaxAge \in Nat

VARIABLES
    path,      \* req.path
    prefixes,  \* legacy.forwardPrefixes
    route,     \* before the middleware, passed on by next(), or forwarded
    upload,    \* whether the request's body was read to its end
    client,    \* whether the client's socket is still there
    outbound,  \* the outbound request; "destroyed" until its 'error' is emitted
    timedOut,
    download,  \* the response of the legacy service
    status,    \* what res.writeHead was given
    res,       \* the response to the client
    logged,    \* legacy.forward.failed was logged
    idle,      \* idle time of the outbound socket
    quiet,     \* idle time of the client's socket
    callAge    \* time since the request was forwarded

call == <<upload, client, outbound, timedOut, download, status, res, logged>>
forwardVars == <<path, prefixes, route, call, idle, quiet, callAge>>

-----------------------------------------------------------------------------
\* Routing

normalize(p) == IF Len(p) > 1 /\ Last(p) = "/" THEN Front(p) ELSE p

MutMatches(p, list) == \E q \in list : IsPrefix(normalize(q), normalize(p))
matchesLegacyPrefix(p, list) ==
    LET target == normalize(p) IN
    \E q \in list :
        \/ target = normalize(q)
        \/ IsPrefix(Append(normalize(q), "/"), target)

ForwardInit ==
    /\ path \in Paths
    /\ prefixes \in PrefixLists
    /\ route = "arrived"
    /\ upload = "sending"
    /\ client = "here"
    /\ outbound = "none"
    /\ timedOut = FALSE
    /\ download = "none"
    /\ status = NoStatus
    /\ res = "open"
    /\ logged = FALSE
    /\ idle = 0 /\ quiet = 0 /\ callAge = 0

PassOn ==
    /\ route = "arrived"
    /\ ~matchesLegacyPrefix(path, prefixes)
    /\ route' = "next"
    /\ UNCHANGED <<path, prefixes, call, idle, quiet, callAge>>

Forward ==
    /\ route = "arrived"
    /\ matchesLegacyPrefix(path, prefixes)
    /\ route' = "forwarding"
    /\ outbound' = "open"
    /\ UNCHANGED <<path, prefixes, upload, client, timedOut, download, status,
                   res, logged, idle, quiet, callAge>>

-----------------------------------------------------------------------------
\* The client's request streams into the outbound one

headersSent == status # NoStatus

\* The end of an exchange whose response and request were both read.
Closed(up, down) ==
    IF up = "sent" /\ down = "complete" THEN "closed" ELSE outbound

Upload(next) ==
    /\ client = "here" /\ upload = "sending" /\ outbound = "open"
    /\ next = "sent" \/ callAge < MaxAge
    /\ upload' = next
    /\ outbound' = Closed(next, download)
    /\ idle' = 0 /\ quiet' = 0
    /\ UNCHANGED <<path, prefixes, route, client, timedOut, download, status,
                   res, logged, callAge>>

\* 'aborted' destroys the outbound request, but it is emitted only while the
\* upload is under way.
Aborts == upload = "sending" /\ outbound = "open"

\* destroy() with no argument: no 'error' follows once a response was received.
Leaves == IF ~Aborts THEN outbound ELSE IF headersSent THEN "closed" ELSE "destroyed"

\* The client's socket closes: the client left, or server.setTimeout cut it.
SocketCloses ==
    /\ client' = "gone"
    /\ outbound' = Leaves
    /\ download' = IF Aborts /\ download = "flowing" THEN "cut" ELSE download
    /\ res' = IF res = "open" THEN "destroyed" ELSE res
    /\ UNCHANGED <<path, prefixes, route, upload, timedOut, status, logged,
                   idle, quiet, callAge>>

Over == route # "forwarding" \/ (res # "open" /\ outbound = "closed")

Disconnect == ~Over /\ client = "here" /\ SocketCloses

MutCuttable == FALSE
Cuttable == ~Over /\ client = "here" /\ quiet >= ServerTimeoutMs

ServerTimeout == Cuttable /\ SocketCloses

-----------------------------------------------------------------------------
\* The legacy service

Respond(s) ==
    /\ outbound = "open" /\ ~headersSent
    /\ status' = s
    /\ download' = "flowing"
    /\ idle' = 0
    /\ quiet' = IF client = "here" THEN 0 ELSE quiet
    /\ UNCHANGED <<path, prefixes, route, upload, client, outbound, timedOut,
                   res, logged, callAge>>

\* A chunk reaches the outbound socket whether or not anybody reads on.
Chunk ==
    /\ outbound = "open" /\ download = "flowing" /\ callAge < MaxAge
    /\ idle' = 0
    /\ quiet' = IF client = "here" THEN 0 ELSE quiet
    /\ UNCHANGED <<path, prefixes, route, call, callAge>>

\* upstream.pipe(res) ends res.  Without a client only an empty body is still
\* read to its end.
Complete ==
    /\ outbound = "open" /\ download = "flowing"
    /\ download' = "complete"
    /\ res' = IF client = "here" THEN "ended" ELSE res
    /\ outbound' = Closed(upload, "complete")
    /\ idle' = 0
    /\ quiet' = IF client = "here" THEN 0 ELSE quiet
    /\ UNCHANGED <<path, prefixes, route, upload, client, timedOut, status,
                   logged, callAge>>

\* Refused, unresolved, reset, or closed before it answered.
Fails ==
    /\ outbound = "open"
    /\ outbound' = "destroyed"
    /\ UNCHANGED <<path, prefixes, route, upload, client, timedOut, download,
                   status, res, logged, idle, quiet, callAge>>

\* Closed in an orderly way inside its answer: no 'error', and no one else
\* listens.
Truncates ==
    /\ outbound = "open" /\ download = "flowing"
    /\ outbound' = "closed"
    /\ download' = "cut"
    /\ UNCHANGED <<path, prefixes, route, upload, client, timedOut, status, res,
                   logged, idle, quiet, callAge>>

-----------------------------------------------------------------------------
\* Timers and 'error'

TimeoutDue == outbound = "open" /\ idle >= LegacyTimeoutMs

Timeout ==
    /\ TimeoutDue
    /\ timedOut' = TRUE
    /\ outbound' = "destroyed"
    /\ UNCHANGED <<path, prefixes, route, upload, client, download, status, res,
                   logged, idle, quiet, callAge>>

\* The answer to an 'error': one of its own, or none if the head has gone out.
MutReplyTwice == <<IF timedOut THEN 504 ELSE 502, "ended">>
MutReplyEnds == IF headersSent THEN <<status, "ended">>
                               ELSE <<IF timedOut THEN 504 ELSE 502, "ended">>
Reply == IF headersSent THEN <<status, "destroyed">>
                        ELSE <<IF timedOut THEN 504 ELSE 502, "ended">>

OnError ==
    /\ outbound = "destroyed"
    /\ outbound' = "closed"
    /\ logged' = TRUE
    /\ status' = Reply[1]
    /\ res' = IF res = "open" THEN Reply[2] ELSE res
    /\ download' = IF download = "flowing" THEN "cut" ELSE download
    /\ UNCHANGED <<path, prefixes, route, upload, client, timedOut, idle, quiet, callAge>>

\* Time passes while no timer is due and no event waits to be emitted.
ForwardTick ==
    /\ ~Over
    /\ ~TimeoutDue /\ ~Cuttable
    /\ outbound # "destroyed"
    /\ idle' = IF outbound = "open" THEN idle + 1 ELSE idle
    /\ quiet' = IF client = "here" /\ quiet < ServerTimeoutMs THEN quiet + 1 ELSE quiet
    /\ callAge' = IF callAge < MaxAge THEN callAge + 1 ELSE callAge
    /\ UNCHANGED <<path, prefixes, route, call>>

-----------------------------------------------------------------------------
ForwardNext ==
    \/ PassOn \/ Forward
    \/ \E next \in {"sending", "sent"} : Upload(next)
    \/ Disconnect \/ ServerTimeout
    \/ \E s \in LegacyStatuses : Respond(s)
    \/ Chunk \/ Complete \/ Fails \/ Truncates
    \/ Timeout \/ OnError \/ ForwardTick

ForwardSpec == ForwardInit /\ [][ForwardNext]_forwardVars

\* The event loop runs: middleware, timers and pending events are dispatched,
\* and time passes.  Nothing is asked of the client or the legacy service.
ForwardLiveSpec ==
    /\ ForwardSpec
    /\ WF_forwardVars(PassOn) /\ WF_forwardVars(Forward)
    /\ WF_forwardVars(Timeout) /\ WF_forwardVars(ServerTimeout)
    /\ WF_forwardVars(OnError) /\ WF_forwardVars(ForwardTick)

-----------------------------------------------------------------------------
\* Properties

\* Types.  The idle timer is never served late: idle stops at its limit.
ForwardTypeOK ==
    /\ path \in Paths /\ prefixes \in PrefixLists
    /\ route \in {"arrived", "next", "forwarding"}
    /\ upload \in {"sending", "sent"}
    /\ client \in {"here", "gone"}
    /\ outbound \in {"none", "open", "destroyed", "closed"}
    /\ timedOut \in BOOLEAN /\ logged \in BOOLEAN
    /\ download \in {"none", "flowing", "complete", "cut"}
    /\ status \in LegacyStatuses \cup {502, 504, NoStatus}
    /\ res \in {"open", "ended", "destroyed"}
    /\ idle \in 0..LegacyTimeoutMs
    /\ quiet \in 0..ServerTimeoutMs
    /\ callAge \in 0..MaxAge

\* What a path is cut into by its slashes, character by character.
Extended(pieces, c) ==
    IF c = "/" THEN Append(pieces, <<>>)
    ELSE [pieces EXCEPT ![Len(pieces)] = Append(@, c)]

Pieces(p) ==
    LET upTo[n \in 0..Len(p)] ==
            IF n = 0 THEN << <<>> >> ELSE Extended(upTo[n - 1], p[n])
    IN upTo[Len(p)]

\* The segments of a path, without the empty one behind a trailing slash.
Segments(p) == IF Last(Pieces(p)) = <<>> THEN Front(Pieces(p)) ELSE Pieces(p)

\* A path is forwarded exactly when its segments begin with those of a listed
\* prefix: never because of a prefix that ends inside a segment, and whatever
\* the trailing slashes of either.
ForwardedIffListed ==
    route # "arrived" =>
        (route = "forwarding" <=>
            \E q \in prefixes : IsPrefix(Segments(q), Segments(path)))

\* The comment of matchesLegacyPrefix: "A prefix matches itself and its
\* sub-paths".  The prefix "/" has every path below it.
\* The code does not keep this: README, departure 9.
SubPathsForwarded ==
    route = "next" =>
        ~\E q \in prefixes : IsPrefix(Segments(q), Segments(path))

\* A status that has gone out is never written over: writeHead would throw, in
\* an event handler nobody guards, and end the process.
StatusWrittenOnce == [][headersSent => status' = status]_forwardVars

\* A response the client takes for whole is whole: a body cut short by a
\* failure or a timeout never looks complete.
WholeOrBroken ==
    res = "ended" => download = "complete" \/ status \in {502, 504}

\* Every forwarded call ends for the client and gives its outbound socket back,
\* whatever the client and the legacy service do.
BothSidesEnd ==
    /\ route = "forwarding" ~> res # "open"
    /\ route = "forwarding" ~> outbound = "closed"

\* Decision 0013: "a legacy call that outlives LEGACY_TIMEOUT_MS becomes 504".
\* The code does not keep this: README, departure 10.
DecidedInTime == callAge > LegacyTimeoutMs => headersSent \/ res # "open"

\* The comment in forward(): "The client disconnecting mid-request must not
\* leave the outbound socket open."
\* The code does not keep this: README, departure 11.
AbandonedCallIsDropped == client = "gone" => outbound # "open"

\* docs/architecture/configuration.md: "Failures log legacy.forward.failed".  A
\* call whose legacy side is gone without a whole answer was logged.
\* The code does not keep this: README, departure 12.
FailureIsReported == outbound = "closed" /\ download # "complete" => logged
=============================================================================
