---------------------------- MODULE Transactions ----------------------------
(***************************************************************************)
(* Units of work over the connection pools: DatabaseUnitOfWork.run,        *)
(* PoolManager.runInTransaction and the calls that join it, and            *)
(* OracleClient.withConnection/transaction/release.  Each flow is one      *)
(* asynchronous call chain that runs one unit on its home source.  Inside  *)
(* the unit it may write, open a joined unit, start a sibling branch       *)
(* (Promise.all) and borrow from another source.  A session is what the    *)
(* driver and the database hold for a pooled connection.                   *)
(***************************************************************************)
EXTENDS Integers, FiniteSets

CONSTANTS
    Flows,           \* asynchronous call chains
    Nesters,         \* those whose work may open a unit of its own
    Branchers,       \* those whose work may run branches side by side
    Visitors,        \* those whose work may use another source
    Sources,         \* configured sources
    Main,            \* DatabaseSources.main, the source of a DatabaseUnitOfWork
    Conns,           \* the pooled connections, poolMax of each source together
    SourceOf,        \* the source of each connection
    Enabled,         \* the sources with contextUser.enabled
    Enforced,        \* the sources with contextUser.required
    Users,           \* the context users a call may pass, trimmed; a blank one is Nobody
    UsersOf,         \* those that each flow may pass
    Names,           \* the client identifiers users are known by at the database
    ClientId,        \* each source's name of a user, cut to contextUser.maxLength bytes;
                     \* Nobody when not even the first character fits
    QueueTimeoutMs,  \* queueTimeoutMs: zero waits for ever
    NoConn,          \* no connection held
    Nobody,          \* no context user, no client identifier
    NoChange         \* no identifier waiting to be sent

ASSUME PoolAssumption ==
    /\ Main \in Sources
    /\ Enabled \subseteq Sources
    /\ Enforced \subseteq Sources
    /\ UsersOf \in [Flows -> SUBSET Users]
    /\ ClientId \in [Sources -> [Users -> Names \cup {Nobody}]]
    /\ SourceOf \in [Conns -> Sources]
    /\ NoConn \notin Conns
    /\ Nobody \notin Users \cup Names
    /\ NoChange \notin Names \cup {Nobody}
    /\ QueueTimeoutMs \in Nat

VARIABLES
    at,        \* where each flow's call is
    home,      \* the source its unit runs on
    actor,     \* the context user it passes
    conn,      \* the connection of its unit, the one its calls join
    aside,     \* the connection it borrows from another source
    visited,   \* has it been to another source: one visit per flow (the bound)
    inner,     \* its joined unit
    stray,     \* does a sibling branch still have a statement to issue
    drop,      \* is its connection to leave the pool when released
    written,   \* the statements it has seen succeed
    verdict,   \* what its caller is told
    session,   \* per connection: identifier to send, identifier in force, open work
    durable    \* the committed statements

vars == <<at, home, actor, conn, aside, visited, inner, stray, drop, written, verdict,
          session, durable>>

Stages == {"idle", "queued", "working", "asideQueued", "aside", "undoing", "clearing",
           "closing", "ended"}
Parts == {"outer", "inner", "stray"}
Writes == [flow : Flows, part : Parts, by : Names \cup {Nobody}]
Verdicts == {"none", "ok", "failed", "threw", "commitError", "refused", "noConnection"}

Fresh == [unsent |-> NoChange, ident |-> Nobody, pending |-> {}]

Init ==
    /\ at = [f \in Flows |-> "idle"]
    /\ home = [f \in Flows |-> Main]
    /\ actor = [f \in Flows |-> Nobody]
    /\ conn = [f \in Flows |-> NoConn]
    /\ aside = [f \in Flows |-> NoConn]
    /\ visited = [f \in Flows |-> FALSE]
    /\ inner = [f \in Flows |-> "none"]
    /\ stray = [f \in Flows |-> FALSE]
    /\ drop = [f \in Flows |-> FALSE]
    /\ written = [f \in Flows |-> {}]
    /\ verdict = [f \in Flows |-> "none"]
    /\ session = [c \in Conns |-> Fresh]
    /\ durable = {}

-----------------------------------------------------------------------------
(* The pool and the session *)

Free(c) == \A f \in Flows : c # conn[f] /\ c # aside[f]

\* A clientId that was set travels with whatever round trip comes next.
Sent(s) ==
    IF s.unsent = NoChange THEN s ELSE [s EXCEPT !.ident = s.unsent, !.unsent = NoChange]

\* A bug: contextUser.required is not looked at.
MutAdmits(s, user) == TRUE

\* resolveContextUser: a source that requires a user refuses a call without one, unless
\* it sets no users at all.
Admits(s, user) == s \in Enabled \cap Enforced => user # Nobody

\* The identifier a call of `user` sets on source s; Nobody: it sets none.
UserAt(s, user) == IF s \in Enabled /\ user # Nobody THEN ClientId[s][user] ELSE Nobody

Identity(f) == UserAt(home[f], actor[f])

\* The session once f's statement for `part` has run on it.
Executed(s, f, part) ==
    [Sent(s) EXCEPT !.pending = @ \cup {[flow |-> f, part |-> part, by |-> Sent(s).ident]}]

\* withConnection sets clientId only when there is a user to set.
Borrowed(s, name) == IF name = Nobody THEN s ELSE [s EXCEPT !.unsent = name]

\* What goes back to the pool: the driver undoes open work and replaces a dropped connection.
Released(s, dropped) == IF dropped THEN Fresh ELSE [s EXCEPT !.pending = {}]

Move(f, stage) == at' = [at EXCEPT ![f] = stage]

-----------------------------------------------------------------------------
(* Entering the unit *)

Begin(f) ==
    /\ at[f] = "idle"
    /\ \E s \in Sources, user \in UsersOf[f] \cup {Nobody} :
        /\ home' = [home EXCEPT ![f] = s]
        /\ actor' = [actor EXCEPT ![f] = user]
        /\ IF Admits(s, user)
           THEN Move(f, "queued") /\ UNCHANGED verdict
           ELSE Move(f, "ended") /\ verdict' = [verdict EXCEPT ![f] = "refused"]
    /\ UNCHANGED <<conn, aside, visited, inner, stray, drop, written, session, durable>>

Acquire(f) ==
    /\ at[f] = "queued"
    /\ \E c \in Conns :
        /\ SourceOf[c] = home[f]
        /\ Free(c)
        /\ conn' = [conn EXCEPT ![f] = c]
        /\ session' = [session EXCEPT ![c] = Borrowed(@, Identity(f))]
    /\ Move(f, "working")
    /\ UNCHANGED <<home, actor, aside, visited, inner, stray, drop, written, verdict, durable>>

\* A bug: a call that waits while it holds a connection is not timed out.
MutQueueTimeout(f) ==
    /\ QueueTimeoutMs > 0
    /\ at[f] = "queued"
    /\ Move(f, "ended")
    /\ verdict' = [verdict EXCEPT ![f] = "noConnection"]
    /\ UNCHANGED <<home, actor, conn, aside, visited, inner, stray, drop, written,
                   session, durable>>

\* getConnection fails once the call has queued for queueTimeoutMs.
QueueTimeout(f) ==
    /\ QueueTimeoutMs > 0
    /\ \/ /\ at[f] = "queued"
          /\ Move(f, "ended")
          /\ verdict' = [verdict EXCEPT ![f] = "noConnection"]
       \/ /\ at[f] = "asideQueued"
          /\ Move(f, "working")
          /\ UNCHANGED verdict
    /\ UNCHANGED <<home, actor, conn, aside, visited, inner, stray, drop, written,
                   session, durable>>

-----------------------------------------------------------------------------
(* Inside the unit *)

\* A repository call joins the unit: runJoined hands it the unit's connection.
Write(f) ==
    LET part == IF inner[f] = "open" THEN "inner" ELSE "outer"
        c == conn[f]
    IN
    /\ at[f] = "working"
    /\ session' = [session EXCEPT ![c] = Executed(@, f, part)]
    /\ written' = [written EXCEPT ![f] = @ \cup {part}]
    /\ UNCHANGED <<at, home, actor, conn, aside, visited, inner, stray, drop, verdict, durable>>

\* A sibling branch of a Promise.all has a call of its own to make.
Branch(f) ==
    /\ at[f] = "working"
    /\ f \in Branchers
    /\ "stray" \notin written[f]
    /\ ~ stray[f]
    /\ stray' = [stray EXCEPT ![f] = TRUE]
    /\ UNCHANGED <<at, home, actor, conn, aside, visited, inner, drop, written, verdict,
                   session, durable>>

\* The branch's call reaches the connection, whatever has become of the unit.
BranchWrites(f) ==
    /\ stray[f]
    /\ conn[f] # NoConn
    /\ stray' = [stray EXCEPT ![f] = FALSE]
    /\ session' = [session EXCEPT ![conn[f]] = Executed(@, f, "stray")]
    /\ written' = [written EXCEPT ![f] = @ \cup {"stray"}]
    /\ UNCHANGED <<at, home, actor, conn, aside, visited, inner, drop, verdict, durable>>

\* The connection object it joined has been closed: its call fails.
BranchRefused(f) ==
    /\ stray[f]
    /\ at[f] = "ended"
    /\ stray' = [stray EXCEPT ![f] = FALSE]
    /\ UNCHANGED <<at, home, actor, conn, aside, visited, inner, drop, written, verdict,
                   session, durable>>

\* A unit inside the unit: runInTransaction finds the connection and only runs the work.
OpenInner(f) ==
    /\ at[f] = "working"
    /\ f \in Nesters
    /\ inner[f] = "none"
    /\ inner' = [inner EXCEPT ![f] = "open"]
    /\ UNCHANGED <<at, home, actor, conn, aside, visited, stray, drop, written, verdict,
                   session, durable>>

\* It ends; that its work failed is a Result of a DatabaseUnitOfWork, which runs on main.
CloseInner(f) ==
    /\ at[f] = "working"
    /\ inner[f] = "open"
    /\ \E end \in {"ok", "failed"} :
        /\ end = "failed" => home[f] = Main
        /\ inner' = [inner EXCEPT ![f] = end]
    /\ UNCHANGED <<at, home, actor, conn, aside, visited, stray, drop, written, verdict,
                   session, durable>>

\* A call to another source borrows a second connection while the first is held.
GoAside(f) ==
    /\ at[f] = "working"
    /\ f \in Visitors
    /\ ~ visited[f]
    /\ \E s \in Sources : s # home[f] /\ Admits(s, actor[f])
    /\ visited' = [visited EXCEPT ![f] = TRUE]
    /\ Move(f, "asideQueued")
    /\ UNCHANGED <<home, actor, conn, aside, inner, stray, drop, written, verdict,
                   session, durable>>

AcquireAside(f) ==
    /\ at[f] = "asideQueued"
    /\ \E c \in Conns :
        /\ SourceOf[c] # home[f]
        /\ Admits(SourceOf[c], actor[f])
        /\ Free(c)
        /\ aside' = [aside EXCEPT ![f] = c]
        /\ session' = [session EXCEPT ![c] = Sent(Borrowed(@, UserAt(SourceOf[c], actor[f])))]
    /\ Move(f, "aside")
    /\ UNCHANGED <<home, actor, conn, visited, inner, stray, drop, written, verdict, durable>>

\* Its release: cleared of a user it carried, or dropped for a fresh one, as in Clear.
ReturnAside(f) ==
    /\ at[f] = "aside"
    /\ LET named == UserAt(SourceOf[aside[f]], actor[f]) # Nobody IN
       session' = [session EXCEPT ![aside[f]] = Released(@, named)]
    /\ aside' = [aside EXCEPT ![f] = NoConn]
    /\ Move(f, "working")
    /\ UNCHANGED <<home, actor, conn, visited, inner, stray, drop, written, verdict, durable>>

-----------------------------------------------------------------------------
(* Ending the unit: transaction's commit and rollback *)

\* The start of release(): the identifier is unset before the ping that sends it.
EnterRelease(f, s) ==
    /\ Move(f, IF Identity(f) # Nobody THEN "clearing" ELSE "closing")
    /\ session' = [session EXCEPT ![conn[f]] =
           IF Identity(f) # Nobody THEN [s EXCEPT !.unsent = Nobody] ELSE s]

WorkSucceeds(f) == at[f] = "working" /\ inner[f] # "open" /\ ~ stray[f]

Committed(f) == durable' = durable \cup session[conn[f]].pending

Commit(f) ==
    /\ WorkSucceeds(f)
    /\ Committed(f)
    /\ EnterRelease(f, [Sent(session[conn[f]]) EXCEPT !.pending = {}])
    /\ verdict' = [verdict EXCEPT ![f] = "ok"]
    /\ UNCHANGED <<home, actor, conn, aside, visited, inner, stray, drop, written>>

\* commit() rejects: the database refused it, or took it and the answer was lost.
CommitFails(f) ==
    /\ WorkSucceeds(f)
    /\ \/ Committed(f) /\ session' = [session EXCEPT ![conn[f]] = [Sent(@) EXCEPT !.pending = {}]]
       \/ UNCHANGED <<session, durable>>
    /\ verdict' = [verdict EXCEPT ![f] = "commitError"]
    /\ Move(f, "undoing")
    /\ UNCHANGED <<home, actor, conn, aside, visited, inner, stray, drop, written>>

\* A bug: a failed Result is returned from the transaction instead of thrown through it.
MutWorkFails(f) ==
    /\ at[f] = "working"
    /\ \/ /\ verdict' = [verdict EXCEPT ![f] = "threw"]
          /\ Move(f, "undoing")
          /\ UNCHANGED <<session, durable>>
       \/ /\ home[f] = Main /\ inner[f] # "open"
          /\ verdict' = [verdict EXCEPT ![f] = "failed"]
          /\ durable' = durable \cup session[conn[f]].pending
          /\ session' = [session EXCEPT ![conn[f]].pending = {}]
          /\ Move(f, "clearing")
    /\ UNCHANGED <<home, actor, conn, aside, visited, inner, stray, drop, written>>

\* The work throws, or (a DatabaseUnitOfWork) returns a failed Result, which run throws on.
WorkFails(f) ==
    /\ at[f] = "working"
    /\ \E v \in {"threw", "failed"} :
        /\ v = "failed" => home[f] = Main /\ inner[f] # "open"
        /\ verdict' = [verdict EXCEPT ![f] = v]
    /\ Move(f, "undoing")
    /\ UNCHANGED <<home, actor, conn, aside, visited, inner, stray, drop, written,
                   session, durable>>

\* A rollback that fails is only logged.
Rollback(f) ==
    /\ at[f] = "undoing"
    /\ \/ EnterRelease(f, [Sent(session[conn[f]]) EXCEPT !.pending = {}])
       \/ EnterRelease(f, session[conn[f]])
    /\ UNCHANGED <<home, actor, conn, aside, visited, inner, stray, drop, written, verdict,
                   durable>>

\* A bug: a connection whose clearing ping failed goes back to the pool.
MutClear(f) ==
    /\ at[f] = "clearing"
    /\ \/ session' = [session EXCEPT ![conn[f]] = Sent(@)]
       \/ session' = [session EXCEPT ![conn[f]].unsent = NoChange]
    /\ Move(f, "closing")
    /\ UNCHANGED <<home, actor, conn, aside, visited, inner, stray, drop, written, verdict,
                   durable>>

\* The ping that carries the cleared identifier; without its answer the connection is dropped.
Clear(f) ==
    /\ at[f] = "clearing"
    /\ \/ session' = [session EXCEPT ![conn[f]] = Sent(@)] /\ UNCHANGED drop
       \/ /\ drop' = [drop EXCEPT ![f] = TRUE]
          /\ session' = [session EXCEPT ![conn[f]].unsent = NoChange]
    /\ Move(f, "closing")
    /\ UNCHANGED <<home, actor, conn, aside, visited, inner, stray, written, verdict, durable>>

Close(f) ==
    /\ at[f] = "closing"
    /\ session' = [session EXCEPT ![conn[f]] = Released(@, drop[f])]
    /\ conn' = [conn EXCEPT ![f] = NoConn]
    /\ drop' = [drop EXCEPT ![f] = FALSE]
    /\ Move(f, "ended")
    /\ UNCHANGED <<home, actor, aside, visited, inner, stray, written, verdict, durable>>

-----------------------------------------------------------------------------
(* The work decides what to do; the rest of a call goes on by itself. *)
Works(f) == Write(f) \/ Branch(f) \/ OpenInner(f) \/ GoAside(f)

Proceeds(f) ==
    \/ Acquire(f) \/ QueueTimeout(f) \/ AcquireAside(f) \/ ReturnAside(f) \/ CloseInner(f)
    \/ Commit(f) \/ CommitFails(f) \/ WorkFails(f) \/ Rollback(f) \/ Clear(f) \/ Close(f)

Next ==
    \E f \in Flows :
        Begin(f) \/ Works(f) \/ Proceeds(f) \/ BranchWrites(f) \/ BranchRefused(f)

Spec == Init /\ [][Next]_vars

\* Every round trip is answered or times out, and the work returns or throws.
LiveSpec == Spec /\ \A f \in Flows : WF_vars(Proceeds(f))

-----------------------------------------------------------------------------
(* Properties *)

\* Types of the state.
TypeOK ==
    /\ at \in [Flows -> Stages]
    /\ home \in [Flows -> Sources]
    /\ actor \in [Flows -> Users \cup {Nobody}]
    /\ conn \in [Flows -> Conns \cup {NoConn}]
    /\ aside \in [Flows -> Conns \cup {NoConn}]
    /\ visited \in [Flows -> BOOLEAN]
    /\ inner \in [Flows -> {"none", "open", "ok", "failed"}]
    /\ stray \in [Flows -> BOOLEAN]
    /\ drop \in [Flows -> BOOLEAN]
    /\ written \in [Flows -> SUBSET Parts]
    /\ verdict \in [Flows -> Verdicts]
    /\ session \in [Conns -> [unsent : Names \cup {Nobody, NoChange},
                              ident : Names \cup {Nobody}, pending : SUBSET Writes]]
    /\ durable \subseteq Writes

\* The parts of f's unit the database has kept.
Kept(f) == {w.part : w \in {d \in durable : d.flow = f}}

\* A connection nobody holds carries nobody's identity and nobody's open work:
\* "the identity can never leak to the next borrower" (oracle.client.ts:38).
CleanPool ==
    \A c \in Conns : Free(c) => session[c] = Fresh

\* What the caller is told agrees with the database: a unit reported done is kept
\* whole, one that failed or threw leaves nothing, and a commit whose answer is an
\* error is kept whole or not at all -- whatever a sibling branch still did on the
\* connection after the unit had failed.
AllOrNothing ==
    \A f \in Flows :
        /\ verdict[f] = "ok" => Kept(f) = written[f]
        /\ verdict[f] = "commitError" => Kept(f) \in {{}, written[f]}
        /\ verdict[f] \notin {"ok", "commitError"} => Kept(f) = {}

\* contextUser.maxLength of the sources that require a user has room for one character.
RoomForOne == \A s \in Enabled \cap Enforced, u \in Users : ClientId[s][u] # Nobody

\* Every statement kept was audited under the name that the source of its unit has for the
\* unit's user: nobody else's, whoever had the connection before, and none where the source
\* sets no users. A source that requires a user keeps nothing written without a name
\* (departure 21 when maxLength leaves nothing of it).
Attributed ==
    \A w \in durable :
        /\ w.by = Identity(w.flow)
        /\ RoomForOne /\ home[w.flow] \in Enabled \cap Enforced => w.by # Nobody

\* Every call that starts ends, even when the units wait for each other's sources.
CallsEnd == <>[](\A f \in Flows : at[f] \in {"idle", "ended"})

\* What unit-of-work.port.ts:17 says of a unit: it rolls back when its work returns a
\* failed Result or throws, so a unit that failed leaves nothing behind.
FailedUnitLeavesNothing ==
    \A f \in Flows : inner[f] = "failed" => "inner" \notin Kept(f)

=============================================================================
