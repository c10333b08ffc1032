-------------------------- MODULE TransactionsProofs --------------------------
(***************************************************************************)
(* Proofs about Transactions, for any flows, sources and pools: a unit of  *)
(* work is all or nothing, its writes are its user's, and a connection in  *)
(* the pool carries nobody's identity and nobody's work; a nested unit     *)
(* that fails leaves nothing if its failure is returned on.                *)
(*                                                                         *)
(* A step of a flow disturbs what is said of another flow only through a   *)
(* connection or through the database; `Local` says that it does not, and  *)
(* the rest is about the flow that takes the step.                         *)
(***************************************************************************)
EXTENDS Transactions, TLAPS

Session == [unsent : Names \cup {Nobody, NoChange},
            ident : Names \cup {Nobody}, pending : SUBSET Writes]

-----------------------------------------------------------------------------
(* The inductive invariant *)

Inside == {"working", "asideQueued", "aside"}
Holding == Inside \cup {"undoing", "clearing", "closing"}

\* A flow holds a connection of its own source while it is in its unit, and
\* one of another source while it is there.
Places(f) ==
    /\ conn[f] # NoConn <=> at[f] \in Holding
    /\ aside[f] # NoConn <=> at[f] = "aside"
    /\ conn[f] # NoConn => SourceOf[conn[f]] = home[f]
    /\ aside[f] # NoConn => SourceOf[aside[f]] # home[f]

\* What f wrote, under the user of f.
Work(f) == {[flow |-> f, part |-> p, by |-> Identity(f)] : p \in written[f]}

\* The identifier f sets on the connection it borrows from another source.
AsideName(f) == UserAt(SourceOf[aside[f]], actor[f])

\* The identifier of a session is the user of the flow that holds it, until it
\* is cleared.
Identified(f) ==
    /\ at[f] \in Inside \cup {"undoing"} =>
           /\ Sent(session[conn[f]]).ident = Identity(f)
           /\ Identity(f) = Nobody => session[conn[f]].unsent = NoChange
    /\ at[f] = "aside" /\ AsideName(f) = Nobody =>
           session[aside[f]].unsent = NoChange /\ session[aside[f]].ident = Nobody
    /\ at[f] = "clearing" => Sent(session[conn[f]]).ident = Nobody
    /\ at[f] = "closing" /\ ~drop[f] =>
           session[conn[f]].unsent = NoChange /\ session[conn[f]].ident = Nobody

\* The open work of a session is all that its flow has written.
Open(f) ==
    /\ at[f] \in {"idle", "queued"} => written[f] = {}
    /\ at[f] \in Inside => session[conn[f]].pending = Work(f)

KeptOf(f) == {w \in durable : w.flow = f}

\* The verdict is passed when the unit ends, and says what was kept.
Judged(f) ==
    /\ verdict[f] = "none" <=> at[f] \in Inside \cup {"idle", "queued"}
    /\ at[f] = "idle" \/ verdict[f] = "refused" \/ Admits(home[f], actor[f])
    /\ verdict[f] \in {"ok", "commitError"} => ~stray[f]
    /\ verdict[f] = "ok" => KeptOf(f) = Work(f)
    /\ verdict[f] = "commitError" => KeptOf(f) \in {{}, Work(f)}
    /\ verdict[f] \notin {"ok", "commitError"} => KeptOf(f) = {}

FlowInv(f) == Places(f) /\ Identified(f) /\ Open(f) /\ Judged(f)

\* No connection serves two flows.
Apart(f, g) ==
    /\ conn[f] # NoConn => conn[f] # conn[g] /\ conn[f] # aside[g]
    /\ aside[f] # NoConn => aside[f] # conn[g] /\ aside[f] # aside[g]

IInv ==
    /\ TypeOK
    /\ CleanPool
    /\ \A f \in Flows : FlowInv(f)
    /\ \A f, g \in Flows : f # g => Apart(f, g)

-----------------------------------------------------------------------------
(* Sessions *)

\* What the helpers make of a session.
LEMMA SentSession ==
    ASSUME NEW s \in Session
    PROVE  /\ Sent(s) \in Session
           /\ Sent(s).unsent = NoChange
           /\ Sent(s).pending = s.pending
           /\ Sent(s).ident = IF s.unsent = NoChange THEN s.ident ELSE s.unsent
           /\ Sent(Sent(s)) = Sent(s)
BY DEF Session, Sent

\* Borrowing a connection leaves the open work and the identity in force.
LEMMA BorrowedSession ==
    ASSUME NEW s \in Session, NEW name \in Names \cup {Nobody}
    PROVE  /\ Borrowed(s, name) \in Session
           /\ Borrowed(s, name).pending = s.pending
           /\ Borrowed(s, name).ident = s.ident
           /\ Borrowed(s, name).unsent = IF name = Nobody THEN s.unsent ELSE name
BY DEF Session, Borrowed

\* A statement takes the identifier along that was waiting for a round trip.
LEMMA ExecutedSession ==
    ASSUME NEW s \in Session, NEW f \in Flows, NEW part \in Parts
    PROVE  /\ Executed(s, f, part) \in Session
           /\ Executed(s, f, part).unsent = NoChange
           /\ Executed(s, f, part).ident = Sent(s).ident
           /\ Executed(s, f, part).pending
                = s.pending \cup {[flow |-> f, part |-> part, by |-> Sent(s).ident]}
<1>1. Sent(s).ident \in Names \cup {Nobody}
  BY SentSession DEF Session
<1>2. [flow |-> f, part |-> part, by |-> Sent(s).ident] \in Writes
  BY <1>1 DEF Writes
<1>3. QED
  BY <1>2, SentSession DEF Session, Executed

\* A session without an identity is fresh once its work has been decided.
LEMMA FreshSession ==
    /\ Fresh \in Session
    /\ \A s \in Session :
          s.unsent = NoChange /\ s.ident = Nobody => [s EXCEPT !.pending = {}] = Fresh
    /\ \A s \in Session : [s EXCEPT !.pending = {}] \in Session
    /\ \A s \in Session, u \in Names \cup {Nobody, NoChange} : [s EXCEPT !.unsent = u] \in Session
BY DEF Session, Fresh

\* Both identifiers are told apart from what stands for none.
LEMMA Identities ==
    ASSUME TypeOK
    PROVE  /\ \A f \in Flows : Identity(f) \in Names \cup {Nobody}
           /\ \A f \in Flows, c \in Conns : UserAt(SourceOf[c], actor[f]) \in Names \cup {Nobody}
           /\ NoChange \notin Names \cup {Nobody}
           /\ Nobody \notin Names
BY PoolAssumption DEF TypeOK, Identity, UserAt

-----------------------------------------------------------------------------
(* Every step keeps the types. *)

\* Every step keeps the types, given where the flows are.
LEMMA TypesKept ==
    ASSUME TypeOK, \A f \in Flows : Places(f), [Next]_vars
    PROVE  TypeOK'
<1>1. session \in [Conns -> Session]
  BY DEF TypeOK, Session
<1>2. ASSUME NEW f \in Flows, Begin(f)
      PROVE  TypeOK'
  <2>1. PICK s \in Sources, user \in UsersOf[f] \cup {Nobody} :
            home' = [home EXCEPT ![f] = s] /\ actor' = [actor EXCEPT ![f] = user]
    BY <1>2 DEF Begin
  <2>2. user \in Users \cup {Nobody}
    BY PoolAssumption
  <2>3. QED
    BY <1>2, <2>1, <2>2 DEF TypeOK, Begin, Move, Stages, Verdicts
<1>3. ASSUME NEW f \in Flows, Acquire(f)
      PROVE  TypeOK'
  <2> DEFINE name == Identity(f)
  <2>1. PICK c \in Conns : /\ conn' = [conn EXCEPT ![f] = c]
                           /\ session' = [session EXCEPT ![c] = Borrowed(@, name)]
    BY <1>3 DEF Acquire
  <2>2. session' \in [Conns -> Session]
    <3>1. Borrowed(session[c], name) \in Session
      BY <1>1, Identities, BorrowedSession
    <3>2. QED
      BY <1>1, <2>1, <3>1
  <2>3. QED
    BY <1>3, <2>1, <2>2 DEF TypeOK, Acquire, Move, Stages, Session
<1>4. ASSUME NEW f \in Flows, QueueTimeout(f)
      PROVE  TypeOK'
  BY <1>4 DEF TypeOK, QueueTimeout, Move, Stages, Verdicts
<1>5. ASSUME NEW f \in Flows, Write(f)
      PROVE  TypeOK'
  <2>1. \A c \in Conns, part \in Parts : Executed(session[c], f, part) \in Session
    BY <1>1, ExecutedSession
  <2>2. session' \in [Conns -> Session] /\ written' \in [Flows -> SUBSET Parts]
    BY <1>5, <2>1 DEF TypeOK, Write, Session, Parts
  <2>3. QED
    BY <1>5, <2>2 DEF TypeOK, Write, Session
<1>6. ASSUME NEW f \in Flows, Branch(f) \/ BranchRefused(f) \/ OpenInner(f) \/ CloseInner(f)
      PROVE  TypeOK'
  BY <1>6 DEF TypeOK, Branch, BranchRefused, OpenInner, CloseInner
<1>7. ASSUME NEW f \in Flows, BranchWrites(f)
      PROVE  TypeOK'
  <2>1. \A c \in Conns : Executed(session[c], f, "stray") \in Session
    BY <1>1, ExecutedSession DEF Parts
  <2>2. session' \in [Conns -> Session] /\ written' \in [Flows -> SUBSET Parts]
    BY <1>7, <2>1 DEF TypeOK, BranchWrites, Session, Parts
  <2>3. QED
    BY <1>7, <2>2 DEF TypeOK, BranchWrites, Session
<1>8. ASSUME NEW f \in Flows, GoAside(f)
      PROVE  TypeOK'
  BY <1>8 DEF TypeOK, GoAside, Move, Stages
<1>9. ASSUME NEW f \in Flows, AcquireAside(f)
      PROVE  TypeOK'
  <2> DEFINE name(c) == UserAt(SourceOf[c], actor[f])
  <2>1. PICK c \in Conns : /\ aside' = [aside EXCEPT ![f] = c]
                           /\ session' = [session EXCEPT ![c] = Sent(Borrowed(@, name(c)))]
    BY <1>9 DEF AcquireAside
  <2>2. session' \in [Conns -> Session]
    <3>1. Sent(Borrowed(session[c], name(c))) \in Session
      BY <1>1, Identities, BorrowedSession, SentSession
    <3>2. QED
      BY <1>1, <2>1, <3>1
  <2>3. QED
    BY <1>9, <2>1, <2>2 DEF TypeOK, AcquireAside, Move, Stages, Session
<1>10. ASSUME NEW f \in Flows, ReturnAside(f) \/ Close(f)
       PROVE  TypeOK'
  <2>1. \A c \in Conns, d \in BOOLEAN : Released(session[c], d) \in Session
    BY <1>1, FreshSession DEF Released
  <2>2. (AsideName(f) # Nobody) \in BOOLEAN /\ drop[f] \in BOOLEAN
    BY DEF TypeOK
  <2>3. PICK c \in {conn[f], aside[f]}, d \in BOOLEAN :
            session' = [session EXCEPT ![c] = Released(session[c], d)]
    BY <1>10, <2>2 DEF ReturnAside, Close, AsideName
  <2>4. session' \in [Conns -> Session]
    BY <1>1, <2>1, <2>3
  <2>5. QED
    BY <1>10, <2>4 DEF TypeOK, ReturnAside, Close, Move, Stages, Session
<1>11. ASSUME NEW f \in Flows, Commit(f) \/ CommitFails(f)
       PROVE  TypeOK'
  <2> DEFINE c == conn[f]
  <2>1. c \in Conns
    BY <1>11 DEF TypeOK, Places, Commit, CommitFails, WorkSucceeds, Holding, Inside
  <2>2. /\ [Sent(session[c]) EXCEPT !.pending = {}] \in Session
        /\ [[Sent(session[c]) EXCEPT !.pending = {}] EXCEPT !.unsent = Nobody] \in Session
    BY <1>1, <2>1, SentSession, FreshSession
  <2>3. session' = session \/ \E s \in Session : session' = [session EXCEPT ![c] = s]
    BY <1>11, <2>2 DEF Commit, CommitFails, EnterRelease
  <2>4. session' \in [Conns -> Session]
    <3>1. CASE session' = session
      BY <1>1, <3>1
    <3>2. CASE \E s \in Session : session' = [session EXCEPT ![c] = s]
      BY <1>1, <3>2
    <3>3. QED
      BY <2>3, <3>1, <3>2
  <2>5. session[c].pending \subseteq Writes
    BY <2>1, <1>1 DEF Session
  <2>6. durable' \subseteq Writes
    BY <1>11, <2>5 DEF TypeOK, Commit, CommitFails, Committed
  <2>7. QED
    BY <1>11, <2>4, <2>6 DEF TypeOK, Commit, CommitFails, EnterRelease, Move, Stages, Verdicts, Session
<1>12. ASSUME NEW f \in Flows, WorkFails(f)
       PROVE  TypeOK'
  BY <1>12 DEF TypeOK, WorkFails, Move, Stages, Verdicts
<1>13. ASSUME NEW f \in Flows, Rollback(f) \/ Clear(f)
       PROVE  TypeOK'
  <2> DEFINE c == conn[f]
  <2>1. c \in Conns
    BY <1>13 DEF TypeOK, Places, Rollback, Clear, Holding
  <2>2. /\ [Sent(session[c]) EXCEPT !.pending = {}] \in Session
        /\ [[Sent(session[c]) EXCEPT !.pending = {}] EXCEPT !.unsent = Nobody] \in Session
        /\ [session[c] EXCEPT !.unsent = Nobody] \in Session
        /\ [session[c] EXCEPT !.unsent = NoChange] \in Session
        /\ session[c] \in Session
        /\ Sent(session[c]) \in Session
    BY <1>1, <2>1, SentSession, FreshSession
  <2>3. \E s \in Session : session' = [session EXCEPT ![c] = s]
    BY <1>13, <2>2 DEF Rollback, Clear, EnterRelease
  <2>4. session' \in [Conns -> Session]
    BY <1>1, <2>3
  <2>5. QED
    BY <1>13, <2>4 DEF TypeOK, Rollback, Clear, EnterRelease, Move, Stages, Session
<1>14. CASE UNCHANGED vars
  BY <1>14 DEF TypeOK, vars
<1>15. QED
  BY <1>2, <1>3, <1>4, <1>5, <1>6, <1>7, <1>8, <1>9, <1>10, <1>11, <1>12, <1>13, <1>14
     DEF Next, Works, Proceeds

-----------------------------------------------------------------------------
(* A step of one flow and the others *)

\* The step is f's: it leaves the other flows, their sessions and their writes
\* alone, and takes connections from the pool only.
Local(f) ==
    /\ \A g \in Flows \ {f} :
          /\ at'[g] = at[g] /\ home'[g] = home[g] /\ actor'[g] = actor[g]
          /\ conn'[g] = conn[g] /\ aside'[g] = aside[g] /\ drop'[g] = drop[g]
          /\ stray'[g] = stray[g] /\ written'[g] = written[g] /\ verdict'[g] = verdict[g]
    /\ conn'[f] \in {NoConn, conn[f]} \/ Free(conn'[f])
    /\ aside'[f] \in {NoConn, aside[f]} \/ Free(aside'[f])
    /\ \A c \in Conns \ {conn[f], aside[f], conn'[f], aside'[f]} : session'[c] = session[c]
    /\ \A w \in Writes : w.flow # f => (w \in durable' <=> w \in durable)

\* What it gives back is as good as new.
Returned(f) ==
    /\ conn[f] # NoConn /\ conn'[f] # conn[f] => session'[conn[f]] = Fresh
    /\ aside[f] # NoConn /\ aside'[f] # aside[f] => session'[aside[f]] = Fresh

\* The connections of another flow are not touched.
LEMMA NotTouched ==
    ASSUME IInv, NEW f \in Flows, NEW g \in Flows \ {f}, Local(f)
    PROVE  /\ conn[g] # NoConn => conn[g] \in Conns \ {conn[f], aside[f], conn'[f], aside'[f]}
           /\ aside[g] # NoConn => aside[g] \in Conns \ {conn[f], aside[f], conn'[f], aside'[f]}
<1>1. Apart(g, f)
  BY DEF IInv
<1>2. conn[g] \in Conns \cup {NoConn} /\ aside[g] \in Conns \cup {NoConn}
  BY DEF IInv, TypeOK
<1>3. conn'[f] \in {NoConn, conn[f]} \/ (conn'[f] # conn[g] /\ conn'[f] # aside[g])
  BY DEF Local, Free
<1>4. aside'[f] \in {NoConn, aside[f]} \/ (aside'[f] # conn[g] /\ aside'[f] # aside[g])
  BY DEF Local, Free
<1>5. QED
  BY <1>1, <1>2, <1>3, <1>4 DEF Apart

\* What is said of another flow stays true.
LEMMA OthersKeep ==
    ASSUME IInv, TypeOK', NEW f \in Flows, NEW g \in Flows \ {f}, Local(f)
    PROVE  FlowInv(g)' /\ Apart(f, g)' /\ Apart(g, f)'
<1>1. /\ at'[g] = at[g] /\ home'[g] = home[g] /\ actor'[g] = actor[g]
      /\ conn'[g] = conn[g] /\ aside'[g] = aside[g] /\ drop'[g] = drop[g]
      /\ stray'[g] = stray[g] /\ written'[g] = written[g] /\ verdict'[g] = verdict[g]
  BY DEF Local
<1>2. /\ conn[g] # NoConn => session'[conn[g]] = session[conn[g]]
      /\ aside[g] # NoConn => session'[aside[g]] = session[aside[g]]
  BY NotTouched DEF Local
<1>3. KeptOf(g)' = KeptOf(g)
  <2>1. durable \subseteq Writes /\ durable' \subseteq Writes
    BY DEF IInv, TypeOK
  <2>2. QED
    BY <2>1 DEF Local, KeptOf
<1>4. /\ Identity(g)' = Identity(g) /\ Work(g)' = Work(g)
      /\ AsideName(g)' = AsideName(g)
  BY <1>1 DEF Identity, AsideName, UserAt, Work
<1>5. Places(g) /\ Identified(g) /\ Open(g) /\ Judged(g)
  BY DEF IInv, FlowInv
<1>6. Places(g)'
  BY <1>1, <1>5 DEF Places
<1>7. Identified(g)'
  BY <1>1, <1>2, <1>4, <1>5 DEF Identified, Places, Holding, Inside
<1>8. Open(g)'
  BY <1>1, <1>2, <1>4, <1>5 DEF Open, Places, Holding, Inside
<1>9. Judged(g)'
  BY <1>1, <1>3, <1>4, <1>5 DEF Judged, Admits
<1>10. Apart(f, g)' /\ Apart(g, f)'
  <2>1. /\ conn[g] # NoConn => conn[g] \notin {conn'[f], aside'[f]}
        /\ aside[g] # NoConn => aside[g] \notin {conn'[f], aside'[f]}
    BY NotTouched
  <2>2. QED
    BY <1>1, <2>1 DEF Apart
<1>11. QED
  BY <1>6, <1>7, <1>8, <1>9, <1>10 DEF FlowInv

\* So a step that is f's, and keeps what is said of f, keeps everything.
LEMMA OneFlowKeeps ==
    ASSUME IInv, TypeOK', NEW f \in Flows, Local(f), Returned(f), FlowInv(f)'
    PROVE  IInv'
<1>1. \A g \in Flows : FlowInv(g)'
  BY OthersKeep
<1>2. ASSUME NEW g \in Flows, NEW h \in Flows, g # h
      PROVE  Apart(g, h)'
  <2>1. CASE g = f \/ h = f
    BY <1>2, <2>1, OthersKeep
  <2>2. CASE g # f /\ h # f
    BY <1>2, <2>2 DEF IInv, Local, Apart
  <2>3. QED
    BY <2>1, <2>2
<1>3. ASSUME NEW c \in Conns, Free(c)'
      PROVE  session'[c] = Fresh
  <2>1. c # conn'[f] /\ c # aside'[f] /\ c # NoConn
    BY <1>3, PoolAssumption DEF Free
  <2>2. CASE c \in {conn[f], aside[f]}
    BY <2>1, <2>2 DEF Returned
  <2>3. CASE c \notin {conn[f], aside[f]}
    <3>1. Free(c)
      BY <1>3, <2>3 DEF Free, Local
    <3>2. session[c] = Fresh
      BY <3>1 DEF IInv, CleanPool
    <3>3. QED
      BY <2>1, <2>3, <3>2 DEF Local
  <2>4. QED
    BY <2>2, <2>3
<1>4. CleanPool'
  BY <1>3 DEF CleanPool
<1>5. QED
  BY <1>1, <1>2, <1>4 DEF IInv

-----------------------------------------------------------------------------
(* The steps of a flow *)

\* Beginning, waiting, branching, nesting and failing: no connection changes
\* hands and no session changes.
LEMMA QuietSteps ==
    ASSUME IInv, NEW f \in Flows,
           \/ Begin(f) \/ QueueTimeout(f) \/ Branch(f) \/ BranchRefused(f)
           \/ OpenInner(f) \/ CloseInner(f) \/ GoAside(f) \/ WorkFails(f)
    PROVE  Local(f) /\ Returned(f) /\ FlowInv(f)'
<1>1. UNCHANGED <<conn, aside, drop, written, session, durable>>
  BY DEF Begin, QueueTimeout, Branch, BranchRefused, OpenInner, CloseInner, GoAside, WorkFails
<1>2. Local(f) /\ Returned(f)
  BY <1>1 DEF IInv, TypeOK, Local, Returned, Move, Begin, QueueTimeout, Branch, BranchRefused,
     OpenInner, CloseInner, GoAside, WorkFails
<1>3. KeptOf(f)' = KeptOf(f)
  BY <1>1 DEF KeptOf
<1>4. at[f] # "idle" => /\ UNCHANGED <<home, actor>>
                        /\ Identity(f)' = Identity(f) /\ Work(f)' = Work(f)
  BY <1>1 DEF Begin, QueueTimeout, Branch, BranchRefused, OpenInner, CloseInner, GoAside,
     WorkFails, Identity, UserAt, Work
<1>5. /\ Places(f) /\ Identified(f) /\ Open(f) /\ Judged(f)
      /\ at[f] # "idle" => AsideName(f)' = AsideName(f)
      /\ at \in [Flows -> Stages] /\ verdict \in [Flows -> Verdicts] /\ stray \in [Flows -> BOOLEAN]
  BY <1>1, <1>4 DEF IInv, FlowInv, TypeOK, AsideName, UserAt
<1>6. CASE Begin(f)
  <2>1. at'[f] \in {"queued", "ended"} /\ at[f] = "idle"
    BY <1>5, <1>6 DEF Begin, Move
  <2>2. Judged(f)'
    BY <1>3, <1>5, <1>6, <2>1 DEF Judged, Begin, Move, Admits, Inside, IInv, TypeOK
  <2>3. QED
    BY <1>1, <1>2, <1>5, <2>1, <2>2 DEF FlowInv, Places, Identified, Open, Holding, Inside
<1>7. CASE QueueTimeout(f) \/ GoAside(f) \/ WorkFails(f)
  <2>1. /\ \/ at[f] = "queued" /\ at'[f] = "ended"
           \/ at[f] = "asideQueued" /\ at'[f] = "working"
           \/ at[f] = "working" /\ at'[f] \in {"asideQueued", "undoing"}
        /\ at[f] # "idle"
    BY <1>5, <1>7 DEF QueueTimeout, GoAside, WorkFails, Move
  <2>2. Judged(f)'
    BY <1>3, <1>4, <1>5, <1>7 DEF Judged, QueueTimeout, GoAside, WorkFails, Move, Admits, Inside
  <2>3. QED
    BY <1>1, <1>2, <1>4, <1>5, <2>1, <2>2 DEF FlowInv, Places, Identified, Open, Holding, Inside
<1>8. CASE Branch(f) \/ BranchRefused(f) \/ OpenInner(f) \/ CloseInner(f)
  <2>1. at' = at /\ verdict' = verdict /\ at[f] # "idle"
    BY <1>8 DEF Branch, BranchRefused, OpenInner, CloseInner
  <2>2. Judged(f)'
    BY <1>3, <1>4, <1>5, <1>8, <2>1 DEF Judged, Branch, BranchRefused, OpenInner, CloseInner,
       Admits, Inside
  <2>3. QED
    BY <1>1, <1>2, <1>4, <1>5, <2>1, <2>2 DEF FlowInv, Places, Identified, Open, Holding, Inside
<1>9. QED
  BY <1>6, <1>7, <1>8

\* A connection from the pool is clean, and then its borrower's.
LEMMA AcquireSteps ==
    ASSUME IInv, NEW f \in Flows, Acquire(f) \/ AcquireAside(f)
    PROVE  Local(f) /\ Returned(f) /\ FlowInv(f)'
<1>1. /\ Places(f) /\ Identified(f) /\ Open(f) /\ Judged(f) /\ TypeOK
      /\ session \in [Conns -> Session]
  BY DEF IInv, FlowInv, TypeOK, Session
<1>2. /\ UNCHANGED <<home, actor, drop, stray, written, verdict, durable>>
      /\ KeptOf(f)' = KeptOf(f) /\ Identity(f)' = Identity(f) /\ Work(f)' = Work(f)
  BY DEF Acquire, AcquireAside, KeptOf, Identity, UserAt, Work
<1>3. Fresh \in Session /\ Fresh.unsent = NoChange /\ Fresh.ident = Nobody /\ Fresh.pending = {}
  BY FreshSession DEF Fresh
<1>4. CASE Acquire(f)
  <2> DEFINE name == Identity(f)
  <2>1. PICK c \in Conns : /\ SourceOf[c] = home[f] /\ Free(c)
                           /\ conn' = [conn EXCEPT ![f] = c]
                           /\ session' = [session EXCEPT ![c] = Borrowed(@, name)]
    BY <1>4 DEF Acquire
  <2>2. /\ at[f] = "queued" /\ at'[f] = "working" /\ UNCHANGED aside
        /\ \A g \in Flows \ {f} : at'[g] = at[g]
    BY <1>1, <1>4 DEF Acquire, Move, TypeOK
  <2>3. /\ conn'[f] = c /\ c # NoConn /\ session'[c] = Borrowed(Fresh, name)
        /\ conn[f] = NoConn /\ aside[f] = NoConn
    BY <1>1, <2>1, <2>2, PoolAssumption DEF TypeOK, IInv, CleanPool, Places, Holding, Inside
  <2>4. Local(f) /\ Returned(f)
    BY <1>1, <1>2, <2>1, <2>2, <2>3 DEF Local, Returned, TypeOK
  <2>5. /\ Sent(session'[c]).ident = name
        /\ name = Nobody => session'[c].unsent = NoChange
        /\ session'[c].pending = {}
    <3>1. name \in Names \cup {Nobody} /\ name # NoChange
      BY <1>1, Identities
    <3> HIDE DEF name
    <3>2. QED
      BY <1>3, <2>3, <3>1, BorrowedSession, SentSession
  <2>6. session'[c].pending = Work(f)
    BY <1>1, <2>2, <2>5 DEF Work, Open
  <2>7. Places(f)' /\ Open(f)' /\ Judged(f)'
    BY <1>1, <1>2, <2>1, <2>2, <2>3, <2>6 DEF Places, Open, Judged, Admits, Holding, Inside
  <2>8. Identified(f)'
    BY <1>1, <1>2, <2>2, <2>3, <2>5 DEF Identified, Inside
  <2>9. QED
    BY <2>4, <2>7, <2>8 DEF FlowInv
<1>5. CASE AcquireAside(f)
  <2> DEFINE name(c) == UserAt(SourceOf[c], actor[f])
  <2>1. PICK c \in Conns : /\ SourceOf[c] # home[f] /\ Free(c)
                           /\ aside' = [aside EXCEPT ![f] = c]
                           /\ session' = [session EXCEPT ![c] = Sent(Borrowed(@, name(c)))]
    BY <1>5 DEF AcquireAside
  <2>2. /\ at[f] = "asideQueued" /\ at'[f] = "aside" /\ UNCHANGED conn
        /\ \A g \in Flows \ {f} : at'[g] = at[g]
    BY <1>1, <1>5 DEF AcquireAside, Move, TypeOK
  <2>3. /\ aside'[f] = c /\ c # NoConn /\ session'[c] = Sent(Borrowed(Fresh, name(c)))
        /\ conn[f] \in Conns /\ conn[f] # c /\ aside[f] = NoConn
        /\ session'[conn[f]] = session[conn[f]]
    BY <1>1, <2>1, <2>2, PoolAssumption DEF TypeOK, IInv, CleanPool, Places, Holding, Inside, Free
  <2>4. Local(f) /\ Returned(f)
    BY <1>1, <1>2, <2>1, <2>2, <2>3 DEF Local, Returned, TypeOK
  <2>5. AsideName(f)' = Nobody => session'[c].unsent = NoChange /\ session'[c].ident = Nobody
    <3>1. AsideName(f)' = name(c) /\ name(c) \in Names \cup {Nobody}
      BY <1>1, <1>2, <2>3, Identities DEF AsideName, UserAt
    <3>2. QED
      BY <1>3, <2>3, <3>1, BorrowedSession, SentSession
  <2>6. Places(f)' /\ Open(f)' /\ Judged(f)'
    BY <1>1, <1>2, <2>1, <2>2, <2>3 DEF Places, Open, Judged, Admits, Holding, Inside
  <2>7. Identified(f)'
    BY <1>1, <1>2, <2>2, <2>3, <2>5 DEF Identified, Inside
  <2>8. QED
    BY <2>4, <2>6, <2>7 DEF FlowInv
<1>6. QED
  BY <1>4, <1>5

\* What goes back to the pool has been cleaned, or is replaced.
LEMMA ReturnSteps ==
    ASSUME IInv, NEW f \in Flows, ReturnAside(f) \/ Close(f)
    PROVE  Local(f) /\ Returned(f) /\ FlowInv(f)'
<1>1. /\ Places(f) /\ Identified(f) /\ Open(f) /\ Judged(f) /\ TypeOK
      /\ session \in [Conns -> Session]
  BY DEF IInv, FlowInv, TypeOK, Session
<1>2. /\ UNCHANGED <<home, actor, stray, written, verdict, durable>>
      /\ KeptOf(f)' = KeptOf(f) /\ Identity(f)' = Identity(f) /\ Work(f)' = Work(f)
  BY DEF ReturnAside, Close, KeptOf, Identity, UserAt, Work
<1>3. CASE ReturnAside(f)
  <2> DEFINE c == aside[f]
  <2>1. /\ at[f] = "aside" /\ at'[f] = "working" /\ aside'[f] = NoConn
        /\ UNCHANGED <<conn, drop>>
        /\ \A g \in Flows \ {f} : at'[g] = at[g] /\ aside'[g] = aside[g]
    BY <1>1, <1>3 DEF ReturnAside, Move, TypeOK
  <2>2. c \in Conns /\ conn[f] \in Conns /\ conn[f] # c
    BY <1>1, <2>1 DEF Places, TypeOK, Holding, Inside
  <2>3. /\ session'[c] = Released(session[c], AsideName(f) # Nobody)
        /\ \A d \in Conns \ {c} : session'[d] = session[d]
    BY <1>1, <1>3, <2>2 DEF ReturnAside, AsideName
  <2>4. session'[c] = Fresh
    BY <1>1, <2>1, <2>2, <2>3, FreshSession DEF Released, Identified, TypeOK
  <2>5. Local(f) /\ Returned(f)
    BY <1>2, <2>1, <2>3, <2>4 DEF Local, Returned
  <2>6. FlowInv(f)'
    BY <1>1, <1>2, <2>1, <2>2, <2>3
       DEF FlowInv, Places, Identified, Open, Judged, Admits, Holding, Inside
  <2>7. QED
    BY <2>5, <2>6
<1>4. CASE Close(f)
  <2> DEFINE c == conn[f]
  <2>1. /\ at[f] = "closing" /\ at'[f] = "ended" /\ conn'[f] = NoConn /\ UNCHANGED aside
        /\ \A g \in Flows \ {f} : at'[g] = at[g] /\ conn'[g] = conn[g] /\ drop'[g] = drop[g]
    BY <1>1, <1>4 DEF Close, Move, TypeOK
  <2>2. c \in Conns
    BY <1>1, <2>1 DEF Places, TypeOK, Holding
  <2>3. /\ session'[c] = Released(session[c], drop[f])
        /\ \A d \in Conns \ {c} : session'[d] = session[d]
    BY <1>1, <1>4, <2>2 DEF Close
  <2>4. session'[c] = Fresh
    BY <1>1, <2>1, <2>2, <2>3, FreshSession DEF Released, Identified, TypeOK
  <2>5. Local(f) /\ Returned(f)
    BY <1>2, <2>1, <2>3, <2>4 DEF Local, Returned
  <2>6. FlowInv(f)'
    BY <1>1, <1>2, <2>1 DEF FlowInv, Places, Identified, Open, Judged, Admits, Holding, Inside
  <2>7. QED
    BY <2>5, <2>6
<1>5. QED
  BY <1>3, <1>4

\* A statement runs under the identifier of the unit, and its write is open work.
LEMMA WriteSteps ==
    ASSUME IInv, NEW f \in Flows, Write(f) \/ BranchWrites(f)
    PROVE  Local(f) /\ Returned(f) /\ FlowInv(f)'
<1> DEFINE c == conn[f]
<1>1. /\ Places(f) /\ Identified(f) /\ Open(f) /\ Judged(f) /\ TypeOK
      /\ session \in [Conns -> Session]
  BY DEF IInv, FlowInv, TypeOK, Session
<1>2. /\ UNCHANGED <<at, home, actor, conn, aside, drop, verdict, durable>>
      /\ KeptOf(f)' = KeptOf(f) /\ Identity(f)' = Identity(f) /\ AsideName(f)' = AsideName(f)
  BY DEF Write, BranchWrites, KeptOf, Identity, AsideName, UserAt
<1>3. c \in Conns /\ at[f] \in Holding
  BY <1>1 DEF Write, BranchWrites, Places, TypeOK, Holding, Inside
<1>4. PICK part \in Parts :
          /\ session' = [session EXCEPT ![c] = Executed(@, f, part)]
          /\ written' = [written EXCEPT ![f] = @ \cup {part}]
  BY DEF Write, BranchWrites, Parts
<1>5. /\ session'[c] = Executed(session[c], f, part)
      /\ \A d \in Conns \ {c} : session'[d] = session[d]
      /\ written'[f] = written[f] \cup {part}
      /\ \A g \in Flows \ {f} : written'[g] = written[g] /\ stray'[g] = stray[g]
  BY <1>1, <1>3, <1>4 DEF TypeOK, Write, BranchWrites
<1>6. Local(f) /\ Returned(f)
  BY <1>2, <1>5 DEF Local, Returned
<1>7. /\ session'[c].unsent = NoChange
      /\ session'[c].ident = Sent(session[c]).ident
      /\ Sent(session'[c]).ident = Sent(session[c]).ident
      /\ session'[c].pending
           = session[c].pending \cup {[flow |-> f, part |-> part, by |-> Sent(session[c]).ident]}
  <2>1. session[c] \in Session
    BY <1>1, <1>3
  <2>2. QED
    BY <2>1, <1>5, ExecutedSession, SentSession
<1>8. Places(f)'
  BY <1>1, <1>2 DEF Places
<1>9. Identified(f)'
  <2>1. aside[f] # NoConn => aside[f] \in Conns \ {c}
    BY <1>1, <1>3 DEF Places, TypeOK
  <2>2. session[c].unsent = NoChange => session'[c].ident = session[c].ident
    BY <1>1, <1>3, <1>7, SentSession
  <2>3. QED
    BY <1>1, <1>2, <1>5, <1>7, <2>1, <2>2 DEF Identified, Places, Holding, Inside
<1>10. Open(f)'
  <2>1. CASE at[f] \in Inside
    <3>1. Work(f)' = Work(f) \cup {[flow |-> f, part |-> part, by |-> Identity(f)]}
      BY <1>2, <1>5 DEF Work
    <3>2. QED
      BY <1>1, <1>2, <1>7, <2>1, <3>1 DEF Open, Identified, Inside
  <2>2. CASE at[f] \notin Inside
    BY <1>2, <1>3, <2>2 DEF Open, Holding
  <2>3. QED
    BY <2>1, <2>2
<1>11. Judged(f)'
  <2>1. verdict[f] \notin {"ok", "commitError"}
    BY <1>1 DEF Write, BranchWrites, Judged, Inside
  <2>2. QED
    BY <1>1, <1>2, <2>1 DEF Judged, Admits
<1>12. QED
  BY <1>6, <1>8, <1>9, <1>10, <1>11 DEF FlowInv

\* COMMIT keeps all that the unit wrote, in one step, or nothing.
LEMMA CommitSteps ==
    ASSUME IInv, TypeOK', NEW f \in Flows, Commit(f) \/ CommitFails(f)
    PROVE  Local(f) /\ Returned(f) /\ FlowInv(f)'
<1> DEFINE c == conn[f]
           s == session[c]
           t == session'[c]
<1>1. /\ Places(f) /\ Identified(f) /\ Open(f) /\ Judged(f) /\ TypeOK
      /\ session \in [Conns -> Session]
  BY DEF IInv, FlowInv, TypeOK, Session
<1>2. /\ UNCHANGED <<home, actor, conn, aside, stray, drop, written>>
      /\ Identity(f)' = Identity(f) /\ Work(f)' = Work(f)
  BY DEF Commit, CommitFails, Identity, UserAt, Work
<1>3. at[f] = "working" /\ ~stray[f]
  BY <1>1 DEF Commit, CommitFails, WorkSucceeds
<1>4. c \in Conns /\ s \in Session /\ s.pending = Work(f) /\ verdict[f] = "none"
      /\ KeptOf(f) = {} /\ aside[f] = NoConn
  BY <1>1, <1>3 DEF Places, TypeOK, Open, Judged, Holding, Inside
<1>5. /\ at'[f] \in {"clearing", "closing", "undoing"}
      /\ at'[f] = "clearing" => Identity(f) # Nobody
      /\ at'[f] = "closing" => Identity(f) = Nobody
      /\ verdict'[f] \in {"ok", "commitError"}
      /\ verdict'[f] = "ok" => durable' = durable \cup s.pending
      /\ durable' = durable \/ durable' = durable \cup s.pending
      /\ \A d \in Conns \ {c} : session'[d] = session[d]
      /\ \A g \in Flows \ {f} : at'[g] = at[g] /\ verdict'[g] = verdict[g]
  BY <1>1, <1>4 DEF Commit, CommitFails, Committed, EnterRelease, Move, TypeOK
<1>6. \A w \in Work(f) : w.flow = f
  BY DEF Work
<1>7. Local(f) /\ Returned(f)
  BY <1>2, <1>4, <1>5, <1>6 DEF Local, Returned
<1>8. Places(f)'
  BY <1>1, <1>2, <1>3, <1>4, <1>5 DEF Places, Holding, Inside
<1>9. Judged(f)'
  <2>1. KeptOf(f)' \in {{}, Work(f)}
    BY <1>4, <1>5, <1>6 DEF KeptOf
  <2>2. verdict'[f] = "ok" => KeptOf(f)' = Work(f)
    BY <1>4, <1>5, <1>6 DEF KeptOf
  <2>3. QED
    BY <1>1, <1>2, <1>3, <1>4, <1>5, <2>1, <2>2 DEF Judged, Admits, Inside
<1>10. Open(f)'
  BY <1>2, <1>5 DEF Open, Inside
<1>11. Identified(f)'
  <2> DEFINE u == [Sent(s) EXCEPT !.pending = {}]
  <2>1. /\ u.unsent = NoChange /\ u.ident = Sent(s).ident /\ u \in Session
        /\ Sent(u).ident = Sent(s).ident
        /\ [u EXCEPT !.unsent = Nobody] \in Session
        /\ [u EXCEPT !.unsent = Nobody].unsent = Nobody
    <3>1. Sent(s) \in Session /\ Sent(s).unsent = NoChange
      BY <1>4, SentSession
    <3>2. u \in Session /\ u.unsent = NoChange /\ u.ident = Sent(s).ident
      BY <3>1, FreshSession DEF Session
    <3> HIDE DEF u
    <3>3. /\ [u EXCEPT !.unsent = Nobody] \in Session
          /\ [u EXCEPT !.unsent = Nobody].unsent = Nobody
      BY <3>2, FreshSession DEF Session
    <3>4. QED
      BY <3>2, <3>3, SentSession
  <2>2. /\ Sent(s).ident = Identity(f)
        /\ Identity(f) = Nobody => s.unsent = NoChange
    BY <1>1, <1>3 DEF Identified, Inside
  <2>3. CASE at'[f] = "undoing"
    <3>1. t = s \/ t = u
      BY <1>1, <1>4, <2>3 DEF Commit, CommitFails, EnterRelease, Move, TypeOK
    <3>2. QED
      BY <1>2, <2>1, <2>2, <2>3, <3>1 DEF Identified, Inside
  <2>4. CASE at'[f] = "closing"
    <3>1. t = u /\ Identity(f) = Nobody
      BY <1>1, <1>4, <1>5, <2>4 DEF Commit, CommitFails, EnterRelease, Move, TypeOK
    <3>2. QED
      BY <1>2, <2>1, <2>2, <2>4, <3>1 DEF Identified, Inside
  <2>5. CASE at'[f] = "clearing"
    <3>1. t = [u EXCEPT !.unsent = Nobody]
      BY <1>1, <1>4, <1>5, <2>5 DEF Commit, CommitFails, EnterRelease, Move, TypeOK
    <3>2. Sent(t).ident = Nobody
      BY <1>1, <2>1, <3>1, SentSession, Identities
    <3>3. QED
      BY <1>2, <2>5, <3>2 DEF Identified, Inside
  <2>6. QED
    BY <1>5, <2>3, <2>4, <2>5
<1>12. QED
  BY <1>7, <1>8, <1>9, <1>10, <1>11 DEF FlowInv

\* After a rollback, or one that failed, the identifier is cleared; if that
\* fails the connection is dropped.
LEMMA EndSteps ==
    ASSUME IInv, NEW f \in Flows, Rollback(f) \/ Clear(f)
    PROVE  Local(f) /\ Returned(f) /\ FlowInv(f)'
<1> DEFINE c == conn[f]
           s == session[c]
           t == session'[c]
<1>1. /\ Places(f) /\ Identified(f) /\ Open(f) /\ Judged(f) /\ TypeOK
      /\ session \in [Conns -> Session]
  BY DEF IInv, FlowInv, TypeOK, Session
<1>2. /\ UNCHANGED <<home, actor, conn, aside, stray, written, verdict, durable>>
      /\ KeptOf(f)' = KeptOf(f) /\ Identity(f)' = Identity(f) /\ Work(f)' = Work(f)
  BY DEF Rollback, Clear, KeptOf, Identity, UserAt, Work
<1>3. /\ at[f] \in {"undoing", "clearing"} /\ at'[f] \in {"clearing", "closing"}
      /\ at[f] = "clearing" => at'[f] = "closing"
      /\ \A g \in Flows \ {f} : at'[g] = at[g] /\ drop'[g] = drop[g]
  BY <1>1 DEF Rollback, Clear, EnterRelease, Move, TypeOK
<1>4. c \in Conns /\ s \in Session /\ aside[f] = NoConn
  BY <1>1, <1>3 DEF Places, TypeOK, Holding
<1>5. \A d \in Conns \ {c} : session'[d] = session[d]
  BY <1>1, <1>4 DEF Rollback, Clear, EnterRelease
<1>6. Local(f) /\ Returned(f)
  BY <1>2, <1>3, <1>4, <1>5 DEF Local, Returned
<1>7. Places(f)' /\ Open(f)' /\ Judged(f)'
  BY <1>1, <1>2, <1>3 DEF Places, Open, Judged, Admits, Holding, Inside
<1>8. Identified(f)'
  <2>1. CASE Rollback(f)
    <3>1. PICK u \in {s, [Sent(s) EXCEPT !.pending = {}]} :
              EnterRelease(f, u) /\ drop' = drop
      BY <2>1 DEF Rollback
    <3>2. u \in Session /\ Sent(u).ident = Sent(s).ident /\ (s.unsent = NoChange => u.unsent = NoChange)
      BY <1>4, <3>1, SentSession, FreshSession DEF Session, Sent
    <3>3. t = IF Identity(f) # Nobody THEN [u EXCEPT !.unsent = Nobody] ELSE u
      BY <1>1, <1>4, <3>1 DEF EnterRelease
    <3>4. at'[f] = IF Identity(f) # Nobody THEN "clearing" ELSE "closing"
      BY <1>1, <3>1 DEF EnterRelease, Move, TypeOK
    <3>5. Sent(s).ident = Identity(f) /\ (Identity(f) = Nobody => s.unsent = NoChange)
      BY <1>1, <2>1 DEF Rollback, Identified
    <3>6. CASE Identity(f) # Nobody
      <4>1. [u EXCEPT !.unsent = Nobody] \in Session /\ [u EXCEPT !.unsent = Nobody].unsent = Nobody
        BY <3>2, FreshSession DEF Session
      <4>2. Sent(t).ident = Nobody
        BY <1>1, <3>3, <3>6, <4>1, SentSession, Identities
      <4>3. QED
        BY <1>2, <3>4, <3>6, <4>2 DEF Identified, Inside
    <3>7. CASE Identity(f) = Nobody
      <4>1. t.unsent = NoChange /\ t.ident = Nobody
        BY <1>4, <3>2, <3>3, <3>5, <3>7, SentSession
      <4>2. QED
        BY <1>2, <3>4, <3>7, <4>1 DEF Identified, Inside
    <3>8. QED
      BY <3>6, <3>7
  <2>2. CASE Clear(f)
    <3>1. at'[f] = "closing" /\ Sent(s).ident = Nobody
      BY <1>1, <1>3, <2>2 DEF Clear, Identified
    <3>2. t = Sent(s) \/ drop'[f]
      BY <1>1, <1>4, <2>2 DEF Clear, TypeOK
    <3>3. QED
      BY <1>2, <1>4, <3>1, <3>2, SentSession DEF Identified, Inside
  <2>3. QED
    BY <2>1, <2>2
<1>9. QED
  BY <1>6, <1>7, <1>8 DEF FlowInv

-----------------------------------------------------------------------------
(* The theorems *)

\* The invariant holds in every state.
LEMMA UnitInvariant == Spec => []IInv
<1>1. Init => IInv
  <2> SUFFICES ASSUME Init PROVE IInv
    OBVIOUS
  <2>1. TypeOK
    BY PoolAssumption, FreshSession DEF Init, TypeOK, Stages, Verdicts, Session
  <2>2. CleanPool
    BY DEF Init, CleanPool
  <2>3. ASSUME NEW f \in Flows
        PROVE  FlowInv(f)
    BY DEF Init, FlowInv, Places, Identified, Open, Judged, KeptOf, Holding, Inside
  <2>4. \A f, g \in Flows : Apart(f, g)
    BY DEF Init, Apart
  <2>5. QED
    BY <2>1, <2>2, <2>3, <2>4 DEF IInv
<1>2. IInv /\ [Next]_vars => IInv'
  <2> SUFFICES ASSUME IInv, [Next]_vars PROVE IInv'
    OBVIOUS
  <2>1. TypeOK'
    BY TypesKept DEF IInv, FlowInv
  <2>2. CASE UNCHANGED vars
    <3>1. \A f \in Flows : FlowInv(f)'
      BY <2>2 DEF IInv, FlowInv, Places, Identified, Open, Judged, KeptOf, Work, Identity,
         UserAt, AsideName, Admits, vars
    <3>2. CleanPool' /\ \A f, g \in Flows : f # g => Apart(f, g)'
      BY <2>2 DEF IInv, CleanPool, Free, Apart, vars
    <3>3. QED
      BY <2>1, <3>1, <3>2 DEF IInv
  <2>3. ASSUME NEW f \in Flows,
               Begin(f) \/ Works(f) \/ Proceeds(f) \/ BranchWrites(f) \/ BranchRefused(f)
        PROVE  IInv'
    <3>1. Local(f) /\ Returned(f) /\ FlowInv(f)'
      BY <2>1, <2>3, QuietSteps, AcquireSteps, ReturnSteps, WriteSteps, CommitSteps, EndSteps
         DEF Works, Proceeds
    <3>2. QED
      BY <2>1, <3>1, OneFlowKeeps
  <2>4. QED
    BY <2>2, <2>3 DEF Next
<1>3. QED
  BY <1>1, <1>2, PTL DEF Spec

\* The state keeps its types.
THEOREM TypeCorrect == Spec => []TypeOK
<1>1. IInv => TypeOK
  BY DEF IInv
<1>2. QED
  BY <1>1, UnitInvariant, PTL

\* A connection in the pool carries nobody's identity and nobody's open work,
\* whatever failed in the unit that had it, and whatever a branch that
\* outlived the unit still sent through it.
THEOREM PoolIsClean == Spec => []CleanPool
<1>1. IInv => CleanPool
  BY DEF IInv
<1>2. QED
  BY <1>1, UnitInvariant, PTL

\* A unit of work is kept whole when its caller is told so, not at all when it
\* is told of a failure, and whole or not at all when the answer of the COMMIT
\* was an error.
THEOREM UnitsAreAtomic == Spec => []AllOrNothing
<1>1. ASSUME IInv
      PROVE  AllOrNothing
  <2> SUFFICES ASSUME NEW f \in Flows
               PROVE  /\ verdict[f] = "ok" => Kept(f) = written[f]
                      /\ verdict[f] = "commitError" => Kept(f) \in {{}, written[f]}
                      /\ verdict[f] \notin {"ok", "commitError"} => Kept(f) = {}
    BY DEF AllOrNothing
  <2>1. Judged(f)
    BY <1>1 DEF IInv, FlowInv
  <2>2. KeptOf(f) = Work(f) => Kept(f) = written[f]
    <3>1. Kept(f) = {w.part : w \in KeptOf(f)}
      BY DEF Kept, KeptOf
    <3>2. {w.part : w \in Work(f)} = written[f]
      <4>1. \A w \in Work(f) : w.part \in written[f]
        BY DEF Work
      <4>2. ASSUME NEW p \in written[f]
            PROVE  \E w \in Work(f) : w.part = p
        <5>1. [flow |-> f, part |-> p, by |-> Identity(f)] \in Work(f)
          BY DEF Work
        <5>2. QED
          BY <5>1
      <4>3. QED
        BY <4>1, <4>2
    <3>3. QED
      BY <3>1, <3>2
  <2>3. KeptOf(f) = {} => Kept(f) = {}
    BY DEF Kept, KeptOf
  <2>4. QED
    BY <2>1, <2>2, <2>3 DEF Judged
<1>2. QED
  BY <1>1, UnitInvariant, PTL

\* The outer work of a nested unit that failed does not succeed: whoever called
\* it throws, or returns the failure on.
FailuresAreReturnedOn ==
    [][\A f \in Flows : inner[f] = "failed" => ~Commit(f) /\ ~CommitFails(f)]_vars

\* A unit is committed only when no unit nested in it has failed.
NestedFailed ==
    \A f \in Flows : inner[f] = "failed" => verdict[f] \notin {"ok", "commitError"}

\* "rolls back when its work returns a failed Result or throws" is true of a
\* nested unit, too, whose failure is returned on: departure 14 needs an outer
\* work that swallows it. Neither its own writes nor anything else of the outer
\* unit is then kept, whatever branches and whatever visits the work has.
THEOREM FailuresReturnedOnLeaveNothing ==
    Spec /\ FailuresAreReturnedOn => []FailedUnitLeavesNothing
<1>1. Init => NestedFailed
  BY DEF Init, NestedFailed
<1>2. IInv /\ NestedFailed /\ [Next]_vars
        /\ [\A f \in Flows : inner[f] = "failed" => ~Commit(f) /\ ~CommitFails(f)]_vars =>
          NestedFailed'
  <2> SUFFICES ASSUME IInv, NestedFailed, [Next]_vars,
                      [\A f \in Flows : inner[f] = "failed" =>
                            ~Commit(f) /\ ~CommitFails(f)]_vars
               PROVE  NestedFailed'
    OBVIOUS
  <2>0. inner \in [Flows -> {"none", "open", "ok", "failed"}] /\ verdict \in [Flows -> Verdicts]
    BY DEF IInv, TypeOK
  <2>1. CASE UNCHANGED <<inner, verdict>>
    BY <2>1 DEF NestedFailed
  <2>2. ASSUME NEW f \in Flows, Commit(f) \/ CommitFails(f) PROVE NestedFailed'
    <3>1. CASE UNCHANGED vars
      BY <2>1, <3>1 DEF vars
    <3>2. CASE inner[f] # "failed"
      BY <2>0, <2>2, <3>2 DEF Commit, CommitFails, NestedFailed
    <3>3. QED
      BY <2>2, <3>1, <3>2
  <2>3. ASSUME NEW f \in Flows, CloseInner(f) \/ OpenInner(f) PROVE NestedFailed'
    <3>1. verdict[f] = "none"
      BY <2>3 DEF IInv, FlowInv, Judged, Inside, CloseInner, OpenInner
    <3>2. QED
      BY <2>0, <2>3, <3>1 DEF CloseInner, OpenInner, NestedFailed
  <2>4. ASSUME NEW f \in Flows, Begin(f) \/ QueueTimeout(f) \/ WorkFails(f)
        PROVE  NestedFailed'
    BY <2>0, <2>4 DEF Begin, QueueTimeout, WorkFails, NestedFailed
  <2>5. ASSUME NEW f \in Flows,
               \/ Acquire(f) \/ Write(f) \/ Branch(f) \/ BranchWrites(f) \/ BranchRefused(f)
               \/ GoAside(f) \/ AcquireAside(f) \/ ReturnAside(f)
               \/ Rollback(f) \/ Clear(f) \/ Close(f)
        PROVE  NestedFailed'
    BY <2>1, <2>5 DEF Acquire, Write, Branch, BranchWrites, BranchRefused, GoAside,
       AcquireAside, ReturnAside, Rollback, Clear, Close
  <2>6. QED
    BY <2>1, <2>2, <2>3, <2>4, <2>5 DEF Next, Works, Proceeds, vars
<1>3. NestedFailed /\ AllOrNothing => FailedUnitLeavesNothing
  BY DEF NestedFailed, AllOrNothing, FailedUnitLeavesNothing
<1>4. QED
  BY <1>1, <1>2, <1>3, UnitInvariant, UnitsAreAtomic, PTL DEF Spec, FailuresAreReturnedOn

\* What is kept was written under the name its source has for the user of its
\* unit, and never without one where the source requires a user and has room
\* for a character of its name.
THEOREM WritesAreAttributed == Spec => []Attributed
<1>1. ASSUME IInv
      PROVE  Attributed
  <2> SUFFICES ASSUME NEW w \in durable
               PROVE  /\ w.by = Identity(w.flow)
                      /\ RoomForOne /\ home[w.flow] \in Enabled \cap Enforced => w.by # Nobody
    BY DEF Attributed
  <2> DEFINE f == w.flow
  <2>1. w \in Writes /\ f \in Flows /\ actor[f] \in Users \cup {Nobody}
    BY <1>1 DEF IInv, TypeOK, Writes
  <2>2. Judged(f) /\ w \in KeptOf(f)
    BY <1>1, <2>1 DEF IInv, FlowInv, KeptOf
  <2>3. w \in Work(f) /\ verdict[f] \in {"ok", "commitError"}
    BY <2>2 DEF Judged
  <2>4. w.by = Identity(f)
    BY <2>3 DEF Work
  <2>5. Admits(home[f], actor[f])
    BY <2>2, <2>3 DEF Judged, Inside
  <2>6. RoomForOne /\ home[f] \in Enabled \cap Enforced => Identity(f) # Nobody
    BY <2>1, <2>5 DEF RoomForOne, Admits, Identity, UserAt
  <2>7. QED
    BY <2>4, <2>6
<1>2. QED
  BY <1>1, UnitInvariant, PTL
=============================================================================
