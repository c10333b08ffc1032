------------------------- MODULE ClusterPrimaryProofs -------------------------
(***************************************************************************)
(* Proofs about ClusterPrimary, for every number of workers, every cap and *)
(* every window: one leader at most, the primary knows it, the cap of the  *)
(* respawns holds over every window, and no worker outlives the primary.   *)
(* Nothing but the cap loses the leader, or shrinks the pool.              *)
(***************************************************************************)
EXTENDS ClusterPrimary, FiniteSetTheorems, SequenceTheorems, TLAPS

\* What respawnTimestamps has kept of the history: its latest part, and what
\* is missing is older than the window.
Dropped == Len(log) - Len(respawnTimestamps)

Recorded ==
    /\ Dropped \in Nat
    /\ \A j \in 1..Len(respawnTimestamps) : respawnTimestamps[j] = log[Dropped + j]
    /\ \A i \in 1..Dropped : now - log[i] > Window

\* Nothing is alive once the wait for the workers is over.
PoolDown == phase \in {"closing", "exited"} => alive = {}

-----------------------------------------------------------------------------
(* Types *)

\* What dropping the first n timestamps returns.
LEMMA KeptIs ==
    ASSUME TypeOK, NEW n \in 0..Len(respawnTimestamps)
    PROVE  /\ Kept(n) \in Seq(0..MaxTime)
           /\ Len(Kept(n)) = Len(respawnTimestamps) - n
           /\ \A j \in 1..Len(Kept(n)) : Kept(n)[j] = respawnTimestamps[n + j]
<1>1. respawnTimestamps \in Seq(0..MaxTime) /\ Len(respawnTimestamps) \in Nat
  BY DEF TypeOK
<1>2. \A j \in 1..Len(respawnTimestamps) : respawnTimestamps[j] \in 0..MaxTime
  BY <1>1, ElementOfSeq
<1>3. QED
  BY <1>1, <1>2, SMTT(30) DEF Kept

\* Every step keeps the types.
LEMMA TypeStep == TypeOK /\ [Next]_vars => TypeOK'
<1> SUFFICES ASSUME TypeOK, [Next]_vars PROVE TypeOK'
  OBVIOUS
<1> USE ClusterAssumption
<1>1. ASSUME NEW w \in 1..lastId, WorkerDies(w) PROVE TypeOK'
  <2>1. deaths' \in 0..MaxDeaths
    BY <1>1 DEF WorkerDies, TypeOK
  <2>2. QED
    BY <1>1, <2>1 DEF WorkerDies, TypeOK
<1>2. ASSUME NEW w \in 1..lastId, ExitInShutdown(w) PROVE TypeOK'
  BY <1>2 DEF ExitInShutdown, ExitOf, Remove, TypeOK
<1>3. ASSUME NEW w \in 1..lastId, ExitNotReplaced(w) PROVE TypeOK'
  BY <1>3 DEF ExitNotReplaced, ExitOf, Remove, Forget, NoLeader, TypeOK
<1>4. ASSUME NEW w \in 1..lastId, ExitRateLimited(w) PROVE TypeOK'
  <2>1. respawnTimestamps' \in Seq(0..MaxTime)
    BY <1>4, KeptIs DEF ExitRateLimited
  <2>2. QED
    BY <1>4, <2>1 DEF ExitRateLimited, ExitOf, Remove, Forget, NoLeader, TypeOK
<1>5. ASSUME NEW w \in 1..lastId, ExitReplaced(w) PROVE TypeOK'
  <2>1. PICK n \in 0..Len(respawnTimestamps) : respawnTimestamps' = Append(Kept(n), now)
    BY <1>5 DEF ExitReplaced
  <2>2. now \in 0..MaxTime /\ Kept(n) \in Seq(0..MaxTime) /\ log \in Seq(0..MaxTime)
    BY KeptIs DEF TypeOK
  <2>3. respawnTimestamps' \in Seq(0..MaxTime) /\ log' \in Seq(0..MaxTime)
    BY <1>5, <2>1, <2>2 DEF ExitReplaced
  <2>4. /\ lastId' \in Nat
        /\ alive' \subseteq live'
        /\ live' \subseteq 1..lastId'
        /\ leaderId' \in 0..lastId'
    BY <1>5 DEF ExitReplaced, ExitOf, Replace, TypeOK
  <2>5. wasLeader(w) \in BOOLEAN
    BY DEF wasLeader
  <2>6. flag' \in [1..lastId' -> BOOLEAN]
    BY <1>5, <2>5 DEF ExitReplaced, Replace, TypeOK
  <2>7. QED
    BY <1>5, <2>3, <2>4, <2>6 DEF ExitReplaced, TypeOK
<1>6. CASE Shutdown
  BY <1>6 DEF Shutdown, pool, TypeOK
<1>7. CASE Drained
  BY <1>7 DEF Drained, pool, TypeOK
<1>8. CASE Timeout
  BY <1>8 DEF Timeout, TypeOK
<1>9. CASE Exit
  BY <1>9 DEF Exit, pool, TypeOK
<1>10. CASE Tick
  BY <1>10 DEF Tick, pool, TypeOK
<1>11. CASE UNCHANGED vars
  BY <1>11 DEF vars, TypeOK
<1>12. QED
  BY <1>1, <1>2, <1>3, <1>4, <1>5, <1>6, <1>7, <1>8, <1>9, <1>10, <1>11 DEF Next

\* The pool that startPrimary() forks has the types.
LEMMA TypeInit == Init => TypeOK
BY ClusterAssumption DEF Init, TypeOK

\* The types hold in every reachable state.
THEOREM TypeCorrect == Spec => []TypeOK
BY TypeInit, TypeStep, PTL DEF Spec

-----------------------------------------------------------------------------
(* The leader *)

\* Every step keeps the primary's knowledge of the leader.
LEMMA LeaderStep == TypeOK /\ LeaderKnown /\ [Next]_vars => LeaderKnown'
<1> SUFFICES ASSUME TypeOK, LeaderKnown, [Next]_vars PROVE LeaderKnown'
  OBVIOUS
<1>0. \A w \in live : w \in 1..lastId /\ w # NoLeader
  BY DEF TypeOK, NoLeader
<1>1. ASSUME NEW w \in 1..lastId, WorkerDies(w) PROVE LeaderKnown'
  BY <1>1 DEF WorkerDies, LeaderKnown, shuttingDown
<1>2. ASSUME NEW w \in 1..lastId, ExitInShutdown(w) PROVE LeaderKnown'
  BY <1>2 DEF ExitInShutdown, Remove, LeaderKnown, shuttingDown
<1>3. ASSUME NEW w \in 1..lastId, Remove(w), leaderId' = Forget(w), phase' = phase
      PROVE  LeaderKnown'
  <2>1. CASE w = leaderId
    BY <1>0, <1>3, <2>1 DEF Remove, Forget, wasLeader, LeaderKnown
  <2>2. CASE w # leaderId
    BY <1>0, <1>3, <2>2 DEF Remove, Forget, wasLeader, LeaderKnown, shuttingDown
  <2>3. QED
    BY <2>1, <2>2
<1>4. ASSUME NEW w \in 1..lastId, ExitReplaced(w) PROVE LeaderKnown'
  <2>1. Replace(w, w = leaderId) /\ phase' = phase
    BY <1>4 DEF ExitReplaced, wasLeader
  <2>2. /\ lastId \in Nat /\ leaderId \in 0..lastId
        /\ live' = (live \ {w}) \cup {lastId + 1}
        /\ leaderId' = IF w = leaderId THEN lastId + 1 ELSE leaderId
        /\ flag'[lastId + 1] = (w = leaderId)
    BY <2>1 DEF Replace, TypeOK
  <2>3. \A v \in 1..lastId : flag'[v] = flag[v]
    BY <2>1, <2>2 DEF Replace
  <2>4. CASE w = leaderId
    BY <1>0, <2>2, <2>3, <2>4 DEF LeaderKnown
  <2>5. CASE w # leaderId
    <3>1. \A v \in live' : flag'[v] <=> v = leaderId'
      <4>1. leaderId # lastId + 1
        BY <2>2
      <4>2. \A v \in live : flag'[v] <=> v = leaderId'
        BY <1>0, <2>2, <2>3, <2>5 DEF LeaderKnown
      <4>3. QED
        BY <2>2, <2>5, <4>1, <4>2
    <3>2. QED
      BY <2>1, <2>2, <2>5, <3>1 DEF LeaderKnown, shuttingDown
  <2>6. QED
    BY <2>4, <2>5
<1>5. CASE Shutdown \/ Drained \/ Timeout \/ Exit \/ Tick
  BY <1>5 DEF Shutdown, Drained, Timeout, Exit, Tick, pool, LeaderKnown, shuttingDown
<1>6. CASE UNCHANGED vars
  BY <1>6 DEF vars, LeaderKnown, shuttingDown
<1>7. QED
  BY <1>1, <1>2, <1>3, <1>4, <1>5, <1>6 DEF Next, ExitNotReplaced, ExitRateLimited

\* The leader the primary remembers is the live worker with the flag, so an
\* exit of the leader is always recognised as one.
THEOREM LeaderIsKnown == Spec => []LeaderKnown
<1>1. Init => LeaderKnown
  <2> SUFFICES ASSUME Init PROVE LeaderKnown
    OBVIOUS
  <2>1. \A w \in 1..WorkerCount : flag[w] = (w = 1)
    BY DEF Init
  <2>2. live = 1..WorkerCount /\ leaderId = 1 /\ 1 \in 1..WorkerCount
    BY ClusterAssumption DEF Init
  <2>3. QED
    BY <2>1, <2>2 DEF LeaderKnown
<1>2. QED
  BY <1>1, TypeInit, TypeStep, LeaderStep, PTL DEF Spec

\* Never two processes with CLUSTER_LEADER=true, whatever crashes and however
\* late the primary learns of it.
THEOREM OneLeader == Spec => []OneLeaderProcess
<1>1. TypeOK /\ LeaderKnown => OneLeaderProcess
  BY DEF TypeOK, LeaderKnown, OneLeaderProcess
<1>2. QED
  BY <1>1, TypeCorrect, LeaderIsKnown, PTL

-----------------------------------------------------------------------------
(* The cap of the respawns *)

\* Every step keeps the record of the respawns and their cap.
LEMMA CapStep == TypeOK /\ Recorded /\ RespawnCap /\ [Next]_vars => Recorded' /\ RespawnCap'
<1> SUFFICES ASSUME TypeOK, Recorded, RespawnCap, [Next]_vars
             PROVE  Recorded' /\ RespawnCap'
  OBVIOUS
<1> USE ClusterAssumption
<1>a. respawnTimestamps \in Seq(0..MaxTime) /\ log \in Seq(0..MaxTime) /\ now \in 0..MaxTime
  BY DEF TypeOK
<1>b. \A i \in 1..Len(log) : log[i] \in 0..MaxTime
  BY <1>a, ElementOfSeq
<1>c. /\ Len(respawnTimestamps) \in Nat /\ Len(log) \in Nat
      /\ DOMAIN log = 1..Len(log)
  BY <1>a
<1>0. /\ now \in 0..MaxTime
      /\ Len(respawnTimestamps) \in Nat /\ Len(log) \in Nat
      /\ \A i \in 1..Len(log) : log[i] \in 0..MaxTime
      /\ DOMAIN log = 1..Len(log)
  BY <1>a, <1>b, <1>c
<1>1. CASE UNCHANGED <<respawnTimestamps, log, now>>
  BY <1>1 DEF Recorded, RespawnCap, Dropped
<1>2. CASE Tick
  <2>1. respawnTimestamps' = respawnTimestamps /\ log' = log /\ now' \in Nat /\ now' >= now
    BY <1>0, <1>2 DEF Tick
  <2>2. \A i \in 1..Dropped : now' - log[i] > Window
    <3> SUFFICES ASSUME NEW i \in 1..Dropped PROVE now' - log[i] > Window
      OBVIOUS
    <3>1. now - log[i] > Window
      BY DEF Recorded
    <3>2. i \in 1..Len(log)
      BY <1>0 DEF Recorded, Dropped
    <3>3. log[i] \in 0..MaxTime
      BY <1>0, <3>2
    <3>4. QED
      BY <1>0, <2>1, <3>1, <3>3
  <2>3. QED
    BY <2>1, <2>2 DEF Recorded, RespawnCap, Dropped
<1>3. ASSUME NEW n \in 0..Len(respawnTimestamps), Shifts(n)
      PROVE  \A i \in 1..(Dropped + n) : now - log[i] > Window
  <2> SUFFICES ASSUME NEW i \in 1..(Dropped + n) PROVE now - log[i] > Window
    OBVIOUS
  <2>1. Dropped \in Nat /\ Dropped + n <= Len(log)
    BY <1>0 DEF Recorded, Dropped
  <2>2. CASE i <= Dropped
    BY <2>1, <2>2 DEF Recorded
  <2>3. CASE i > Dropped
    <3>1. i - Dropped \in 1..n
      BY <2>1, <2>3
    <3>2. respawnTimestamps[i - Dropped] = log[Dropped + (i - Dropped)]
      <4>1. i - Dropped \in 1..Len(respawnTimestamps)
        BY <1>0, <3>1
      <4>2. QED
        BY <4>1 DEF Recorded
    <3>3. respawnTimestamps[i - Dropped] < now - Window
      BY <1>3, <3>1 DEF Shifts
    <3>4. log[i] \in 0..MaxTime /\ log[i] = respawnTimestamps[i - Dropped]
      BY <1>0, <2>1, <3>2
    <3>5. QED
      BY <1>0, <3>3, <3>4
  <2>4. QED
    BY <2>1, <2>2, <2>3
<1>4. ASSUME NEW w \in 1..lastId, ExitRateLimited(w) PROVE Recorded' /\ RespawnCap'
  <2>1. PICK n \in 0..Len(respawnTimestamps) : Shifts(n) /\ respawnTimestamps' = Kept(n)
    BY <1>4 DEF ExitRateLimited
  <2>2. log' = log /\ now' = now
    BY <1>4 DEF ExitRateLimited
  <2>3. /\ Len(respawnTimestamps') = Len(respawnTimestamps) - n
        /\ \A j \in 1..Len(respawnTimestamps') : respawnTimestamps'[j] = respawnTimestamps[n + j]
    BY <2>1, KeptIs
  <2>4. Dropped' = Dropped + n /\ Dropped' \in Nat
    BY <1>0, <2>2, <2>3 DEF Recorded, Dropped
  <2>5. \A j \in 1..Len(respawnTimestamps') : respawnTimestamps'[j] = log'[Dropped' + j]
    <3> SUFFICES ASSUME NEW j \in 1..Len(respawnTimestamps') PROVE respawnTimestamps'[j] = log'[Dropped' + j]
      OBVIOUS
    <3>1. n + j \in 1..Len(respawnTimestamps) /\ respawnTimestamps'[j] = respawnTimestamps[n + j]
      <4>1. Len(respawnTimestamps') = Len(respawnTimestamps) - n /\ n \in Nat
        BY <2>3
      <4>2. n + j \in 1..Len(respawnTimestamps)
        BY <1>0, <4>1
      <4>3. QED
        BY <2>3, <4>2
    <3>2. respawnTimestamps[n + j] = log[Dropped + (n + j)] /\ Dropped \in Nat
      BY <3>1 DEF Recorded
    <3>3. Dropped' + j = Dropped + (n + j)
      BY <1>0, <2>3, <2>4, <3>2
    <3>4. QED
      BY <2>2, <3>1, <3>2, <3>3
  <2>6. QED
    BY <1>3, <2>1, <2>2, <2>4, <2>5 DEF Recorded, RespawnCap
<1>5. ASSUME NEW w \in 1..lastId, ExitReplaced(w) PROVE Recorded' /\ RespawnCap'
  <2>1. PICK n \in 0..Len(respawnTimestamps) :
            /\ Shifts(n)
            /\ Len(Kept(n)) < RespawnMax
            /\ respawnTimestamps' = Append(Kept(n), now)
    BY <1>5 DEF ExitReplaced
  <2>2. log' = Append(log, now) /\ now' = now
    BY <1>5 DEF ExitReplaced
  <2>3. /\ Kept(n) \in Seq(0..MaxTime)
        /\ Len(Kept(n)) = Len(respawnTimestamps) - n
        /\ \A j \in 1..Len(Kept(n)) : Kept(n)[j] = respawnTimestamps[n + j]
    BY KeptIs
  <2>4. /\ Len(respawnTimestamps') = Len(respawnTimestamps) - n + 1
        /\ respawnTimestamps'[Len(respawnTimestamps')] = now
        /\ \A j \in 1..(Len(respawnTimestamps) - n) : respawnTimestamps'[j] = respawnTimestamps[n + j]
    BY <1>0, <2>1, <2>3
  <2>5. /\ Len(log') = Len(log) + 1
        /\ log'[Len(log) + 1] = now
        /\ \A i \in 1..Len(log) : log'[i] = log[i]
        /\ DOMAIN log' = 1..(Len(log) + 1)
    BY <1>a, <1>0, <2>2
  <2>6. Dropped' = Dropped + n /\ Dropped \in Nat /\ Dropped + Len(respawnTimestamps) = Len(log)
    BY <1>0, <2>4, <2>5 DEF Recorded, Dropped
  <2>7. \A j \in 1..Len(respawnTimestamps') : respawnTimestamps'[j] = log'[Dropped' + j]
    <3> SUFFICES ASSUME NEW j \in 1..Len(respawnTimestamps') PROVE respawnTimestamps'[j] = log'[Dropped' + j]
      OBVIOUS
    <3>1. CASE j = Len(respawnTimestamps')
      <4>1. Dropped' + j = Len(log) + 1
        BY <1>0, <2>5, <2>6, <3>1 DEF Dropped
      <4>2. QED
        BY <2>4, <2>5, <3>1, <4>1
    <3>2. CASE j # Len(respawnTimestamps')
      <4>1. n + j \in 1..Len(respawnTimestamps) /\ respawnTimestamps'[j] = respawnTimestamps[n + j]
        BY <1>0, <2>4, <3>2
      <4>2. respawnTimestamps[n + j] = log[Dropped + (n + j)]
        BY <4>1 DEF Recorded
      <4>3. Dropped' + j = Dropped + (n + j) /\ Dropped' + j \in 1..Len(log)
        BY <1>0, <2>6, <4>1
      <4>4. QED
        BY <2>5, <4>1, <4>2, <4>3
    <3>3. QED
      BY <3>1, <3>2
  <2>8. \A i \in 1..Dropped' : now' - log'[i] > Window
    <3>1. \A i \in 1..(Dropped + n) : i \in 1..Len(log)
      BY <1>0, <2>6
    <3>2. QED
      BY <1>3, <2>1, <2>2, <2>5, <2>6, <3>1
  <2>9. RespawnCap'
    <3> SUFFICES ASSUME NEW i \in 1..(Len(log) + 1), i + RespawnMax \in 1..(Len(log) + 1)
                 PROVE  log'[i + RespawnMax] - log'[i] > Window
      BY <2>5 DEF RespawnCap
    <3>1. i \in 1..Len(log)
      BY <1>0
    <3>2. CASE i + RespawnMax \in 1..Len(log)
      BY <1>0, <2>5, <3>1, <3>2 DEF RespawnCap
    <3>3. CASE i + RespawnMax = Len(log) + 1
      <4>1. i \in 1..(Dropped + n)
        BY <1>0, <2>1, <2>3, <2>6, <3>3
      <4>2. now - log[i] > Window
        BY <1>3, <2>1, <4>1
      <4>3. QED
        BY <2>5, <3>1, <3>3, <4>2
    <3>4. QED
      BY <1>0, <3>2, <3>3
  <2>10. QED
    BY <2>6, <2>7, <2>8, <2>9 DEF Recorded
<1>6. QED
  BY <1>1, <1>2, <1>4, <1>5
     DEF Next, vars, WorkerDies, ExitInShutdown, ExitNotReplaced, Shutdown, Drained, Timeout, Exit

\* However the exits and the clock interleave, RespawnMax + 1 respawns in a
\* row never fit into a window.
THEOREM RespawnsAreCapped == Spec => []RespawnCap
<1>1. Init => Recorded /\ RespawnCap
  BY ClusterAssumption DEF Init, Recorded, RespawnCap, Dropped
<1>2. QED
  BY <1>1, TypeInit, TypeStep, CapStep, PTL DEF Spec

-----------------------------------------------------------------------------
(* The end of the pool *)

\* Every step keeps a pool that is down, down.
LEMMA DownStep == TypeOK /\ PoolDown /\ [Next]_vars => PoolDown'
<1> SUFFICES ASSUME TypeOK, PoolDown, [Next]_vars PROVE PoolDown'
  OBVIOUS
<1>1. ASSUME NEW w \in 1..lastId, ExitReplaced(w) PROVE PoolDown'
  BY <1>1 DEF ExitReplaced, MayRespawn, shuttingDown, PoolDown
<1>2. CASE Drained \/ Timeout
  BY <1>2 DEF Drained, Timeout, pool, TypeOK, PoolDown
<1>3. QED
  BY <1>1, <1>2
     DEF Next, vars, pool, WorkerDies, ExitInShutdown, ExitNotReplaced, ExitRateLimited,
         Remove, Shutdown, Exit, Tick, PoolDown

\* The primary never exits before its last worker process.
THEOREM NothingLeftBehind == Spec => []NoOrphans
<1>1. Init => PoolDown
  BY DEF Init, PoolDown
<1>2. PoolDown => NoOrphans
  BY DEF PoolDown, NoOrphans
<1>3. QED
  BY <1>1, <1>2, TypeInit, TypeStep, DownStep, PTL DEF Spec

-----------------------------------------------------------------------------
(* What only the cap takes from the pool *)

\* The exit of the leader never meets the cap (README, departure 13).
CapSparesLeader == [][\A w \in 1..lastId : wasLeader(w) => ~ExitRateLimited(w)]_vars

\* A pool that is kept up has its leader.
Led == respawn /\ ~shuttingDown => leaderId \in live

\* Every other step keeps the leader, or begins the shutdown.
LEMMA LedStep ==
    TypeOK /\ Led /\ [Next]_vars /\ [\A w \in 1..lastId : wasLeader(w) => ~ExitRateLimited(w)]_vars
        => Led'
<1> SUFFICES ASSUME TypeOK, Led, [Next]_vars,
                    [\A w \in 1..lastId : wasLeader(w) => ~ExitRateLimited(w)]_vars
             PROVE  Led'
  OBVIOUS
<1>1. ASSUME NEW w \in 1..lastId, ExitRateLimited(w) PROVE Led'
  <2>1. CASE w = leaderId
    <3>1. UNCHANGED vars
      BY <1>1, <2>1 DEF wasLeader
    <3>2. QED
      BY <3>1 DEF vars, Led, shuttingDown
  <2>2. CASE w # leaderId
    BY <1>1, <2>2 DEF ExitRateLimited, Remove, Forget, wasLeader, Led, shuttingDown
  <2>3. QED
    BY <2>1, <2>2
<1>2. ASSUME NEW w \in 1..lastId, ExitReplaced(w) PROVE Led'
  <2>1. Replace(w, w = leaderId) /\ UNCHANGED <<respawn, phase>>
    BY <1>2 DEF ExitReplaced, wasLeader
  <2>2. QED
    BY <2>1 DEF Replace, Led, shuttingDown
<1>3. ASSUME NEW w \in 1..lastId, WorkerDies(w) \/ ExitInShutdown(w) \/ ExitNotReplaced(w)
      PROVE  Led'
  <2>1. CASE WorkerDies(w)
    <3>1. UNCHANGED <<respawn, live, leaderId, phase>>
      BY <2>1 DEF WorkerDies
    <3>2. QED
      BY <3>1 DEF Led, shuttingDown
  <2>2. CASE ExitInShutdown(w) \/ ExitNotReplaced(w)
    <3>1. UNCHANGED <<respawn, phase>> /\ (shuttingDown \/ ~respawn)
      BY <2>2 DEF ExitInShutdown, ExitNotReplaced
    <3>2. QED
      BY <3>1 DEF Led, shuttingDown
  <2>3. QED
    BY <1>3, <2>1, <2>2
<1>4. CASE Shutdown \/ Drained \/ Timeout \/ Exit \/ Tick
  <2>1. CASE Shutdown \/ Drained \/ Timeout \/ Exit
    BY <2>1 DEF Shutdown, Drained, Timeout, Exit, Led, shuttingDown
  <2>2. CASE Tick
    <3>1. UNCHANGED <<respawn, live, leaderId, phase>>
      BY <2>2 DEF Tick, pool
    <3>2. QED
      BY <3>1 DEF Led, shuttingDown
  <2>3. QED
    BY <1>4, <2>1, <2>2
<1>5. CASE UNCHANGED vars
  BY <1>5 DEF vars, Led, shuttingDown
<1>6. QED
  BY <1>1, <1>2, <1>3, <1>4, <1>5 DEF Next

\* The comment of the primary, "keeps exactly one worker marked as the
\* scheduler leader", is true as long as no exit of a leader meets the cap:
\* after every respawn the pool has its leader.
THEOREM OnlyTheCapLosesTheLeader == Spec /\ CapSparesLeader => RespawnedPoolHasLeader
<1>1. Init => Led
  BY ClusterAssumption DEF Init, Led
<1>2. TypeOK /\ Led /\ Led' /\ [Next]_vars => [log' # log => leaderId' \in live']_vars
  <2> SUFFICES ASSUME TypeOK, Led', [Next]_vars, log' # log PROVE leaderId' \in live'
    OBVIOUS
  <2>1. PICK w \in 1..lastId : ExitReplaced(w)
    BY DEF Next, vars, WorkerDies, ExitInShutdown, ExitNotReplaced, ExitRateLimited, Shutdown,
           Drained, Timeout, Exit, Tick
  <2>2. respawn' /\ ~shuttingDown'
    BY <2>1 DEF ExitReplaced, MayRespawn, shuttingDown
  <2>3. QED
    BY <2>2 DEF Led
<1>3. QED
  BY <1>1, <1>2, LedStep, TypeCorrect, PTL DEF Spec, CapSparesLeader, RespawnedPoolHasLeader

\* No exit meets the cap.
CapNotMet == [][\A w \in 1..lastId : ~ExitRateLimited(w)]_vars

\* The pool that is kept up has all its workers.
Full == respawn /\ ~shuttingDown => IsFiniteSet(live) /\ Cardinality(live) = WorkerCount

\* Every step that does not meet the cap keeps the pool full.
LEMMA FullStep ==
    TypeOK /\ Full /\ [Next]_vars /\ [\A w \in 1..lastId : ~ExitRateLimited(w)]_vars => Full'
<1> SUFFICES ASSUME TypeOK, Full, [Next]_vars, [\A w \in 1..lastId : ~ExitRateLimited(w)]_vars
             PROVE  Full'
  OBVIOUS
<1>1. ASSUME NEW w \in 1..lastId, ExitReplaced(w) PROVE Full'
  <2>1. /\ live' = (live \ {w}) \cup {lastId + 1}
        /\ w \in live /\ lastId + 1 \notin live
        /\ respawn /\ ~shuttingDown
    BY <1>1 DEF ExitReplaced, ExitOf, MayRespawn, Replace, TypeOK
  <2>2. IsFiniteSet(live) /\ Cardinality(live) = WorkerCount
    BY <2>1 DEF Full
  <2>3. /\ IsFiniteSet(live \ {w})
        /\ Cardinality(live \ {w}) = WorkerCount - 1
    BY <2>1, <2>2, FS_RemoveElement
  <2>4. /\ IsFiniteSet((live \ {w}) \cup {lastId + 1})
        /\ Cardinality((live \ {w}) \cup {lastId + 1}) = (WorkerCount - 1) + 1
    BY <2>1, <2>3, FS_AddElement
  <2>5. (WorkerCount - 1) + 1 = WorkerCount
    BY ClusterAssumption
  <2>6. QED
    BY <2>1, <2>4, <2>5 DEF Full
<1>2. ASSUME NEW w \in 1..lastId,
             WorkerDies(w) \/ ExitInShutdown(w) \/ ExitNotReplaced(w) \/ ExitRateLimited(w)
      PROVE  Full'
  BY <1>2 DEF WorkerDies, ExitInShutdown, ExitNotReplaced, vars, Full, shuttingDown
<1>3. CASE Shutdown \/ Drained \/ Timeout \/ Exit \/ Tick
  BY <1>3 DEF Shutdown, Drained, Timeout, Exit, Tick, pool, Full, shuttingDown
<1>4. CASE UNCHANGED vars
  BY <1>4 DEF vars, Full, shuttingDown
<1>5. QED
  BY <1>1, <1>2, <1>3, <1>4 DEF Next

\* "Respawns workers that exit unexpectedly": whatever exits in whatever order,
\* the primary counts WorkerCount workers until it is told to stop, unless an
\* exit met the cap.
THEOREM OnlyTheCapShrinksThePool ==
    Spec /\ CapNotMet => [](respawn /\ ~shuttingDown => Cardinality(live) = WorkerCount)
<1>1. Init => Full
  <2> SUFFICES ASSUME Init PROVE Full
    OBVIOUS
  <2>1. live = 1..WorkerCount /\ WorkerCount \in Nat
    BY ClusterAssumption DEF Init
  <2>2. QED
    BY <2>1, FS_Interval DEF Full
<1>2. Full => (respawn /\ ~shuttingDown => Cardinality(live) = WorkerCount)
  BY DEF Full
<1>3. QED
  BY <1>1, <1>2, FullStep, TypeCorrect, PTL DEF Spec, CapNotMet
=============================================================================
