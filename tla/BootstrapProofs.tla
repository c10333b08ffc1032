---------------------------- MODULE BootstrapProofs ----------------------------
(***************************************************************************)
(* Proofs about Semaphore, BootPing and Bootstrap, for any number of tasks,*)
(* slots and retries and any environments: the semaphore never lets in too *)
(* many and never forgets a waiter, whoever calls it; the boot ping is a   *)
(* user of the semaphore and goes on exactly as the required sources have  *)
(* it; the boot of a process is one of BootPing; one worker at most runs   *)
(* the cron jobs; nothing that the schemas, the PEM files and the rails    *)
(* refuse gets as far as an effect; what they accept has the numbers, the  *)
(* lists and the secrets that the rest of the program relies on; and what  *)
(* serves has opened, checked and armed what its configuration says.  The  *)
(* names of departures 7 and 8 are the only exceptions to the boot ping.   *)
(***************************************************************************)
EXTENDS Bootstrap, FiniteSetTheorems, SequenceTheorems, TLAPS

-----------------------------------------------------------------------------
(* The semaphore *)

\* Who waits is queued, once.
Queued ==
    /\ \A i \in 1..Len(queue) : stage[queue[i]] = "queued"
    /\ \A i, j \in 1..Len(queue) : queue[i] = queue[j] => i = j

\* Every slot is free or taken.
Accounted == count + Cardinality(In("running")) = Slots

SInv == SemaphoreTypeOK /\ Queued /\ Accounted /\ NoIdleSlot

\* There is at least one slot.
LEMMA SlotsIs == Slots \in Nat \ {0}
BY SemaphoreAssumption DEF Slots

\* The number of tasks at a place is a number.
LEMMA InIsFinite ==
    ASSUME NEW s
    PROVE  IsFiniteSet(In(s)) /\ Cardinality(In(s)) \in Nat
<1>1. In(s) \in SUBSET Tasks
  BY DEF In
<1>2. QED
  BY <1>1, SemaphoreAssumption, FS_Subset, FS_CardinalityType

\* The counters of the state stay in range when the slots are accounted for.
LEMMA CountInRange ==
    ASSUME Accounted, count \in Nat
    PROVE  count \in 0..Slots /\ Cardinality(In("running")) <= Slots
BY SlotsIs, InIsFinite DEF Accounted

\* At the start all slots are free.
LEMMA SemaphoreStarts == SemaphoreInit => SInv
<1> SUFFICES ASSUME SemaphoreInit PROVE SInv
  OBVIOUS
<1>1. In("running") = {}
  BY DEF SemaphoreInit, In
<1>2. Accounted
  BY <1>1, SlotsIs, FS_EmptySet DEF SemaphoreInit, Accounted
<1>3. SemaphoreTypeOK
  BY SlotsIs DEF SemaphoreInit, SemaphoreTypeOK
<1>4. Queued /\ NoIdleSlot
  BY DEF SemaphoreInit, Queued, NoIdleSlot
<1>5. QED
  BY <1>2, <1>3, <1>4 DEF SInv

\* Taking a slot or queueing keeps the invariant, for a newcomer and for a
\* woken waiter.
LEMMA EnterKeeps ==
    ASSUME NEW t \in Tasks, SInv, stage[t] \in {"idle", "woken"}, Enter(t)
    PROVE  SInv'
<1> USE SlotsIs, InIsFinite
<1>1. \A i \in 1..Len(queue) : queue[i] # t
  BY DEF SInv, Queued
<1>2. stage \in [Tasks -> {"idle", "queued", "woken", "running"}] /\ queue \in Seq(Tasks)
      /\ count \in Nat
  BY DEF SInv, SemaphoreTypeOK
<1>3. CASE count > 0 /\ count' = count - 1 /\ queue' = queue
           /\ stage' = [stage EXCEPT ![t] = "running"]
  <2>1. /\ In("running")' = In("running") \cup {t} /\ t \notin In("running")
        /\ In("woken")' = In("woken") \ {t}
    BY <1>2, <1>3 DEF In
  <2>2. Cardinality(In("running"))' = Cardinality(In("running")) + 1
    BY <2>1, FS_AddElement
  <2>3. Accounted'
    BY <1>2, <1>3, <2>2 DEF SInv, Accounted
  <2>4. SemaphoreTypeOK'
    BY <1>2, <1>3 DEF SInv, SemaphoreTypeOK
  <2>5. Queued'
    BY <1>1, <1>2, <1>3, ElementOfSeq DEF SInv, Queued
  <2>6. Cardinality(In("woken"))' \in {Cardinality(In("woken")), Cardinality(In("woken")) - 1}
    <3>1. IsFiniteSet(In("woken"))
      BY InIsFinite
    <3>2. Cardinality(In("woken") \ {t}) \in {Cardinality(In("woken")), Cardinality(In("woken")) - 1}
      BY <3>1, FS_RemoveElement
    <3>3. QED
      BY <2>1, <3>2
  <2>7. NoIdleSlot'
    <3>1. Cardinality(In("woken")) \in Nat
      BY InIsFinite
    <3>2. queue' # <<>> => count <= Cardinality(In("woken"))
      BY <1>3 DEF SInv, NoIdleSlot
    <3>3. QED
      BY <1>2, <1>3, <2>6, <3>1, <3>2 DEF NoIdleSlot
  <2>8. QED
    BY <2>3, <2>4, <2>5, <2>7 DEF SInv
<1>4. CASE count = 0 /\ count' = count /\ queue' = Append(queue, t)
           /\ stage' = [stage EXCEPT ![t] = "queued"]
  <2>1. In("running")' = In("running") /\ In("woken")' = In("woken") \ {t}
    BY <1>2, <1>4 DEF In
  <2>2. Accounted'
    BY <1>4, <2>1 DEF SInv, Accounted
  <2>3. SemaphoreTypeOK'
    BY <1>2, <1>4 DEF SInv, SemaphoreTypeOK
  <2>4. Queued'
    <3>1. /\ Len(queue') = Len(queue) + 1
          /\ queue'[Len(queue) + 1] = t
          /\ \A i \in 1..Len(queue) : queue'[i] = queue[i]
      BY <1>2, <1>4
    <3>2. \A i \in 1..Len(queue) : stage'[queue'[i]] = "queued"
      BY <1>1, <1>2, <1>4, <3>1, ElementOfSeq DEF SInv, Queued
    <3>3. stage'[queue'[Len(queue) + 1]] = "queued"
      BY <1>2, <1>4, <3>1
    <3>4. Len(queue) \in Nat
      BY <1>2, LenProperties
    <3>5. QED
      BY <1>1, <3>1, <3>2, <3>3, <3>4 DEF SInv, Queued
  <2>5. Cardinality(In("woken"))' \in Nat
    BY <2>1, FS_RemoveElement, FS_CardinalityType
  <2>6. NoIdleSlot'
    BY <1>4, <2>5 DEF NoIdleSlot
  <2>7. QED
    BY <2>2, <2>3, <2>4, <2>6 DEF SInv
<1>5. QED
  BY <1>3, <1>4 DEF Enter

\* Leaving keeps the invariant: the slot that becomes free has a woken waiter
\* on its way to it, if anybody waits.
LEMMA LeaveKeeps ==
    ASSUME NEW t \in Tasks, SInv, Leave(t)
    PROVE  SInv'
<1> USE SlotsIs, InIsFinite
<1>1. stage \in [Tasks -> {"idle", "queued", "woken", "running"}] /\ queue \in Seq(Tasks)
      /\ count \in Nat /\ count' = count + 1 /\ stage[t] = "running"
  BY DEF SInv, SemaphoreTypeOK, Leave
<1>2. CASE queue = <<>> /\ queue' = queue /\ stage' = [stage EXCEPT ![t] = "idle"]
  <2>1. In("running")' = In("running") \ {t} /\ t \in In("running")
    BY <1>1, <1>2 DEF In
  <2>2. Cardinality(In("running"))' = Cardinality(In("running")) - 1
    BY <2>1, FS_RemoveElement
  <2>3. Accounted'
    BY <1>1, <2>2 DEF SInv, Accounted
  <2>4. Cardinality(In("running"))' \in Nat
    BY <2>1, FS_RemoveElement, FS_CardinalityType
  <2>5. count' \in 0..Slots
    BY <1>1, <2>3, <2>4 DEF Accounted
  <2>6. SemaphoreTypeOK' /\ Queued' /\ NoIdleSlot'
    BY <1>1, <1>2, <2>5 DEF SemaphoreTypeOK, Queued, NoIdleSlot
  <2>7. QED
    BY <2>3, <2>6 DEF SInv
<1>3. CASE queue # <<>> /\ queue' = Tail(queue)
           /\ stage' = [stage EXCEPT ![t] = "idle", ![Head(queue)] = "woken"]
  <2>1. /\ Head(queue) \in Tasks
        /\ queue' \in Seq(Tasks)
        /\ Len(queue') = Len(queue) - 1
        /\ \A i \in 1..Len(queue') : queue'[i] = queue[i + 1]
    BY <1>1, <1>3, HeadTailProperties
  <2>2. Len(queue) \in Nat \ {0} /\ Head(queue) = queue[1]
    BY <1>1, <1>3, EmptySeq
  <2>3. stage[Head(queue)] = "queued" /\ Head(queue) # t
    BY <1>1, <2>2 DEF SInv, Queued
  <2>4. /\ In("running")' = In("running") \ {t} /\ t \in In("running")
        /\ In("woken")' = In("woken") \cup {Head(queue)} /\ Head(queue) \notin In("woken")
    BY <1>1, <1>3, <2>1, <2>3 DEF In
  <2>5. Cardinality(In("running"))' = Cardinality(In("running")) - 1
    BY <2>4, FS_RemoveElement
  <2>6. Cardinality(In("running"))' \in Nat
    BY <2>4, FS_RemoveElement, FS_CardinalityType
  <2>7. Accounted'
    BY <1>1, <2>5 DEF SInv, Accounted
  <2>8. SemaphoreTypeOK'
    <3>1. count' \in 0..Slots
      BY <1>1, <2>6, <2>7 DEF Accounted
    <3>2. QED
      BY <1>1, <1>3, <2>1, <3>1 DEF SemaphoreTypeOK
  <2>9. Queued'
    <3>1. \A i \in 1..Len(queue') : i + 1 \in 1..Len(queue) /\ i + 1 # 1
      BY <2>1, <2>2
    <3>2. \A i \in 1..Len(queue') : /\ queue'[i] \in Tasks
                                    /\ queue'[i] # Head(queue)
                                    /\ stage[queue'[i]] = "queued"
      BY <1>1, <2>1, <2>2, <3>1, ElementOfSeq DEF SInv, Queued
    <3>3. \A i \in 1..Len(queue') : stage'[queue'[i]] = "queued"
      BY <1>1, <1>3, <3>2
    <3>4. \A i, j \in 1..Len(queue') : queue'[i] = queue'[j] => i = j
      BY <2>1, <2>2, <3>1 DEF SInv, Queued
    <3>5. QED
      BY <3>3, <3>4 DEF Queued
  <2>10. Cardinality(In("woken"))' = Cardinality(In("woken")) + 1
    BY <2>4, FS_AddElement
  <2>11. NoIdleSlot'
    BY <1>1, <1>3, <2>10 DEF SInv, NoIdleSlot
  <2>12. QED
    BY <2>7, <2>8, <2>9, <2>11 DEF SInv
<1>4. QED
  BY <1>2, <1>3 DEF Leave

\* The invariant holds whoever uses the semaphore.
LEMMA SemaphoreInvariant == SemaphoreSpec => []SInv
<1>1. SInv /\ UNCHANGED semaphore => SInv'
  BY DEF semaphore, SInv, SemaphoreTypeOK, Queued, Accounted, NoIdleSlot, In
<1>2. SInv /\ [SemaphoreNext]_semaphore => SInv'
  BY <1>1, EnterKeeps, LeaveKeeps DEF SemaphoreNext, Call, Resume
<1>3. QED
  BY SemaphoreStarts, <1>2, PTL DEF SemaphoreSpec

\* However calls, wake-ups and ends interleave, no more tasks run than the
\* semaphore has slots.
THEOREM NeverTooMany == SemaphoreSpec => []AtMostMax
<1>1. SInv => AtMostMax
  BY CountInRange DEF SInv, SemaphoreTypeOK, AtMostMax
<1>2. QED
  BY <1>1, SemaphoreInvariant, PTL

\* While somebody waits every free slot has a woken waiter on its way, also
\* when newcomers overtake it.
THEOREM NoWaiterForgotten == SemaphoreSpec => []NoIdleSlot
BY SemaphoreInvariant, PTL DEF SInv

-----------------------------------------------------------------------------
(* The boot *)

\* The boot uses the semaphore as it is meant to be used.
THEOREM BootUsesSemaphore == BootSpec => SemaphoreSpec
<1>1. BootInit => SemaphoreInit
  BY DEF BootInit
<1>2. [BootNext]_bootVars => [SemaphoreNext]_semaphore
  BY DEF BootNext, bootVars, semaphore, SemaphoreNext, Implemented, CallPing, ResumePing,
         PingAnswers, PingRetries, PingFails, AllCalled, Decide
<1>3. QED
  BY <1>1, <1>2, PTL DEF BootSpec, SemaphoreSpec

\* Never more pings at a time than database.health.concurrency allows.
THEOREM PingsAreLimited == BootSpec => []AtMostMax
BY BootUsesSemaphore, NeverTooMany, PTL

\* What the variables of pingAll range over.
PingTyped ==
    /\ called \subseteq Implemented
    /\ attempt \in [Implemented -> 0..Retries]
    /\ answered \subseteq called
    /\ boot \in {"starting", "pinging", "up", "aborted"}

\* A source that is through with its ping either answered, or failed, or is
\* not required; and one that is not yet called, or has answered, does not ping.
Settled ==
    /\ \A k \in Implemented : k \notin called => stage[k] = "idle"
    /\ \A k \in answered : stage[k] = "idle"
    /\ \A k \in called : stage[k] = "idle" => k \in answered \/ k \in failures \/ k \notin reqSet

\* Every failure has its reason, which lasts.
Reasons ==
    /\ Placeholders \cap reqSet \subseteq failures
    /\ \A k \in failures :
          \/ k \in Placeholders \cap reqSet
          \/ /\ k \in reqSet \cap Implemented
             /\ k \in called /\ k \notin answered
             /\ stage[k] = "idle" /\ attempt[k] = Retries

\* The decision is taken on the failures when all pings are through.
Decision ==
    /\ boot # "starting" => called = Implemented
    /\ boot \in {"up", "aborted"} => In("idle") = Implemented
    /\ boot = "up" => failures = {}
    /\ boot = "aborted" => failures # {}

BInv == PingTyped /\ Settled /\ Reasons /\ Decision

\* Entering moves the one task, and leaves it in with().
LEMMA EnterMoves ==
    ASSUME NEW k \in Tasks, SInv, Enter(k)
    PROVE  /\ stage'[k] \in {"running", "queued"}
           /\ \A j \in Tasks : j # k => stage'[j] = stage[j]
BY DEF Enter, SInv, SemaphoreTypeOK

\* Leaving moves the one task, and wakes another only from the queue.
LEMMA LeaveMoves ==
    ASSUME NEW k \in Tasks, SInv, Leave(k)
    PROVE  /\ stage[k] = "running" /\ stage'[k] = "idle"
           /\ \A j \in Tasks : j # k =>
                 \/ stage'[j] = stage[j]
                 \/ stage[j] = "queued" /\ stage'[j] = "woken"
<1>1. stage \in [Tasks -> {"idle", "queued", "woken", "running"}] /\ queue \in Seq(Tasks)
  BY DEF SInv, SemaphoreTypeOK
<1>2. CASE queue = <<>>
  BY <1>1, <1>2 DEF Leave
<1>3. CASE queue # <<>>
  <2>1. Len(queue) \in Nat \ {0} /\ Head(queue) = queue[1] /\ Head(queue) \in Tasks
    BY <1>1, <1>3, EmptySeq, HeadTailProperties
  <2>2. stage[Head(queue)] = "queued"
    BY <2>1 DEF SInv, Queued
  <2>3. QED
    BY <1>1, <1>3, <2>1, <2>2 DEF Leave
<1>4. QED
  BY <1>2, <1>3

\* The boot starts with nothing called and the placeholders failed.
LEMMA BootStarts == BootInit => BInv
<1> SUFFICES ASSUME BootInit PROVE BInv
  OBVIOUS
<1>1. PingTyped
  <2>1. 0 \in 0..Retries
    BY BootAssumption
  <2>2. QED
    BY <2>1 DEF BootInit, PingTyped, Implemented
<1>2. Settled /\ Reasons /\ Decision
  BY DEF BootInit, SemaphoreInit, Settled, Reasons, Decision, Implemented
<1>3. QED
  BY <1>1, <1>2 DEF BInv

\* Every step of the boot keeps the invariant.
LEMMA BootKeeps == SInv /\ BInv /\ [BootNext]_bootVars => BInv'
<1> SUFFICES ASSUME SInv, BInv, [BootNext]_bootVars PROVE BInv'
  OBVIOUS
<1>1. ASSUME NEW k \in Implemented, CallPing(k) PROVE BInv'
  <2>1. /\ stage'[k] \in {"running", "queued"}
        /\ \A j \in Tasks : j # k => stage'[j] = stage[j]
    BY <1>1, EnterMoves DEF CallPing, Call, Implemented
  <2>2. /\ boot = "starting" /\ k \notin called /\ called' = called \cup {k}
        /\ UNCHANGED <<required, attempt, answered, failures, boot>>
    BY <1>1 DEF CallPing
  <2>3. reqSet' = reqSet
    BY <2>2 DEF reqSet
  <2>4. PingTyped' /\ Decision'
    BY <2>2 DEF BInv, PingTyped, Decision
  <2>5. Settled' /\ Reasons'
    BY <2>1, <2>2, <2>3 DEF BInv, PingTyped, Settled, Reasons, Implemented
  <2>6. QED
    BY <2>4, <2>5 DEF BInv
<1>2. ASSUME NEW k \in Implemented, ResumePing(k) PROVE BInv'
  <2>1. /\ stage'[k] \in {"running", "queued"} /\ stage[k] = "woken"
        /\ \A j \in Tasks : j # k => stage'[j] = stage[j]
    BY <1>2, EnterMoves DEF ResumePing, Resume, Implemented
  <2>2. boot = "pinging" /\ UNCHANGED <<required, called, attempt, answered, failures, boot>>
    BY <1>2 DEF ResumePing
  <2>3. reqSet' = reqSet
    BY <2>2 DEF reqSet
  <2>4. PingTyped' /\ Decision'
    BY <2>2 DEF BInv, PingTyped, Decision
  <2>5. Settled' /\ Reasons'
    BY <2>1, <2>2, <2>3 DEF BInv, PingTyped, Settled, Reasons, Implemented
  <2>6. QED
    BY <2>4, <2>5 DEF BInv
<1>3. ASSUME NEW k \in Implemented, PingAnswers(k) PROVE BInv'
  <2>1. /\ stage[k] = "running" /\ stage'[k] = "idle"
        /\ \A j \in Tasks : j # k =>
              stage'[j] = stage[j] \/ (stage[j] = "queued" /\ stage'[j] = "woken")
    BY <1>3, LeaveMoves DEF PingAnswers, Implemented
  <2>2. /\ boot = "pinging" /\ answered' = answered \cup {k}
        /\ UNCHANGED <<required, called, attempt, failures, boot>>
    BY <1>3 DEF PingAnswers
  <2>3. reqSet' = reqSet /\ k \in called
    BY <2>1, <2>2 DEF reqSet, BInv, Settled
  <2>4. PingTyped' /\ Decision'
    BY <2>2, <2>3 DEF BInv, PingTyped, Decision
  <2>5. Settled' /\ Reasons'
    BY <2>1, <2>2, <2>3 DEF BInv, PingTyped, Settled, Reasons, Implemented
  <2>6. QED
    BY <2>4, <2>5 DEF BInv
<1>4. ASSUME NEW k \in Implemented, PingRetries(k) PROVE BInv'
  <2>1. /\ boot = "pinging" /\ stage[k] = "running" /\ attempt[k] < Retries
        /\ attempt' = [attempt EXCEPT ![k] = @ + 1]
        /\ UNCHANGED <<stage, required, called, answered, failures, boot>>
    BY <1>4 DEF PingRetries, MayRetry, semaphore
  <2>2. reqSet' = reqSet /\ In("idle")' = In("idle")
    BY <2>1 DEF reqSet, In
  <2>3. attempt' \in [Implemented -> 0..Retries]
    <3>1. attempt[k] + 1 \in 0..Retries
      BY <2>1, BootAssumption DEF BInv, PingTyped
    <3>2. QED
      BY <2>1, <3>1 DEF BInv, PingTyped
  <2>4. \A j \in Implemented : j # k => attempt'[j] = attempt[j]
    BY <2>1 DEF BInv, PingTyped
  <2>5. QED
    BY <2>1, <2>2, <2>3, <2>4 DEF BInv, PingTyped, Settled, Reasons, Decision
<1>5. ASSUME NEW k \in Implemented, PingFails(k) PROVE BInv'
  <2>1. /\ stage[k] = "running" /\ stage'[k] = "idle"
        /\ \A j \in Tasks : j # k =>
              stage'[j] = stage[j] \/ (stage[j] = "queued" /\ stage'[j] = "woken")
    BY <1>5, LeaveMoves DEF PingFails, Implemented
  <2>2. /\ boot = "pinging" /\ failures' = failures \cup ({k} \cap reqSet)
        /\ ~(attempt[k] < Retries)
        /\ UNCHANGED <<required, called, attempt, answered, boot>>
    BY <1>5 DEF PingFails, Failed, MayRetry
  <2>3. reqSet' = reqSet /\ k \in called /\ k \notin answered
    BY <2>1, <2>2 DEF reqSet, BInv, Settled
  <2>4. attempt[k] = Retries
    BY <2>2, BootAssumption DEF BInv, PingTyped
  <2>5. PingTyped' /\ Decision'
    BY <2>2 DEF BInv, PingTyped, Decision
  <2>6. Settled' /\ Reasons'
    BY <2>1, <2>2, <2>3, <2>4 DEF BInv, PingTyped, Settled, Reasons, Implemented
  <2>7. QED
    BY <2>5, <2>6 DEF BInv
<1>6. CASE AllCalled \/ Decide
  <2>1. UNCHANGED <<stage, required, called, attempt, answered, failures>>
    BY <1>6 DEF AllCalled, Decide, semaphore
  <2>2. reqSet' = reqSet /\ In("idle")' = In("idle")
    BY <2>1 DEF reqSet, In
  <2>3. PingTyped' /\ Settled' /\ Reasons'
    BY <1>6, <2>1, <2>2 DEF AllCalled, Decide, BInv, PingTyped, Settled, Reasons
  <2>4. Decision'
    BY <1>6, <2>1, <2>2 DEF AllCalled, Decide, BInv, Decision
  <2>5. QED
    BY <2>3, <2>4 DEF BInv
<1>7. CASE UNCHANGED bootVars
  <2>1. reqSet' = reqSet /\ In("idle")' = In("idle")
    BY <1>7 DEF bootVars, reqSet, In
  <2>2. QED
    BY <1>7, <2>1 DEF bootVars, BInv, PingTyped, Settled, Reasons, Decision
<1>8. QED
  BY <1>1, <1>2, <1>3, <1>4, <1>5, <1>6, <1>7 DEF BootNext

\* What the decision rests on is sound.
LEMMA DecisionIsSound == BInv => BootIsSound
<1> SUFFICES ASSUME BInv PROVE BootIsSound
  OBVIOUS
<1>1. boot = "up" => reqSet \cap Implemented \subseteq answered
  BY DEF BInv, Decision, Settled, In
<1>2. boot = "up" => reqSet \cap Placeholders = {}
  BY DEF BInv, Decision, Reasons
<1>3. boot = "aborted" =>
        \/ reqSet \cap Placeholders # {}
        \/ \E k \in reqSet \cap Implemented : k \notin answered /\ attempt[k] = Retries
  BY DEF BInv, Decision, Reasons
<1>4. QED
  BY <1>1, <1>2, <1>3 DEF BootIsSound

\* The required sources are some that the configuration can name.
RequiredKnown == required \subseteq Implemented \cup Placeholders \cup Unknown

\* The invariants of the pings.
LEMMA PingInvariant == BootSpec => []SInv /\ []BInv /\ []RequiredKnown
<1>1. BootSpec => []SInv
  BY BootUsesSemaphore, SemaphoreInvariant, PTL
<1>2. SInv /\ BInv /\ [BootNext]_bootVars => BInv'
  BY BootKeeps
<1>3. BootSpec => []BInv
  BY <1>1, <1>2, BootStarts, PTL DEF BootSpec
<1>4. BootInit => RequiredKnown
  BY DEF BootInit, RequiredKnown
<1>5. RequiredKnown /\ [BootNext]_bootVars => RequiredKnown'
  BY DEF RequiredKnown, BootNext, bootVars, CallPing, ResumePing, PingAnswers, PingRetries,
     PingFails, AllCalled, Decide
<1>6. QED
  BY <1>1, <1>3, <1>4, <1>5, PTL DEF BootSpec

\* The boot goes on only if every required source that is configured has
\* answered, and is aborted only for a placeholder or for a required source
\* that used up its attempts -- for any sources, slots and retries.
THEOREM BootDecidesRightly == BootSpec => []BootIsSound
BY DecisionIsSound, PingInvariant, PTL

\* "If a required source fails, boot aborts" (database.md): a boot that goes on
\* has heard from every source it was told to require, unless one of these is
\* the name of no configured source. Departure 7 is therefore the typing error
\* alone: neither retries, nor a full semaphore, nor the order of the pings
\* can let a silent source pass.
THEOREM OnlyUnknownNamesPass ==
    BootSpec => [](required \cap Unknown = {} => RequiredAnswered)
<1>1. BootIsSound /\ RequiredKnown => (required \cap Unknown = {} => RequiredAnswered)
  <2> SUFFICES ASSUME BootIsSound, RequiredKnown, required \cap Unknown = {}, boot = "up",
                      NEW k \in required
               PROVE  k \in answered
    BY DEF RequiredAnswered
  <2>1. reqSet = required
    BY DEF reqSet
  <2>2. k \notin Placeholders
    BY <2>1 DEF BootIsSound
  <2>3. k \in Implemented
    BY <2>2 DEF RequiredKnown
  <2>4. QED
    BY <2>1, <2>3 DEF BootIsSound
<1>2. QED
  BY <1>1, BootDecidesRightly, PingInvariant, PTL

\* With no required source that requires a context user, a boot is aborted only
\* by a placeholder or by a database that did not answer one ping of all its
\* attempts: departure 8 is therefore these sources alone.
THEOREM OnlyUserSourcesAbort ==
    BootSpec => [](reqSet \cap UserSources = {} => AbortMeansSilence)
<1>1. BootIsSound => (reqSet \cap UserSources = {} => AbortMeansSilence)
  <2> SUFFICES ASSUME BootIsSound, reqSet \cap UserSources = {}, boot = "aborted"
               PROVE  \E k \in reqSet : k \in Placeholders \/ (k \notin answered /\ Pingable(k))
    BY DEF AbortMeansSilence
  <2>1. CASE reqSet \cap Placeholders # {}
    BY <2>1
  <2>2. CASE \E k \in reqSet \cap Implemented : k \notin answered /\ attempt[k] = Retries
    BY <2>2 DEF Pingable
  <2>3. QED
    BY <2>1, <2>2 DEF BootIsSound
<1>2. QED
  BY <1>1, BootDecidesRightly, PTL

-----------------------------------------------------------------------------
(* The pings of a boot *)

\* Every step of a process is a step of its pings or leaves them alone.
THEOREM BootstrapUsesBootPing == Spec => BootSpec
<1>1. Init => BootInit
  BY DEF Init
<1>2. [Next]_bootstrapVars => [BootNext]_bootVars
  BY DEF Next, Steps, bootstrapVars, LoadConfig, LoadTls, StartPrimary, NoDatabase,
     CreateClient, CreateFails, PoolsCreated, Ping, Pinged, BuildStore, BuildForwarder,
     StartJobs, Listen, InstallHandlers, Signal
<1>3. QED
  BY <1>1, <1>2, PTL DEF Spec, BootSpec

-----------------------------------------------------------------------------
(* Reading an option *)

\* The sections of a service without a database, and their schemas.
LEMMA Sectioned ==
    /\ DOMAIN RootSchema \subseteq DOMAIN Schema
    /\ \A e : DOMAIN RootSchema \subseteq Sections(e)
    /\ {"cluster", "tls", "idempotency"} \subseteq DOMAIN RootSchema
    /\ Schema["cluster"] = ClusterSchema
<1>1. {"cluster", "tls", "idempotency"} \subseteq DOMAIN RootSchema
  BY DEF RootSchema
<1>2. DOMAIN RootSchema \subseteq DOMAIN Schema
  BY DEF Schema, Over
<1>3. "cluster" \notin DOMAIN DatabaseSchema
  BY DEF DatabaseSchema
<1>4. Schema["cluster"] = RootSchema["cluster"]
  BY <1>1, <1>3 DEF Schema, Over
<1>5. RootSchema["cluster"] = ClusterSchema
  BY DEF RootSchema
<1>6. QED
  BY <1>1, <1>2, <1>4, <1>5 DEF Sections

\* A section of a configuration holds what is read of each of its options.
LEMMA ConfigAt ==
    ASSUME NEW e, NEW s \in Sections(e), NEW f \in DOMAIN Schema[s]
    PROVE  Config(e)[s][f] = Read(Schema[s][f], Option(e, s, f))
BY DEF Config

\* The flag of a worker that is not the chosen one is read as it was set.
LEMMA FlagIsRead ==
    ASSUME NEW e, Option(e, "cluster", "isLeader") = Word("false")
    PROVE  ~On(Config(e).cluster.isLeader)
<1>1. "isLeader" \in DOMAIN ClusterSchema /\ ClusterSchema.isLeader.as = "flag"
  BY DEF ClusterSchema, Row
<1>2. "cluster" \in Sections(e) /\ "isLeader" \in DOMAIN Schema["cluster"]
  BY <1>1, Sectioned
<1>3. Config(e)["cluster"]["isLeader"] = Read(ClusterSchema["isLeader"], Word("false"))
  BY <1>2, ConfigAt, Sectioned
<1>4. Word("false") # Blank /\ Word("false").flag = {FALSE}
  BY DEF Word, Blank, FlagOf
<1>5. Read(ClusterSchema["isLeader"], Word("false")) = {FALSE}
  BY <1>1, <1>4 DEF Read
<1>6. QED
  BY <1>3, <1>5 DEF On

-----------------------------------------------------------------------------
(* Environments that differ in the flag of a worker *)

EnvFields == {"vars", "file", "json", "list", "secrets"}

\* The files of a TLS section can be read.
PemsFit(c) ==
    On(c.tls.enabled) => c.tls.keyFile \cup c.tls.certFile \cup c.tls.caFile \subseteq Pems

Flags == {Word("true"), Word("false")}

\* Two environments that agree on every option but the flag are both valid,
\* and agree on the files.
LEMMA OnlyFlagDiffers ==
    ASSUME NEW d, NEW e, Valid(e),
           d.json = e.json, d.list = e.list, d.secrets = e.secrets,
           Option(d, "cluster", "isLeader") \in Flags,
           \A s \in DOMAIN Schema : \A f \in DOMAIN Schema[s] :
              ~(s = "cluster" /\ f = "isLeader") => Option(d, s, f) = Option(e, s, f)
    PROVE  /\ Valid(d) /\ Config(d).tls = Config(e).tls
           /\ Config(d).idempotency = Config(e).idempotency
<1>1. Sections(d) = Sections(e) /\ Sections(e) \subseteq DOMAIN Schema
  BY Sectioned DEF Sections
<1>2. \A s \in Sections(e) : s # "cluster" => Config(d)[s] = Config(e)[s]
  BY <1>1 DEF Config
<1>3. \A s \in {"http", "legacy", "tls", "idempotency"} : s \in Sections(e) /\ s # "cluster"
  <2>1. {"http", "legacy", "tls", "idempotency"} \subseteq DOMAIN RootSchema
    BY DEF RootSchema
  <2>2. QED
    BY <2>1, Sectioned
<1>4. Config(d).http = Config(e).http /\ Config(d).legacy = Config(e).legacy
      /\ Config(d).tls = Config(e).tls /\ Config(d).idempotency = Config(e).idempotency
  BY <1>2, <1>3
<1>5. \A flag \in Flags : Accepts(ClusterSchema["isLeader"], flag)
  <2>1. ClusterSchema["isLeader"].as = "flag" /\ ClusterSchema["isLeader"].of = BOOLEAN
    BY DEF ClusterSchema, Row
  <2>2. \A flag \in Flags : flag # Blank /\ flag["flag"] \in {{TRUE}, {FALSE}}
    <3>1. FlagOf("true") = {TRUE} /\ FlagOf("false") = {FALSE}
      BY DEF FlagOf
    <3>2. Word("true").flag = {TRUE} /\ Word("false").flag = {FALSE}
      BY <3>1 DEF Word
    <3>3. Word("true").text # {} /\ Word("false").text # {} /\ Blank.text = {}
      BY DEF Word, Blank
    <3>4. QED
      BY <3>2, <3>3 DEF Flags
  <2>3. QED
    BY <2>1, <2>2 DEF Accepts
<1>6. FieldsOk(d)
  <2> SUFFICES ASSUME NEW s \in Sections(d), NEW f \in DOMAIN Schema[s]
               PROVE  Accepts(Schema[s][f], Option(d, s, f))
    BY DEF FieldsOk
  <2>1. CASE s = "cluster" /\ f = "isLeader"
    BY <2>1, <1>5, Sectioned
  <2>2. CASE ~(s = "cluster" /\ f = "isLeader")
    BY <2>2, <1>1 DEF Valid, FieldsOk
  <2>3. QED
    BY <2>1, <2>2
<1>7. d.json # "blank" => SourcesOk(d)
  BY DEF Valid, SourcesOk, Sources
<1>8. QED
  BY <1>4, <1>6, <1>7 DEF Valid

\* The file has been merged, or is not to be.
Merged(e) ==
    \/ Get(e.vars, "NODE_ENV") \in {Word("test"), Word("testing")}
    \/ DOMAIN e.file \subseteq DOMAIN e.vars

\* What loading does to the variables.
LEMMA Loading ==
    ASSUME NEW e, DOMAIN e = EnvFields, NEW d, d = LoadEnvFiles(e)
    PROVE  /\ DOMAIN d = EnvFields /\ Merged(d)
           /\ d.json = e.json /\ d.list = e.list /\ d.secrets = e.secrets
           /\ \A x \in DOMAIN e.vars : Get(d.vars, x) = Get(e.vars, x)
           /\ Merged(e) => \A x : Get(d.vars, x) = Get(e.vars, x)
<1>1. CASE Get(e.vars, "NODE_ENV") \in {Word("test"), Word("testing")}
  BY <1>1 DEF LoadEnvFiles, Merged
<1>2. CASE Get(e.vars, "NODE_ENV") \notin {Word("test"), Word("testing")}
  <2>1. d = [e EXCEPT !.vars = Over(e.vars, e.file)]
    BY <1>2 DEF LoadEnvFiles
  <2>2. /\ DOMAIN d = EnvFields /\ d.vars = Over(e.vars, e.file) /\ d.file = e.file
        /\ d.json = e.json /\ d.list = e.list /\ d.secrets = e.secrets
    BY <2>1 DEF EnvFields
  <2>3. /\ DOMAIN d.vars = DOMAIN e.vars \cup DOMAIN e.file
        /\ \A x \in DOMAIN e.vars : d.vars[x] = e.vars[x]
    BY <2>2 DEF Over
  <2>4. Merged(d)
    BY <2>2, <2>3 DEF Merged
  <2>5. Merged(e) => DOMAIN d.vars = DOMAIN e.vars
    BY <1>2, <2>3 DEF Merged
  <2>6. QED
    BY <2>2, <2>3, <2>4, <2>5 DEF Get
<1>3. QED
  BY <1>1, <1>2

-----------------------------------------------------------------------------
(* The invariant *)

Booted == {"tls", "primary", "pools", "pinging", "providers", "middleware", "starting",
           "listening", "bound", "serving"}
BeforeJobs == {"loading", "tls", "primary", "pools", "pinging", "providers", "middleware",
               "starting"}

Typed == worker \in Nat /\ DOMAIN env = EnvFields

\* Who can share a store that is not in memory.
StoreFits(c) == forked > 1 => c.idempotency.store # {"memory"}

\* What has been read is the environment, and it is valid; past its PEM files
\* a process has read them, and it is the primary or not.
Informed ==
    /\ phase \in Booted => config = Config(env) /\ Valid(env) /\ Merged(env)
    /\ phase \in Booted \ {"tls"} => PemsFit(config)
    /\ phase \in Booted \ {"tls", "primary"} /\ On(config.cluster.enabled) => worker # 0
    /\ phase \in Booted => StoreFits(config)
    /\ worker = 0 => forked = 0

\* A worker has its flag, and loads what its primary has loaded.
Inherited ==
    worker > 0 =>
        /\ Option(env, "cluster", "isLeader") = Word(IF worker = 1 THEN "true" ELSE "false")
        /\ phase = "loading" => LET e == LoadEnvFiles(env) IN
              Valid(e) /\ PemsFit(Config(e)) /\ StoreFits(Config(e))
        /\ phase = "tls" => PemsFit(config)

Idle == phase \in BeforeJobs => ~armed

PInv == Typed /\ Informed /\ Inherited /\ Idle /\ OneScheduler

\* The environment of a new worker, once it is loaded, is the one of the
\* primary but for the flag.
LEMMA Forking ==
    ASSUME NEW e, Valid(e), Merged(e), PemsFit(Config(e)),
           NEW flag \in Flags, NEW d, NEW l, l = LoadEnvFiles(d), DOMAIN d = EnvFields,
           d.vars = Over(Just("CLUSTER_LEADER", flag), e.vars),
           d.file = e.file, d.json = e.json, d.list = e.list, d.secrets = e.secrets
    PROVE  /\ Option(d, "cluster", "isLeader") = flag
           /\ Valid(l) /\ PemsFit(Config(l))
           /\ Config(l).idempotency = Config(e).idempotency
           /\ Config(l).cluster.enabled = Config(e).cluster.enabled
<1>2. /\ DOMAIN d.vars = {"CLUSTER_LEADER"} \cup DOMAIN e.vars
      /\ Get(d.vars, "CLUSTER_LEADER") = flag
      /\ \A x : x # "CLUSTER_LEADER" => Get(d.vars, x) = Get(e.vars, x)
  BY DEF Over, Just, Get
<1>3. Merged(d)
  BY <1>2 DEF Merged
<1>4. /\ l.json = e.json /\ l.list = e.list /\ l.secrets = e.secrets
      /\ \A x : Get(l.vars, x) = Get(d.vars, x)
  BY <1>3, Loading
<1>5. Variables["cluster"]["isLeader"] = "CLUSTER_LEADER"
  BY DEF Variables
<1>6. Option(d, "cluster", "isLeader") = flag /\ Option(l, "cluster", "isLeader") = flag
  BY <1>2, <1>4, <1>5 DEF Option
<1>7. \A s \in DOMAIN Schema : \A f \in DOMAIN Schema[s] :
          ~(s = "cluster" /\ f = "isLeader") => Option(l, s, f) = Option(e, s, f)
  BY <1>2, <1>4, TableAssumption DEF Option
<1>8. /\ Valid(l) /\ Config(l).tls = Config(e).tls
      /\ Config(l).idempotency = Config(e).idempotency
  BY <1>4, <1>6, <1>7, OnlyFlagDiffers
<1>9. PemsFit(Config(l))
  BY <1>8 DEF PemsFit
<1>10. Config(l).cluster.enabled = Config(e).cluster.enabled
  <2>1. "enabled" \in DOMAIN ClusterSchema
    BY DEF ClusterSchema
  <2>2. "cluster" \in Sections(l) /\ "cluster" \in Sections(e) /\ "cluster" \in DOMAIN Schema
        /\ "enabled" \in DOMAIN Schema["cluster"]
    BY <2>1, Sectioned
  <2>3. Option(l, "cluster", "enabled") = Option(e, "cluster", "enabled")
    BY <1>7, <2>2
  <2>4. QED
    BY <2>2, <2>3, ConfigAt
<1>11. QED
  BY <1>6, <1>8, <1>9, <1>10

\* At the start nothing has been read.
LEMMA ProcessStarts == Init => PInv
BY BootstrapAssumption
   DEF Init, PInv, Typed, Informed, Inherited, Idle, OneScheduler, Booted, EnvFields

\* Loading keeps the invariant.
LEMMA LoadConfigKeeps == PInv /\ LoadConfig => PInv'
<1> SUFFICES ASSUME PInv, LoadConfig PROVE PInv'
  OBVIOUS
<1> DEFINE e == LoadEnvFiles(env)
<1>1. CASE ~Valid(e) /\ Fail
  BY <1>1 DEF Fail, PInv, Typed, Informed, Inherited, Idle, OneScheduler, Booted, BeforeJobs
<1>2. CASE Valid(e)
  <2>1. /\ phase = "loading" /\ phase' = "tls" /\ env' = e /\ config' = Config(e)
        /\ UNCHANGED <<worker, forked, armed>>
    BY <1>2 DEF LoadConfig
  <2>2. /\ DOMAIN e = EnvFields /\ Merged(e)
        /\ \A x \in DOMAIN env.vars : Get(e.vars, x) = Get(env.vars, x)
    BY Loading DEF PInv, Typed
  <2>3. worker > 0 => Option(e, "cluster", "isLeader") = Option(env, "cluster", "isLeader")
    <3> SUFFICES ASSUME worker > 0
                 PROVE  Option(e, "cluster", "isLeader") = Option(env, "cluster", "isLeader")
      OBVIOUS
    <3>1. Option(env, "cluster", "isLeader") = Word(IF worker = 1 THEN "true" ELSE "false")
      BY DEF PInv, Inherited
    <3>2. Word("true").text # {} /\ Word("false").text # {} /\ Blank.text = {}
      BY DEF Word, Blank
    <3>3. Option(env, "cluster", "isLeader") # Blank
      BY <3>1, <3>2
    <3>4. Variables["cluster"]["isLeader"] \in DOMAIN env.vars
      BY <3>3 DEF Option, Get
    <3>5. QED
      BY <3>4, <2>2 DEF Option
  <2>4. Typed' /\ Informed' /\ Idle'
    BY <1>2, <2>1, <2>2
       DEF PInv, Typed, Informed, Inherited, Idle, Booted, BeforeJobs, StoreFits
  <2>5. Inherited'
    BY <2>1, <2>3 DEF PInv, Typed, Inherited
  <2>6. ~armed'
    BY <2>1 DEF PInv, Idle, BeforeJobs
  <2>7. QED
    BY <2>4, <2>5, <2>6 DEF PInv, OneScheduler
<1>3. QED
  BY <1>1, <1>2 DEF LoadConfig

\* So does forking, and the worker finds what the primary left it.
LEMMA StartPrimaryKeeps == PInv /\ StartPrimary => PInv'
<1> SUFFICES ASSUME PInv, StartPrimary PROVE PInv'
  OBVIOUS
<1>1. CASE Fail
  BY <1>1 DEF Fail, PInv, Typed, Informed, Inherited, Idle, OneScheduler, Booted, BeforeJobs
<1>2. ASSUME NEW n \in config.cluster.workers,
             NEW w \in 1..resolveWorkerCount(n, Cpus),
             RailsOk(resolveWorkerCount(n, Cpus)), forked' = resolveWorkerCount(n, Cpus),
             phase' = "loading", worker' = w, env' = ForkEnv(w), UNCHANGED armed
      PROVE  PInv'
  <2>1. w \in Nat \ {0}
    OBVIOUS
  <2> DEFINE flag == Word(IF w = 1 THEN "true" ELSE "false")
             l == LoadEnvFiles(env')
  <2>2. Valid(env) /\ Merged(env) /\ PemsFit(Config(env)) /\ ~armed /\ config = Config(env)
    BY DEF StartPrimary, PInv, Informed, Idle, Booted, BeforeJobs
  <2>3. /\ DOMAIN env' = EnvFields
        /\ env'.vars = Over(Just("CLUSTER_LEADER", flag), env.vars)
        /\ env'.file = env.file /\ env'.json = env.json
        /\ env'.list = env.list /\ env'.secrets = env.secrets
    BY <1>2 DEF ForkEnv, PInv, Typed, EnvFields
  <2>4. flag \in Flags
    BY DEF Flags
  <2>5. /\ Option(env', "cluster", "isLeader") = flag
        /\ Valid(l) /\ PemsFit(Config(l)) /\ Config(l).idempotency = config.idempotency
    BY <2>2, <2>3, <2>4, Forking
  <2>6. forked' > 1 => Config(l).idempotency.store # {"memory"}
    BY <1>2, <2>5 DEF RailsOk
  <2>7. Typed' /\ Informed' /\ Inherited'
    BY <1>2, <2>1, <2>3, <2>5, <2>6 DEF Typed, Informed, Inherited, Booted, StoreFits
  <2>8. QED
    BY <1>2, <2>2, <2>7 DEF PInv, Idle, OneScheduler
<1>3. QED
  BY <1>1, <1>2 DEF StartPrimary

\* The steps after that keep what has been read.
LEMMA BuildingKeeps ==
    ASSUME PInv,
           LoadTls \/ NoDatabase \/ CreateClient \/ CreateFails \/ PoolsCreated \/ Ping
              \/ Pinged \/ BuildStore \/ BuildForwarder
    PROVE  PInv'
<1>1. UNCHANGED <<env, config, worker, forked, armed>>
  BY DEF LoadTls, NoDatabase, CreateClient, CreateFails, PoolsCreated, Ping, Pinged,
     BuildStore, BuildForwarder, Goto, Fail, process
<1>2. \/ /\ phase = "tls"
         /\ \/ PemsOk /\ phase' = (IF IsPrimary THEN "primary" ELSE "pools")
            \/ phase' = "exited"
      \/ /\ phase \in {"pools", "pinging", "providers", "middleware"}
         /\ phase' \in {"pools", "pinging", "providers", "middleware", "starting", "exited"}
  BY DEF LoadTls, NoDatabase, CreateClient, CreateFails, PoolsCreated, Ping, Pinged,
     BuildStore, BuildForwarder, Goto, Fail, process
<1>3. Typed' /\ Idle' /\ OneScheduler'
  BY <1>1, <1>2 DEF PInv, Typed, Idle, OneScheduler, BeforeJobs
<1>4. Informed'
  BY <1>1, <1>2 DEF PInv, Informed, Booted, PemsOk, PemsFit, IsPrimary, StoreFits
<1>5. Inherited'
  BY <1>1, <1>2 DEF PInv, Inherited, StoreFits
<1>6. QED
  BY <1>3, <1>4, <1>5 DEF PInv

\* The jobs start in the process that was chosen.
LEMMA StartJobsKeeps == PInv /\ StartJobs => PInv'
<1> SUFFICES ASSUME PInv, StartJobs PROVE PInv'
  OBVIOUS
<1>1. /\ UNCHANGED <<env, config, worker, forked>> /\ phase = "starting"
      /\ phase' \in {"listening", "exited"}
      /\ armed' => armed \/ RunsJobs
  BY DEF StartJobs, Fail
<1>2. ~armed /\ config = Config(env)
  BY <1>1 DEF PInv, Idle, Informed, BeforeJobs, Booted
<1>3. OneScheduler'
  <2> SUFFICES ASSUME armed', On(config.cluster.enabled), worker # 1 PROVE FALSE
    BY <1>1 DEF OneScheduler
  <2>1. worker > 0
    BY <1>1 DEF PInv, Typed, Informed, Booted
  <2>2. Option(env, "cluster", "isLeader") = Word("false")
    BY <2>1 DEF PInv, Inherited
  <2>3. ~On(config.cluster.isLeader)
    BY <1>2, <2>2, FlagIsRead
  <2>4. QED
    BY <1>1, <1>2, <2>3 DEF RunsJobs
<1>4. Typed' /\ Informed' /\ Inherited' /\ Idle'
  BY <1>1 DEF PInv, Typed, Informed, Inherited, Idle, Booted, BeforeJobs, StoreFits
<1>5. QED
  BY <1>3, <1>4 DEF PInv

\* What follows changes none of it.
LEMMA ServingKeeps ==
    ASSUME PInv, Listen \/ InstallHandlers \/ Signal \/ UNCHANGED bootstrapVars
    PROVE  PInv'
<1>1. UNCHANGED <<env, config, worker, forked, armed>>
  BY DEF Listen, InstallHandlers, Signal, Fail, bootstrapVars, process
<1>2. \/ phase' = phase \/ phase' \in {"exited", "killed"}
      \/ phase = "listening" /\ phase' = "bound"
      \/ phase = "bound" /\ phase' = "serving"
  BY DEF Listen, InstallHandlers, Signal, Fail, bootstrapVars, process
<1>3. QED
  BY <1>1, <1>2 DEF PInv, Typed, Informed, Inherited, Idle, OneScheduler, Booted, BeforeJobs,
     StoreFits

\* It holds of every process.
LEMMA ProcessInvariant == Spec => []PInv
<1>1. PInv /\ [Next]_bootstrapVars => PInv'
  BY LoadConfigKeeps, StartPrimaryKeeps, BuildingKeeps, StartJobsKeeps, ServingKeeps
     DEF Next, Steps
<1>2. QED
  BY <1>1, ProcessStarts, PTL DEF Spec

-----------------------------------------------------------------------------
(* What follows from it *)

\* In a cluster no worker but the chosen one runs the cron jobs, whatever
\* environment the operator sets up and however many cores there are.
THEOREM OneSchedulerAtMost == Spec => []OneScheduler
<1>1. PInv => OneScheduler
  BY DEF PInv
<1>2. QED
  BY <1>1, ProcessInvariant, PTL

\* No process has forked, opened, started or bound anything with a
\* configuration that the schemas, the PEM files or the rails refuse, and no
\* worker refuses what its primary has accepted.
THEOREM InvalidHasNoEffects == Spec => RefusedBeforeEffects
<1> DEFINE TlsFits == On(Config(env).tls.enabled) =>
        /\ Config(env).tls.keyFile # {} /\ Config(env).tls.keyFile \subseteq Pems
        /\ Config(env).tls.certFile # {} /\ Config(env).tls.certFile \subseteq Pems
        /\ Config(env).tls.caFile \subseteq Pems
<1>1. ASSUME PInv, [Next]_bootstrapVars, effects' # effects
      PROVE  /\ Valid(env) /\ TlsFits
             /\ forked' > 1 => Config(env).idempotency.store # {"memory"}
  <2>1. \/ phase = "primary" /\ StartPrimary
        \/ phase \in {"pools", "starting", "listening"} /\ forked' = forked
    BY <1>1 DEF Next, Steps, bootstrapVars, process, effects, LoadConfig, LoadTls, StartPrimary,
       NoDatabase, CreateClient, CreateFails, PoolsCreated, Ping, Pinged, BuildStore,
       BuildForwarder, StartJobs, Listen, InstallHandlers, Signal, Goto, Fail
  <2>2. Valid(env) /\ PemsFit(Config(env)) /\ config = Config(env) /\ StoreFits(config)
    BY <1>1, <2>1 DEF PInv, Informed, Booted
  <2>3. TlsFits
    BY <2>2 DEF PemsFit, Valid, TlsOk
  <2>4. forked' > 1 => Config(env).idempotency.store # {"memory"}
    <3>1. CASE forked' = forked
      BY <2>2, <3>1 DEF StoreFits
    <3>2. CASE phase = "primary" /\ StartPrimary /\ forked' # forked
      BY <2>2, <3>2 DEF StartPrimary, RailsOk, Fail
    <3>3. QED
      BY <2>1, <3>1, <3>2
  <2>5. QED
    BY <2>2, <2>3, <2>4
<1>2. ASSUME PInv, [Next]_bootstrapVars, worker > 0, phase \in {"loading", "tls"}
      PROVE  phase' # "exited"
  <2>1. LoadConfig \/ LoadTls \/ phase' \in {phase, "killed"}
    BY <1>2 DEF Next, Steps, bootstrapVars, process, StartPrimary, NoDatabase, CreateClient,
       CreateFails, PoolsCreated, Ping, Pinged, BuildStore, BuildForwarder, StartJobs, Listen,
       InstallHandlers, Signal
  <2>2. phase = "loading" => Valid(LoadEnvFiles(env))
    BY <1>2 DEF PInv, Inherited
  <2>3. phase = "tls" => PemsOk
    BY <1>2 DEF PInv, Inherited, PemsFit, PemsOk
  <2>4. QED
    BY <1>2, <2>1, <2>2, <2>3 DEF LoadConfig, LoadTls, Goto
<1>3. PInv /\ [Next]_bootstrapVars =>
        [/\ effects' # effects =>
               LET c == Config(env)
                   tls == c.tls
               IN /\ Valid(env)
                  /\ On(tls.enabled) => /\ tls.keyFile # {} /\ tls.keyFile \subseteq Pems
                                        /\ tls.certFile # {} /\ tls.certFile \subseteq Pems
                                        /\ tls.caFile \subseteq Pems
                  /\ forked' > 1 => c.idempotency.store # {"memory"}
         /\ worker > 0 /\ phase \in {"loading", "tls"} => phase' # "exited"]_bootstrapVars
  BY <1>1, <1>2
<1>4. QED
  BY <1>3, ProcessInvariant, PTL DEF Spec, RefusedBeforeEffects

\* The boot of a process is decided by its required sources, and never pings
\* more of them at a time than it may.
THEOREM BootstrapDecidesRightly == Spec => []BootIsSound /\ []AtMostMax
BY BootstrapUsesBootPing, BootDecidesRightly, PingsAreLimited, PTL
-----------------------------------------------------------------------------
(* What is read of an option that was accepted *)

\* It is the default, or what was given, which is of the kind it must be.
LEMMA Reading ==
    ASSUME NEW row, NEW raw, Accepts(row, raw), row.as # "real"
    PROVE  \/ raw = Blank /\ ~row.required /\ Read(row, raw) = row.default
           \/ raw # Blank /\ Read(row, raw) = raw[row.as]
                 /\ Read(row, raw) # {} /\ Read(row, raw) \subseteq row.of
BY DEF Accepts, Read

\* Each section is read by its own schema.
LEMMA Schemas ==
    /\ \A s \in DOMAIN RootSchema : Schema[s] = RootSchema[s]
    /\ Schema["health"] = HealthSchema
<1>1. DOMAIN RootSchema \cap DOMAIN DatabaseSchema = {}
  BY DEF RootSchema, DatabaseSchema
<1>2. "health" \in DOMAIN DatabaseSchema /\ DatabaseSchema["health"] = HealthSchema
  BY DEF DatabaseSchema
<1>3. \A s \in DOMAIN RootSchema : Schema[s] = RootSchema[s]
  BY DEF Schema, Over
<1>4. "health" \notin DOMAIN RootSchema
  BY <1>1, <1>2
<1>5. Schema["health"] = DatabaseSchema["health"]
  BY <1>2, <1>4 DEF Schema, Over
<1>6. QED
  BY <1>2, <1>3, <1>5

\* An option of a valid environment is its default or of the kind it must be.
LEMMA FieldFits ==
    ASSUME NEW e, FieldsOk(e), NEW s \in Sections(e), NEW f \in DOMAIN Schema[s],
           NEW row, row = Schema[s][f], row.as # "real"
    PROVE  LET value == Config(e)[s][f] IN
           /\ value \subseteq row.of \/ value = row.default
           /\ row.required => value # {}
           /\ value # row.default =>
                 Option(e, s, f) # Blank /\ value = Option(e, s, f)[row.as]
<1>1. Accepts(row, Option(e, s, f))
  BY DEF FieldsOk
<1>2. Config(e)[s][f] = Read(row, Option(e, s, f))
  BY ConfigAt
<1>3. \/ Option(e, s, f) = Blank /\ ~row.required /\ Config(e)[s][f] = row.default
      \/ /\ Option(e, s, f) # Blank /\ Config(e)[s][f] = Option(e, s, f)[row.as]
         /\ Config(e)[s][f] # {} /\ Config(e)[s][f] \subseteq row.of
  BY <1>1, <1>2, Reading, Zenon
<1>4. QED
  BY <1>3, Zenon

\* A number that must be in a range, and whose default is.
LEMMA NumberFits ==
    ASSUME NEW e, FieldsOk(e), NEW s \in Sections(e), NEW f \in DOMAIN Schema[s],
           NEW of, NEW n \in of, Schema[s][f] = Row("number", of, {n})
    PROVE  Config(e)[s][f] \subseteq of
<1> DEFINE row == Row("number", of, {n})
           value == Config(e)[s][f]
<1>1. row.as = "number" /\ row.of = of /\ row.default = {n}
  BY DEF Row
<1>2. row.as # "real"
  BY <1>1
<1>3. value \subseteq row.of \/ value = row.default
  <2> HIDE DEF row, value
  <2>1. row = Schema[s][f]
    BY DEF row
  <2>2. QED
    BY <1>2, <2>1, FieldFits DEF value
<1>4. QED
  BY <1>1, <1>3

\* No counter or time that work is divided or delayed by is zero.
LEMMA NumbersArePositive ==
    ASSUME NEW e, FieldsOk(e)
    PROVE  \A n \in MustBePositive(Config(e)) : n > 0
<1>1. /\ {"httpClient", "idempotency", "legacy", "shutdown", "cluster"} \subseteq DOMAIN RootSchema
      /\ RootSchema["httpClient"] = HttpClientSchema
      /\ RootSchema["idempotency"] = IdempotencySchema
      /\ RootSchema["legacy"] = LegacySchema
      /\ RootSchema["shutdown"] = ShutdownSchema
      /\ RootSchema["cluster"] = ClusterSchema
  BY DEF RootSchema
<1>2. {"httpClient", "idempotency", "legacy", "shutdown", "cluster"} \subseteq Sections(e)
  BY <1>1, Sectioned
<1>3. /\ Schema["httpClient"] = HttpClientSchema /\ Schema["idempotency"] = IdempotencySchema
      /\ Schema["legacy"] = LegacySchema /\ Schema["shutdown"] = ShutdownSchema
      /\ Schema["cluster"] = ClusterSchema
  BY <1>1, Schemas
<1>4. \A d \in {5000, 5, 30000, 86400000, 60000, 10000, 10} : d \in Positive
  BY DEF Positive
<1>5. /\ Config(e)["httpClient"]["timeoutMs"] \subseteq Positive
      /\ Config(e)["httpClient"]["circuitFailureThreshold"] \subseteq Positive
      /\ Config(e)["httpClient"]["circuitResetMs"] \subseteq Positive
  <2>1. /\ "timeoutMs" \in DOMAIN HttpClientSchema
        /\ HttpClientSchema["timeoutMs"] = Row("number", Positive, {5000})
        /\ "circuitFailureThreshold" \in DOMAIN HttpClientSchema
        /\ HttpClientSchema["circuitFailureThreshold"] = Row("number", Positive, {5})
        /\ "circuitResetMs" \in DOMAIN HttpClientSchema
        /\ HttpClientSchema["circuitResetMs"] = Row("number", Positive, {30000})
    BY DEF HttpClientSchema
  <2>2. QED
    BY <1>2, <1>3, <1>4, <2>1, NumberFits
<1>6. /\ Config(e)["idempotency"]["ttlMs"] \subseteq Positive
      /\ Config(e)["idempotency"]["inProgressTtlMs"] \subseteq Positive
  <2>1. /\ "ttlMs" \in DOMAIN IdempotencySchema
        /\ IdempotencySchema["ttlMs"] = Row("number", Positive, {86400000})
        /\ "inProgressTtlMs" \in DOMAIN IdempotencySchema
        /\ IdempotencySchema["inProgressTtlMs"] = Row("number", Positive, {60000})
    BY DEF IdempotencySchema
  <2>2. QED
    BY <1>2, <1>3, <1>4, <2>1, NumberFits
<1>7. Config(e)["legacy"]["timeoutMs"] \subseteq Positive
  <2>1. /\ "timeoutMs" \in DOMAIN LegacySchema
        /\ LegacySchema["timeoutMs"] = Row("number", Positive, {10000})
    BY DEF LegacySchema
  <2>2. QED
    BY <1>2, <1>3, <1>4, <2>1, NumberFits
<1>8. Config(e)["shutdown"]["forceAfterMs"] \subseteq Positive
  <2>1. /\ "forceAfterMs" \in DOMAIN ShutdownSchema
        /\ ShutdownSchema["forceAfterMs"] = Row("number", Positive, {10000})
    BY DEF ShutdownSchema
  <2>2. QED
    BY <1>2, <1>3, <1>4, <2>1, NumberFits
<1>9. Config(e)["cluster"]["respawnMaxPerMinute"] \subseteq Positive
  <2>1. /\ "respawnMaxPerMinute" \in DOMAIN ClusterSchema
        /\ ClusterSchema["respawnMaxPerMinute"] = Row("number", Positive, {10})
    BY DEF ClusterSchema
  <2>2. QED
    BY <1>2, <1>3, <1>4, <2>1, NumberFits
<1>10. "health" \in DOMAIN Config(e) => Config(e)["health"]["concurrency"] \subseteq Positive
  <2> SUFFICES ASSUME "health" \in DOMAIN Config(e)
               PROVE  Config(e)["health"]["concurrency"] \subseteq Positive
    OBVIOUS
  <2>1. "health" \in Sections(e)
    BY DEF Config
  <2>2. /\ "concurrency" \in DOMAIN HealthSchema
        /\ HealthSchema["concurrency"] = Row("number", 1..100, {3})
    BY DEF HealthSchema
  <2>3. 3 \in 1..100 /\ 1..100 \subseteq Positive
    BY DEF Positive
  <2>4. "concurrency" \in DOMAIN Schema["health"]
        /\ Schema["health"]["concurrency"] = Row("number", 1..100, {3})
    BY <2>2, Schemas
  <2>5. Config(e)["health"]["concurrency"] \subseteq 1..100
    BY <2>1, <2>3, <2>4, NumberFits
  <2>6. QED
    BY <2>3, <2>5
<1>11. \A n \in Positive : n > 0
  BY DEF Positive
<1>12. MustBePositive(Config(e)) \subseteq Positive
  BY <1>5, <1>6, <1>7, <1>8, <1>9, <1>10 DEF MustBePositive
<1>13. QED
  BY <1>11, <1>12

-----------------------------------------------------------------------------
(* What a configuration that was accepted is good for *)

\* A port is in the range of a port, also one with a fraction.
LEMMA PortReading ==
    ASSUME NEW row, NEW raw, NEW n, row.as = "real", row.of = Ports, row.default = {n},
           n \in Ports, Accepts(row, raw)
    PROVE  Read(row, raw) \subseteq Ports
<1>1. CASE raw = Blank
  BY <1>1 DEF Read
<1>2. CASE raw # Blank
  <2>1. /\ Read(row, raw) = raw.number \cup raw.fraction /\ raw.number \subseteq row.of
        /\ \A m \in raw.fraction : {m, m + 1} \subseteq row.of
    BY <1>2 DEF Read, Accepts
  <2>2. QED
    BY <2>1
<1>3. QED
  BY <1>1, <1>2

\* A list that must not be empty is not, nor is its default.
LEMMA ListReading ==
    ASSUME NEW row, NEW raw, NEW words, NEW word, row.as = "items",
           row.of = (SUBSET words) \ {{}}, row.default = {{word}}, Accepts(row, raw)
    PROVE  {} \notin Read(row, raw)
<1>1. \/ Read(row, raw) = row.default
      \/ Read(row, raw) \subseteq row.of
  BY Reading
<1>2. {} \notin row.default /\ {} \notin row.of
  <2>1. word \in {word}
    OBVIOUS
  <2>2. {word} # {}
    BY <2>1
  <2>3. QED
    BY <2>2, Zenon
<1>3. QED
  BY <1>1, <1>2

\* What is required is there.
LEMMA RequiredReading ==
    ASSUME NEW of, NEW raw, Accepts(Required("text", of), raw)
    PROVE  raw # Blank /\ raw.text # {} /\ Read(Required("text", of), raw) = raw.text
<1>1. PICK row : row = Required("text", of)
  OBVIOUS
<1>2. row.as = "text" /\ row.required = TRUE
  BY <1>1 DEF Required
<1>3. Accepts(row, raw)
  BY <1>1
<1>4. raw # Blank
  BY <1>2, <1>3, Zenon DEF Accepts
<1>5. raw.text # {} /\ Read(row, raw) = raw.text
  BY <1>2, <1>3, <1>4 DEF Accepts, Read
<1>6. QED
  BY <1>1, <1>4, <1>5

\* The times of the shutdown and the port.
LEMMA TimesAndPort ==
    ASSUME NEW e, FieldsOk(e)
    PROVE  /\ \A n \in Config(e).shutdown.drainDelayMs \cup Config(e).shutdown.jobDrainMs : n >= 0
           /\ \A n \in Config(e).http.port : 0 <= n /\ n <= 65535
<1>1. /\ {"shutdown", "http"} \subseteq DOMAIN RootSchema
      /\ RootSchema["shutdown"] = ShutdownSchema /\ RootSchema["http"] = HttpSchema
  BY DEF RootSchema
<1>2. /\ {"shutdown", "http"} \subseteq Sections(e)
      /\ Schema["shutdown"] = ShutdownSchema /\ Schema["http"] = HttpSchema
  BY <1>1, Sectioned, Schemas
<1>3. /\ {"drainDelayMs", "jobDrainMs"} \subseteq DOMAIN ShutdownSchema
      /\ ShutdownSchema["drainDelayMs"] = Row("number", Int0, {5000})
      /\ ShutdownSchema["jobDrainMs"] = Row("number", Int0, {10000})
  BY DEF ShutdownSchema
<1>4. 5000 \in Int0 /\ 10000 \in Int0
  BY DEF Int0
<1>5. /\ Config(e)["shutdown"]["drainDelayMs"] \subseteq Int0
      /\ Config(e)["shutdown"]["jobDrainMs"] \subseteq Int0
  BY <1>2, <1>3, <1>4, NumberFits
<1>6. Config(e)["http"]["port"] \subseteq Ports
  <2>1. "port" \in DOMAIN HttpSchema /\ HttpSchema["port"] = Row("real", Ports, {3000})
    BY DEF HttpSchema
  <2>2. PICK row : row = HttpSchema["port"]
    OBVIOUS
  <2>3. row.as = "real" /\ row.of = Ports /\ row.default = {3000}
    BY <2>1, <2>2 DEF Row
  <2>4. Accepts(row, Option(e, "http", "port"))
    BY <1>2, <2>1, <2>2 DEF FieldsOk
  <2>5. Config(e)["http"]["port"] = Read(row, Option(e, "http", "port"))
    BY <1>2, <2>1, <2>2, ConfigAt
  <2>6. 3000 \in Ports
    BY DEF Ports
  <2>7. QED
    BY <2>3, <2>4, <2>5, <2>6, PortReading
<1>7. /\ \A n \in Int0 : n >= 0
      /\ \A n \in Ports : 0 <= n /\ n <= 65535
  BY DEF Int0, Ports
<1>8. QED
  BY <1>5, <1>6, <1>7

\* The secret and the algorithms of the tokens.
LEMMA TokensFit ==
    ASSUME NEW e, FieldsOk(e)
    PROVE  Config(e).jwt.secret # {} /\ {} \notin Config(e).jwt.algorithms
<1>1. "jwt" \in DOMAIN RootSchema /\ RootSchema["jwt"] = JwtSchema
  BY DEF RootSchema
<1>2. "jwt" \in Sections(e) /\ Schema["jwt"] = JwtSchema
  BY <1>1, Sectioned, Schemas
<1>3. Config(e)["jwt"]["secret"] # {}
  <2>1. "secret" \in DOMAIN JwtSchema /\ JwtSchema["secret"] = Required("text", LongSecrets)
    BY DEF JwtSchema
  <2>2. Accepts(Required("text", LongSecrets), Option(e, "jwt", "secret"))
    BY <1>2, <2>1 DEF FieldsOk
  <2>3. QED
    BY <1>2, <2>1, <2>2, ConfigAt, RequiredReading
<1>4. {} \notin Config(e)["jwt"]["algorithms"]
  <2>1. PICK words : /\ "algorithms" \in DOMAIN JwtSchema
                     /\ JwtSchema["algorithms"] = Row("items", (SUBSET words) \ {{}}, {{"HS256"}})
    BY DEF JwtSchema
  <2>2. PICK row : row = JwtSchema["algorithms"]
    OBVIOUS
  <2>3. /\ row.as = "items" /\ row.of = (SUBSET words) \ {{}} /\ row.default = {{"HS256"}}
    BY <2>1, <2>2 DEF Row
  <2>4. Accepts(row, Option(e, "jwt", "algorithms"))
    BY <1>2, <2>1, <2>2 DEF FieldsOk
  <2>5. Config(e)["jwt"]["algorithms"] = Read(row, Option(e, "jwt", "algorithms"))
    BY <1>2, <2>1, <2>2, ConfigAt
  <2>6. {} \notin Read(row, Option(e, "jwt", "algorithms"))
    BY <2>3, <2>4, ListReading, Zenon
  <2>7. QED
    BY <2>5, <2>6
<1>5. QED
  BY <1>3, <1>4

-----------------------------------------------------------------------------
(* Sources *)

\* The key and the dialect of a source are not secrets.
LEMMA ResolvedKeeps ==
    ASSUME NEW source, NEW secrets, NEW x, x \notin {"password", "walletPassword"}
    PROVE  Get(Resolved(source, secrets), x) = Get(source, x)
<1>1. ASSUME NEW s, NEW field, field # x, NEW ref
      PROVE  Get(Referred(s, secrets, field, ref), x) = Get(s, x)
  <2>1. ASSUME NEW v PROVE Get(Over(Just(field, v), s), x) = Get(s, x)
    <3>1. DOMAIN Over(Just(field, v), s) = {field} \cup DOMAIN s
      BY DEF Over, Just
    <3>2. x \in DOMAIN s => Over(Just(field, v), s)[x] = s[x]
      BY <1>1 DEF Over, Just
    <3>3. QED
      BY <1>1, <3>1, <3>2 DEF Get
  <2>2. QED
    BY <2>1 DEF Referred
<1>2. QED
  BY <1>1 DEF Resolved

\* What every schema of a source asks of its key.
LEMMA KeyRow ==
    ASSUME NEW d \in DOMAIN SourceSchema
    PROVE  "key" \in DOMAIN SourceSchema[d] /\ SourceSchema[d]["key"] = Required("text", NonEmpty)
<1>1. "key" \in DOMAIN BaseSource /\ BaseSource["key"] = Required("text", NonEmpty)
  BY DEF BaseSource
<1>2. ASSUME NEW f, NEW g, "key" \notin DOMAIN f, "key" \in DOMAIN g
      PROVE  "key" \in DOMAIN Over(f, g) /\ Over(f, g)["key"] = g["key"]
  BY <1>2 DEF Over
<1>3. ASSUME NEW f, NEW g, "key" \notin DOMAIN f, "key" \notin DOMAIN g
      PROVE  "key" \notin DOMAIN Over(f, g)
  BY <1>3 DEF Over
<1>4. "key" \in DOMAIN OracleSource /\ OracleSource["key"] = BaseSource["key"]
  <2>1. "key" \notin DOMAIN OracleCalls /\ "key" \notin DOMAIN OraclePool
        /\ "key" \notin DOMAIN OracleTarget
    BY DEF OracleCalls, OraclePool, OracleTarget
  <2>2. "key" \notin DOMAIN Over(OracleCalls, OraclePool)
    BY <1>3, <2>1
  <2>3. "key" \in DOMAIN Over(OracleTarget, BaseSource)
        /\ Over(OracleTarget, BaseSource)["key"] = BaseSource["key"]
    BY <1>1, <1>2, <2>1
  <2>4. QED
    BY <1>2, <2>2, <2>3 DEF OracleSource
<1>5. ASSUME NEW enc \in {"ssl", "encrypt"}
      PROVE  "key" \in DOMAIN ServerSource(enc) /\ ServerSource(enc)["key"] = BaseSource["key"]
  <2>1. "key" \notin DOMAIN ServerTarget /\ "key" \notin DOMAIN Just(enc, Optional("flag", BOOLEAN))
    BY <1>5 DEF ServerTarget, Just
  <2>2. "key" \notin DOMAIN Over(ServerTarget, Just(enc, Optional("flag", BOOLEAN)))
    BY <1>3, <2>1
  <2>3. QED
    BY <1>1, <1>2, <2>2 DEF ServerSource
<1>6. "key" \in DOMAIN SqliteSource /\ SqliteSource["key"] = BaseSource["key"]
  <2>1. "key" \notin DOMAIN [file |-> Optional("text", NonEmpty), connectionUrl |-> Optional("text", Urls)]
    OBVIOUS
  <2>2. QED
    BY <1>1, <1>2, <2>1 DEF SqliteSource
<1>7. SourceSchema[d] \in {OracleSource, ServerSource("ssl"), ServerSource("encrypt"), SqliteSource}
  BY DEF SourceSchema
<1>8. QED
  BY <1>1, <1>4, <1>5, <1>6, <1>7

\* What the configuration is read from has at most one reading, the list of
\* the sources is a list.
Readable(e) ==
    /\ e.list \in Seq({e.list[i] : i \in DOMAIN e.list})
    /\ \A x \in DOMAIN e.vars : Single(e.vars[x])
    /\ \A x \in DOMAIN e.file : Single(e.file[x])
    /\ \A i \in DOMAIN e.list : \A f \in DOMAIN e.list[i] : Single(e.list[i][f])

\* Looking up a value that may not be there reads as one thing, too.
LEMMA GetIsSingle ==
    ASSUME NEW f, NEW x, \A y \in DOMAIN f : Single(f[y])
    PROVE  Single(Get(f, x))
BY DEF Get, Single, Blank

\* Every source of a valid environment has one key, and no two the same.
LEMMA KeysAreOne ==
    ASSUME NEW e, SourcesOk(e), Readable(e)
    PROVE  /\ \A i \in DOMAIN e.list : \E k : KeyOf(e.list[i]) = {k}
           /\ \A i, j \in DOMAIN e.list : KeyOf(e.list[i]) = KeyOf(e.list[j]) => i = j
           /\ NamesOf(Sources(e)) = UNION {KeyOf(e.list[i]) : i \in DOMAIN e.list}
           /\ DOMAIN e.list = 1..Len(e.list) /\ Len(e.list) \in Nat \ {0}
<1>1. ASSUME NEW i \in DOMAIN e.list PROVE \E k : KeyOf(e.list[i]) = {k}
  <2> DEFINE source == Resolved(e.list[i], e.secrets)
  <2>1. KeyOf(source) = KeyOf(e.list[i])
    BY ResolvedKeeps DEF KeyOf
  <2>2. source \in Sources(e) /\ SourceOk(source)
    BY DEF Sources, SourcesOk
  <2> HIDE DEF source
  <2>3. PICK d \in Dialects(source) : d \in DOMAIN SourceSchema
    BY <2>2 DEF SourceOk, Dialects
  <2>4. Accepts(Required("text", NonEmpty), Get(source, "key"))
    BY <2>2, <2>3, KeyRow DEF SourceOk
  <2>5. Get(source, "key").text # {}
    BY <2>4, RequiredReading
  <2>6. Single(Get(e.list[i], "key"))
    BY GetIsSingle DEF Readable
  <2>7. \A x, y \in KeyOf(e.list[i]) : x = y
    <3>1. "text" \in DOMAIN Blank
      BY DEF Blank
    <3>2. QED
      BY <2>6, <3>1 DEF Single, KeyOf
  <2>8. QED
    BY <2>1, <2>5, <2>7 DEF KeyOf
<1>2. NamesOf(Sources(e)) = UNION {KeyOf(e.list[i]) : i \in DOMAIN e.list}
  <2>1. \A i \in DOMAIN e.list : KeyOf(Resolved(e.list[i], e.secrets)) = KeyOf(e.list[i])
    BY ResolvedKeeps DEF KeyOf
  <2>2. QED
    BY <2>1 DEF NamesOf, Sources
<1>3. DOMAIN e.list = 1..Len(e.list) /\ Len(e.list) \in Nat \ {0}
  <2>1. e.list # <<>>
    BY DEF SourcesOk
  <2>2. QED
    BY <2>1, EmptySeq, LenProperties DEF Readable
<1>4. QED
  BY <1>1, <1>2, <1>3 DEF SourcesOk

\* The first n sources of the list have n keys.
LEMMA PrefixKeys ==
    ASSUME NEW e, SourcesOk(e), Readable(e), NEW n \in 0..Len(e.list)
    PROVE  LET keys == UNION {KeyOf(e.list[i]) : i \in 1..n}
           IN IsFiniteSet(keys) /\ Cardinality(keys) = n
<1> DEFINE keys == UNION {KeyOf(e.list[i]) : i \in 1..n}
           keyAt == [i \in 1..n |-> CHOOSE k : KeyOf(e.list[i]) = {k}]
<1>1. n \in Nat /\ 1..n \subseteq DOMAIN e.list
  BY KeysAreOne
<1>2. \A i \in 1..n : KeyOf(e.list[i]) = {keyAt[i]}
  <2> SUFFICES ASSUME NEW i \in 1..n PROVE KeyOf(e.list[i]) = {keyAt[i]}
    OBVIOUS
  <2>1. \E k : KeyOf(e.list[i]) = {k}
    BY <1>1, KeysAreOne
  <2>2. KeyOf(e.list[i]) = {CHOOSE k : KeyOf(e.list[i]) = {k}}
    BY <2>1
  <2>3. QED
    BY <2>2
<1> HIDE DEF keyAt
<1>3. keys = {keyAt[i] : i \in 1..n}
  <2>1. keys = UNION {{keyAt[i]} : i \in 1..n}
    BY <1>2
  <2>2. UNION {{keyAt[i]} : i \in 1..n} = {keyAt[i] : i \in 1..n}
    OBVIOUS
  <2>3. QED
    BY <2>1, <2>2
<1>4. \A i, j \in 1..n : keyAt[i] = keyAt[j] => i = j
  BY <1>1, <1>2, KeysAreOne
<1>5. keyAt \in [1..n -> keys]
  BY <1>3 DEF keyAt
<1>6. keyAt \in Bijection(1..n, keys)
  BY <1>3, <1>4, <1>5 DEF Bijection, Injection, IsInjective, Surjection
<1>7. ExistsBijection(1..n, keys)
  BY <1>6 DEF ExistsBijection
<1>8. IsFiniteSet(1..n) /\ Cardinality(1..n) = n
  BY <1>1, FS_Interval
<1> HIDE DEF keys
<1>9. IsFiniteSet(keys) /\ Cardinality(keys) = n
  BY <1>7, <1>8, FS_Bijection
<1>10. QED
  BY <1>9 DEF keys

\* A merge keeps what is set on its left side.
LEMMA OverAt ==
    ASSUME NEW f, NEW g, NEW x
    PROVE  /\ x \in DOMAIN f => x \in DOMAIN Over(f, g) /\ Over(f, g)[x] = f[x]
           /\ x \notin DOMAIN f /\ x \in DOMAIN g =>
                 x \in DOMAIN Over(f, g) /\ Over(f, g)[x] = g[x]
BY DEF Over

\* The rows of an Oracle source that a pool is made from.
LEMMA OracleRows ==
    /\ {"connectString", "connectionUrl", "user", "password", "externalAuth",
        "poolMin", "poolMax"} \subseteq DOMAIN OracleSource
    /\ OracleSource["connectString"] = Optional("text", NonEmpty)
    /\ OracleSource["connectionUrl"] = Optional("text", Urls)
    /\ OracleSource["user"] = Optional("text", NonEmpty)
    /\ OracleSource["password"] = Optional("text", NonEmpty)
    /\ OracleSource["externalAuth"] = Row("flag", BOOLEAN, {FALSE})
    /\ OracleSource["poolMin"] = Row("number", Int0, {2})
    /\ OracleSource["poolMax"] = Row("number", Positive, {10})
<1> DEFINE Texts == {"connectString", "connectionUrl", "user", "password", "externalAuth"}
           Pools == {"poolMin", "poolMax"}
           left == Over(OracleCalls, OraclePool)
           right == Over(OracleTarget, BaseSource)
<1>1. /\ Texts \subseteq DOMAIN OracleTarget
      /\ OracleTarget["connectString"] = Optional("text", NonEmpty)
      /\ OracleTarget["connectionUrl"] = Optional("text", Urls)
      /\ OracleTarget["user"] = Optional("text", NonEmpty)
      /\ OracleTarget["password"] = Optional("text", NonEmpty)
      /\ OracleTarget["externalAuth"] = Row("flag", BOOLEAN, {FALSE})
  BY DEF OracleTarget
<1>2. /\ Pools \subseteq DOMAIN OraclePool
      /\ OraclePool["poolMin"] = Row("number", Int0, {2})
      /\ OraclePool["poolMax"] = Row("number", Positive, {10})
  BY DEF OraclePool
<1>3. \A x \in Texts : x \notin DOMAIN OracleCalls /\ x \notin DOMAIN OraclePool
  BY DEF OracleCalls, OraclePool
<1>4. \A x \in Pools : x \notin DOMAIN OracleCalls
  BY DEF OracleCalls
<1>5. \A x \in Texts : x \notin DOMAIN left
  BY <1>3 DEF Over
<1>6. \A x \in Texts : x \in DOMAIN right /\ right[x] = OracleTarget[x]
  BY <1>1, OverAt
<1>7. \A x \in Pools : x \in DOMAIN left /\ left[x] = OraclePool[x]
  BY <1>2, <1>4, OverAt
<1> HIDE DEF left, right, Texts, Pools
<1>8. \A x \in Texts : x \in DOMAIN OracleSource /\ OracleSource[x] = OracleTarget[x]
  BY <1>5, <1>6, OverAt DEF OracleSource, left, right
<1>9. \A x \in Pools : x \in DOMAIN OracleSource /\ OracleSource[x] = OraclePool[x]
  BY <1>7, OverAt DEF OracleSource, left, right
<1>10. QED
  BY <1>1, <1>2, <1>8, <1>9 DEF Texts, Pools

\* An optional text that is given is read, and of its kind.
LEMMA OptionalReading ==
    ASSUME NEW of, NEW raw, Accepts(Optional("text", of), raw), raw.text # {}
    PROVE  Read(Optional("text", of), raw) = raw.text /\ raw.text \subseteq of
<1>1. PICK row : row = Optional("text", of)
  OBVIOUS
<1>2. row.as = "text" /\ row.of = of
  BY <1>1 DEF Optional, Row
<1>3. raw # Blank
  BY DEF Blank
<1>4. Read(row, raw) = raw.text /\ raw.text \subseteq row.of
  BY <1>1, <1>2, <1>3 DEF Read, Accepts
<1>5. QED
  BY <1>1, <1>2, <1>4

\* A number of a source is its default or of its kind.
LEMMA NumberReading ==
    ASSUME NEW of, NEW n \in of, NEW raw, Accepts(Row("number", of, {n}), raw)
    PROVE  Read(Row("number", of, {n}), raw) \subseteq of
<1>1. PICK row : row = Row("number", of, {n})
  OBVIOUS
<1>2. row.as = "number" /\ row.of = of /\ row.default = {n}
  BY <1>1 DEF Row
<1>3. Read(row, raw) = row.default \/ Read(row, raw) \subseteq row.of
  BY <1>1, <1>2, Reading, Zenon
<1>4. QED
  BY <1>1, <1>2, <1>3

\* A source of Oracle that was accepted makes a pool.
LEMMA PoolsFit ==
    ASSUME NEW source, SourceOk(source), Dialects(source) = {"oracle"}
    PROVE  PoolFitsDriver(source)
<1> DEFINE s == Parsed(OracleSource, source)
           a == PoolAttributes(source)
<1>1. /\ \A f \in DOMAIN OracleSource : Accepts(OracleSource[f], Get(source, f))
      /\ Complete("oracle", source) /\ PoolFits(source)
  <2>1. SourceSchema["oracle"] = OracleSource
    BY DEF SourceSchema
  <2>2. QED
    BY <2>1 DEF SourceOk
<1>2. \A f \in DOMAIN OracleSource : s[f] = Read(OracleSource[f], Get(source, f))
  BY DEF Parsed
<1> HIDE DEF s
<1>3. ASSUME NEW f \in {"connectString", "user", "password"}, HasAll(source, {f})
      PROVE  s[f] # {}
  <2>1. Get(source, f).text # {}
    BY <1>3 DEF HasAll
  <2>2. f \in DOMAIN OracleSource /\ OracleSource[f] = Optional("text", NonEmpty)
    BY <1>3, OracleRows
  <2>3. QED
    BY <1>1, <1>2, <2>1, <2>2, OptionalReading
<1>4. ASSUME HasAll(source, {"connectionUrl"})
      PROVE  s["connectionUrl"] \cap Urls # {} /\ Get(source, "connectionUrl") # Blank
  <2>1. Get(source, "connectionUrl").text # {} /\ Blank.text = {}
    BY <1>4 DEF HasAll, Blank
  <2>2. /\ s["connectionUrl"] = Get(source, "connectionUrl").text
        /\ Get(source, "connectionUrl").text \subseteq Urls
    BY <1>1, <1>2, <2>1, OracleRows, OptionalReading
  <2>3. QED
    BY <2>1, <2>2
<1>5. ASSUME Get(source, "externalAuth").flag = {TRUE} PROVE On(s["externalAuth"])
  <2>1. PICK row : row = OracleSource["externalAuth"]
    OBVIOUS
  <2>2. row.as = "flag"
    BY <2>1, OracleRows DEF Row
  <2>3. Get(source, "externalAuth") # Blank
    <3>1. Blank.flag = {}
      BY DEF Blank
    <3>2. {TRUE} # {}
      <4>1. TRUE \in {TRUE}
        OBVIOUS
      <4>2. QED
        BY <4>1, Zenon
    <3>3. QED
      BY <1>5, <3>1, <3>2, Zenon
  <2>4. Read(row, Get(source, "externalAuth")) = {TRUE}
    BY <1>5, <2>2, <2>3 DEF Read
  <2>5. QED
    BY <1>2, <2>1, <2>4, OracleRows DEF On
<1>6. \/ HasAll(source, {"connectionUrl"})
      \/ /\ HasAll(source, {"connectString"})
         /\ HasAll(source, {"user", "password"}) \/ Get(source, "externalAuth").flag = {TRUE}
  BY <1>1 DEF Complete
<1>7. HasAll(source, {"user", "password"}) => HasAll(source, {"user"}) /\ HasAll(source, {"password"})
  BY DEF HasAll
<1>8. /\ a.user = IF On(s["externalAuth"]) THEN {}
                  ELSE IF s["user"] # {} THEN s["user"] ELSE s["connectionUrl"] \cap UserUrls
      /\ a.password = IF On(s["externalAuth"]) THEN {}
                  ELSE IF s["password"] # {} THEN s["password"] ELSE s["connectionUrl"] \cap UserUrls
      /\ a.connectString = IF s["connectString"] # {} THEN s["connectString"]
                           ELSE s["connectionUrl"] \cap Urls
      /\ a.externalAuth = s["externalAuth"]
      /\ a.poolMin = s["poolMin"] /\ a.poolMax = s["poolMax"]
  BY DEF PoolAttributes, s
<1> HIDE DEF a
<1>9. a.connectString # {}
  BY <1>3, <1>4, <1>6, <1>8
<1>10. On(a.externalAuth) \/ Get(source, "connectionUrl") # Blank
          \/ (a.user # {} /\ a.password # {})
  BY <1>3, <1>4, <1>5, <1>6, <1>7, <1>8
<1>11. s["poolMin"] \subseteq Int0 /\ s["poolMax"] \subseteq Positive
  <2>1. 2 \in Int0 /\ 10 \in Positive
    BY DEF Int0, Positive
  <2>2. QED
    BY <1>1, <1>2, <2>1, OracleRows, NumberReading
<1>12. \A min \in s["poolMin"], max \in s["poolMax"] : min <= max
  BY <1>1 DEF PoolFits, s
<1>13. \A min \in a.poolMin, max \in a.poolMax : 0 <= min /\ min <= max /\ max > 0
  BY <1>8, <1>11, <1>12 DEF Int0, Positive
<1>14. QED
  BY <1>9, <1>10, <1>13 DEF PoolFitsDriver, a

-----------------------------------------------------------------------------
(* What can be read stays what it is *)

\* The merge of the file into the environment reads each value in one way.
LEMMA LoadingReadable ==
    ASSUME NEW e, DOMAIN e = EnvFields, Readable(e)
    PROVE  Readable(LoadEnvFiles(e))
<1>1. CASE Get(e.vars, "NODE_ENV") \in {Word("test"), Word("testing")}
  BY <1>1 DEF LoadEnvFiles
<1>2. CASE Get(e.vars, "NODE_ENV") \notin {Word("test"), Word("testing")}
  <2> DEFINE d == LoadEnvFiles(e)
  <2>1. d = [e EXCEPT !.vars = Over(e.vars, e.file)]
    BY <1>2 DEF LoadEnvFiles
  <2>2. d.vars = Over(e.vars, e.file) /\ d.file = e.file /\ d.list = e.list
    BY <2>1 DEF EnvFields
  <2> HIDE DEF d
  <2>3. \A x \in DOMAIN d.vars : Single(d.vars[x])
    <3> SUFFICES ASSUME NEW x \in DOMAIN d.vars PROVE Single(d.vars[x])
      OBVIOUS
    <3>1. \/ x \in DOMAIN e.vars /\ d.vars[x] = e.vars[x]
          \/ x \in DOMAIN e.file /\ d.vars[x] = e.file[x]
      BY <2>2 DEF Over
    <3>2. QED
      BY <3>1 DEF Readable
  <2>4. Readable(d)
    BY <2>2, <2>3 DEF Readable
  <2>5. QED
    BY <2>4 DEF d
<1>3. QED
  BY <1>1, <1>2

\* So does the flag that the primary sets for a worker.
LEMMA FlagIsSingle == \A flag \in Flags : Single(flag)
<1>1. ASSUME NEW w \in {"true", "false"} PROVE Single(Word(w))
  <2>1. DOMAIN Blank = {"text", "number", "fraction", "flag", "items"}
    BY DEF Blank
  <2>2. FlagOf(w) = {TRUE} \/ FlagOf(w) = {FALSE}
    BY <1>1 DEF FlagOf
  <2>3. /\ Word(w)["text"] = {w} /\ Word(w)["number"] = {} /\ Word(w)["fraction"] = {}
        /\ Word(w)["flag"] = FlagOf(w) /\ Word(w)["items"] = {{w}}
    BY DEF Word
  <2>4. \A x, y \in FlagOf(w) : x = y
    BY <2>2, Zenon
  <2>5. ASSUME NEW kind \in DOMAIN Blank, NEW x \in Word(w)[kind], NEW y \in Word(w)[kind]
        PROVE  x = y
    <3>1. CASE kind = "flag"
      BY <2>3, <2>4, <2>5, <3>1, Zenon
    <3>2. CASE kind # "flag"
      <4>1. Word(w)[kind] \in {{}, {w}, {{w}}}
        BY <2>1, <2>3, <2>5, <3>2, Zenon
      <4>2. CASE Word(w)[kind] = {}
        BY <2>5, <4>2
      <4>3. CASE Word(w)[kind] = {w}
        BY <2>5, <4>3
      <4>4. CASE Word(w)[kind] = {{w}}
        BY <2>5, <4>4
      <4>5. QED
        BY <4>1, <4>2, <4>3, <4>4
    <3>3. QED
      BY <3>1, <3>2
  <2>6. QED
    BY <2>5 DEF Single
<1>2. QED
  BY <1>1 DEF Flags

\* No step of a boot makes a value ambiguous.
LEMMA StaysReadable == Readable(env) /\ PInv /\ [Next]_bootstrapVars => Readable(env)'
<1> SUFFICES ASSUME Readable(env), PInv, [Next]_bootstrapVars PROVE Readable(env')
  BY DEF Readable
<1>1. DOMAIN env = EnvFields
  BY DEF PInv, Typed
<1>2. \/ env' = env
      \/ env' = LoadEnvFiles(env)
      \/ \E w \in Nat : env' = ForkEnv(w)
  <2>1. CASE StartPrimary
    <3>1. CASE Fail
      BY <3>1 DEF Fail
    <3>2. ASSUME NEW n \in config.cluster.workers,
                 NEW w \in 1..resolveWorkerCount(n, Cpus), env' = ForkEnv(w)
          PROVE  \E v \in Nat : env' = ForkEnv(v)
      BY <3>2
    <3>3. QED
      BY <2>1, <3>1, <3>2 DEF StartPrimary
  <2>2. CASE ~StartPrimary
    BY <2>2 DEF Next, Steps, bootstrapVars, process, LoadConfig, LoadTls, NoDatabase,
       CreateClient, CreateFails, PoolsCreated, Ping, Pinged, BuildStore, BuildForwarder,
       StartJobs, Listen, InstallHandlers, Signal, Goto, Fail
  <2>3. QED
    BY <2>1, <2>2
<1>3. ASSUME NEW w \in Nat, env' = ForkEnv(w) PROVE Readable(env')
  <2> DEFINE flag == Word(IF w = 1 THEN "true" ELSE "false")
  <2>1. /\ env'.vars = Over(Just("CLUSTER_LEADER", flag), env.vars)
        /\ env'.file = env.file /\ env'.list = env.list
    BY <1>1, <1>3 DEF ForkEnv, EnvFields
  <2>2. Single(flag)
    BY FlagIsSingle DEF Flags
  <2> HIDE DEF flag
  <2>3. \A x \in DOMAIN env'.vars : Single(env'.vars[x])
    <3> SUFFICES ASSUME NEW x \in DOMAIN env'.vars PROVE Single(env'.vars[x])
      OBVIOUS
    <3>1. \/ env'.vars[x] = flag
          \/ x \in DOMAIN env.vars /\ env'.vars[x] = env.vars[x]
      BY <2>1 DEF Over, Just
    <3>2. QED
      BY <2>2, <3>1 DEF Readable
  <2>4. QED
    BY <2>1, <2>3 DEF Readable
<1>4. QED
  BY <1>1, <1>2, <1>3, LoadingReadable

\* Every value has one reading throughout.
LEMMA AlwaysReadable == Spec => []Readable(env)
<1>1. Init => Readable(env)
  BY ReadingAssumption DEF Init, Readable
<1>2. QED
  BY <1>1, StaysReadable, ProcessInvariant, PTL DEF Spec

\* Whatever environment is accepted, the rest of the program can rely on what
\* it takes for granted: no counter or time it divides the work by is zero, no
\* switch is on without what it needs, every source has a key of its own and
\* every pool somewhere to connect to, and someone to connect as.
THEOREM AcceptedConfigFits == Spec => []ConfigFits
<1>1. PInv /\ Readable(env) => ConfigFits
  <2> SUFFICES ASSUME PInv, Readable(env), phase = "tls"
               PROVE  /\ \A n \in MustBePositive(config) : n > 0
                      /\ \A n \in config.shutdown.drainDelayMs \cup config.shutdown.jobDrainMs : n >= 0
                      /\ \A n \in config.http.port : 0 <= n /\ n <= 65535
                      /\ On(config.tls.enabled) => {} \notin {config.tls.keyFile, config.tls.certFile}
                      /\ On(config.legacy.forwardEnabled) => config.legacy.targetUrl # {}
                      /\ config.http.throttleStorage = {"redis"} => config.http.throttleRedisUrl # {}
                      /\ config.jwt.secret # {} /\ {} \notin config.jwt.algorithms
                      /\ HasDatabase =>
                            /\ Cardinality(NamesOf(Sources(env))) = Len(env.list) /\ env.list # <<>>
                            /\ \A source \in OfOracle(env) : PoolFitsDriver(source)
    BY DEF ConfigFits
  <2>1. config = Config(env) /\ Valid(env)
    BY DEF PInv, Informed, Booted
  <2>2. FieldsOk(env) /\ (HasDatabase => SourcesOk(env))
    BY <2>1 DEF Valid, HasDatabase
  <2>3. ThrottleOk(config.http) /\ LegacyOk(config.legacy) /\ TlsOk(config.tls)
    BY <2>1 DEF Valid
  <2>4. HasDatabase => Cardinality(NamesOf(Sources(env))) = Len(env.list) /\ env.list # <<>>
    <3> SUFFICES ASSUME HasDatabase
                 PROVE  Cardinality(NamesOf(Sources(env))) = Len(env.list) /\ env.list # <<>>
      OBVIOUS
    <3>1. SourcesOk(env) /\ env.list # <<>>
      BY <2>2 DEF SourcesOk
    <3>2. /\ NamesOf(Sources(env)) = UNION {KeyOf(env.list[i]) : i \in 1..Len(env.list)}
          /\ Len(env.list) \in 0..Len(env.list)
      BY <3>1, KeysAreOne
    <3>3. QED
      BY <3>1, <3>2, PrefixKeys
  <2>5. HasDatabase => \A source \in OfOracle(env) : PoolFitsDriver(source)
    BY <2>2, PoolsFit DEF OfOracle, SourcesOk
  <2>6. \A n \in MustBePositive(config) : n > 0
    BY <2>1, <2>2, NumbersArePositive
  <2>7. /\ \A n \in config.shutdown.drainDelayMs \cup config.shutdown.jobDrainMs : n >= 0
        /\ \A n \in config.http.port : 0 <= n /\ n <= 65535
    BY <2>1, <2>2, TimesAndPort
  <2>8. config.jwt.secret # {} /\ {} \notin config.jwt.algorithms
    BY <2>1, <2>2, TokensFit
  <2>9. /\ On(config.tls.enabled) => {} \notin {config.tls.keyFile, config.tls.certFile}
        /\ On(config.legacy.forwardEnabled) => config.legacy.targetUrl # {}
        /\ config.http.throttleStorage = {"redis"} => config.http.throttleRedisUrl # {}
    BY <2>3 DEF ThrottleOk, LegacyOk, TlsOk
  <2>10. QED
    BY <2>4, <2>5, <2>6, <2>7, <2>8, <2>9
<1>2. QED
  BY <1>1, ProcessInvariant, AlwaysReadable, PTL

-----------------------------------------------------------------------------
(* The way to an open port *)

Provided == {"providers", "middleware", "starting", "listening", "bound", "serving"}

\* Where a process is, and what it can have.
Phased ==
    /\ phase \in Phases
    /\ driver \in BOOLEAN /\ armed \in BOOLEAN /\ port \in BOOLEAN /\ handlers \in BOOLEAN
    /\ port => phase \in {"bound", "serving", "killed"}
    /\ clients \subseteq Implemented \cup Placeholders

\* A worker is one of those that were forked, by a primary of a cluster, and
\* will find that it is in one.
Followed ==
    /\ forked \in Nat /\ worker \in 0..forked
    /\ phase = "primary" \/ (worker > 0 /\ phase \in Booted) => On(config.cluster.enabled)
    /\ worker > 0 /\ phase = "loading" => On(Config(LoadEnvFiles(env)).cluster.enabled)

\* What is configured is what has been read last.
Loaded ==
    /\ config = <<>> \/ config = Config(env)
    /\ phase = "loading" => config = <<>>

\* The sources are those the pings know.
NamesFit ==
    /\ NamesOf(OfOracle(env)) = Implemented
    /\ NamesOf(Sources(env) \ OfOracle(env)) = Placeholders

Named ==
    HasDatabase /\ (phase \in Booted \/ (phase = "loading" /\ Valid(LoadEnvFiles(env)))) => NamesFit

\* The first n sources have their client.
OpenedUpTo(n) ==
    /\ n \in 0..Len(env.list)
    /\ clients = UNION {KeyOf(env.list[i]) : i \in 1..n}
    /\ driver <=> \E i \in 1..n : Dialects(env.list[i]) = {"oracle"}

AllOpened == clients = NamesOf(Sources(env)) /\ (driver <=> OfOracle(env) # {})

Opened ==
    /\ phase \in {"loading", "tls", "primary"} => clients = {} /\ ~driver
    /\ phase = "pools" /\ HasDatabase => OpenedUpTo(Cardinality(clients))
    /\ phase \in Provided \cup {"pinging"} /\ HasDatabase => AllOpened

\* The pings were heard, if they were asked for.
Heard == phase \in Provided /\ HasDatabase /\ On(config.health.pingOnBoot) => boot = "up"

\* What only the providers check.
Checked ==
    /\ phase \in Provided \ {"providers"} /\ config.idempotency.store = {"oracle"} =>
          config.idempotency.table \subseteq Tables
    /\ phase \in Provided \ {"providers", "middleware"} /\ On(config.legacy.forwardEnabled) =>
          config.legacy.targetUrl \subseteq Urls

Flow == Phased /\ Followed /\ Loaded /\ Named /\ Opened /\ Heard /\ Checked /\ ServesAsConfigured

\* A process that has done nothing has gone through its phases in order.
LEMMA FlowStarts == Init => Flow
<1> SUFFICES ASSUME Init PROVE Flow
  OBVIOUS
<1>1. Phased
  BY DEF Init, Phased, Phases
<1>2. Followed /\ Loaded /\ Heard /\ Checked /\ ServesAsConfigured
  BY DEF Init, Followed, Loaded, Heard, Checked, ServesAsConfigured, Booted, Provided
<1>3. Opened
  BY DEF Init, Opened, Provided
<1>4. Named
  <2> SUFFICES ASSUME HasDatabase, Valid(LoadEnvFiles(env)) PROVE NamesFit
    BY DEF Init, Named, Booted
  <2>1. DOMAIN env = EnvFields
    BY BootstrapAssumption DEF Init, EnvFields
  <2>2. PICK e : e = LoadEnvFiles(env)
    OBVIOUS
  <2>3. e.json = env.json /\ e.list = env.list /\ e.secrets = env.secrets
    BY <2>1, <2>2, Loading
  <2>4. Configures(e)
    BY <2>2, <2>3 DEF Init, HasDatabase
  <2>5. Sources(e) = Sources(env) /\ OfOracle(e) = OfOracle(env)
    BY <2>3 DEF Sources, OfOracle
  <2>6. QED
    BY <2>4, <2>5 DEF Configures, NamesFit
<1>5. QED
  BY <1>1, <1>2, <1>3, <1>4 DEF Flow

\* The sources are those of the list and of the secrets.
LEMMA SameSources ==
    ASSUME env'.list = env.list, env'.secrets = env.secrets
    PROVE  /\ Sources(env') = Sources(env) /\ OfOracle(env') = OfOracle(env)
           /\ NamesFit' <=> NamesFit
<1>1. Sources(env') = Sources(env)
  BY DEF Sources
<1>2. OfOracle(env') = OfOracle(env)
  BY <1>1 DEF OfOracle
<1>3. QED
  BY <1>1, <1>2 DEF NamesFit

\* A process that ends changes nothing else.
LEMMA EndingKeepsFlow ==
    ASSUME Flow, phase' \in {"exited", "killed"}, phase' = "exited" => ~port,
           UNCHANGED <<env, config, worker, forked, driver, clients, armed, port, handlers>>,
           UNCHANGED bootVars
    PROVE  Flow'
<1>1. Phased'
  BY DEF Flow, Phased, Phases
<1>2. Followed' /\ Loaded' /\ Named' /\ Opened' /\ Heard' /\ Checked'
  BY DEF Flow, Followed, Loaded, Named, Opened, Heard, Checked, Booted, Provided
<1>3. ServesAsConfigured'
  BY DEF Flow, ServesAsConfigured, HasDatabase, reqSet, bootVars
<1>4. QED
  BY <1>1, <1>2, <1>3 DEF Flow

\* A configuration that is accepted fits, and one that is not ends the process.
LEMMA LoadConfigKeepsFlow ==
    ASSUME PInv, Flow, LoadConfig
    PROVE  Flow'
<1> DEFINE e == LoadEnvFiles(env)
<1>1. CASE ~Valid(e) /\ Fail
  BY <1>1, EndingKeepsFlow DEF LoadConfig, Fail, Flow, Phased
<1>2. CASE Valid(e)
  <2>1. /\ phase = "loading" /\ phase' = "tls" /\ env' = e /\ config' = Config(e)
        /\ UNCHANGED <<worker, forked, driver, clients, armed, port, handlers>>
        /\ UNCHANGED bootVars
    BY <1>2 DEF LoadConfig
  <2>2. DOMAIN env = EnvFields
    BY DEF PInv, Typed
  <2>3. env'.json = env.json /\ env'.list = env.list /\ env'.secrets = env.secrets
    BY <2>1, <2>2, Loading
  <2>4. ~port
    BY <2>1 DEF Flow, Phased
  <2>5. Phased' /\ ServesAsConfigured'
    BY <2>1, <2>4 DEF Flow, Phased, Phases, ServesAsConfigured
  <2>6. Named'
    BY <1>2, <2>1, <2>3, SameSources DEF Flow, Named, HasDatabase
  <2>7. Opened'
    BY <2>1 DEF Flow, Opened, Provided
  <2>8. Followed' /\ Loaded' /\ Heard' /\ Checked'
    BY <2>1 DEF Flow, Followed, Loaded, Heard, Checked, Booted, Provided
  <2>9. QED
    BY <2>5, <2>6, <2>7, <2>8 DEF Flow
<1>3. QED
  BY <1>1, <1>2 DEF LoadConfig

\* The number of workers is a number.
LEMMA WorkersAreCounted ==
    ASSUME NEW e, FieldsOk(e), NEW n \in Config(e).cluster.workers
    PROVE  n \in Nat /\ resolveWorkerCount(n, Cpus) \in Nat \ {0}
<1>1. "workers" \in DOMAIN ClusterSchema /\ ClusterSchema["workers"] = Row("number", Int0, {0})
  BY DEF ClusterSchema
<1>2. "cluster" \in Sections(e) /\ "workers" \in DOMAIN Schema["cluster"]
      /\ Schema["cluster"]["workers"] = Row("number", Int0, {0})
  BY <1>1, Sectioned
<1>3. Config(e)["cluster"]["workers"] \subseteq Int0
  BY <1>2, NumberFits DEF Int0
<1>4. n \in Nat
  BY <1>3 DEF Int0
<1>5. QED
  BY <1>4, BootstrapAssumption DEF resolveWorkerCount

\* The workers of a primary are numbered from one, and begin again.
LEMMA StartPrimaryKeepsFlow ==
    ASSUME PInv, Flow, StartPrimary
    PROVE  Flow'
<1>1. CASE Fail
  BY <1>1, EndingKeepsFlow DEF StartPrimary, Fail, Flow, Phased
<1>2. ASSUME NEW n \in config.cluster.workers,
             NEW w \in 1..resolveWorkerCount(n, Cpus),
             forked' = resolveWorkerCount(n, Cpus), worker' = w, env' = ForkEnv(w),
             config' = <<>>, phase' = "loading",
             UNCHANGED <<driver, clients, armed, port, handlers>>
      PROVE  Flow'
  <2>1. phase = "primary" /\ UNCHANGED bootVars
    BY DEF StartPrimary
  <2>2. Valid(env) /\ Merged(env) /\ PemsFit(Config(env)) /\ config = Config(env) /\ DOMAIN env = EnvFields
    BY <2>1 DEF PInv, Informed, Booted, Typed
  <2>3. forked' \in Nat \ {0} /\ w \in 1..forked'
    BY <1>2, <2>2, WorkersAreCounted DEF Valid
  <2> DEFINE flag == Word(IF w = 1 THEN "true" ELSE "false")
             l == LoadEnvFiles(env')
  <2>4. /\ DOMAIN env' = EnvFields
        /\ env'.vars = Over(Just("CLUSTER_LEADER", flag), env.vars)
        /\ env'.file = env.file /\ env'.json = env.json
        /\ env'.list = env.list /\ env'.secrets = env.secrets
    BY <1>2, <2>2 DEF ForkEnv, EnvFields
  <2>5. flag \in Flags
    BY DEF Flags
  <2>6. Config(l).cluster.enabled = config.cluster.enabled
    BY <2>2, <2>4, <2>5, Forking
  <2>7. On(config.cluster.enabled) /\ clients = {} /\ ~driver /\ ~port
    BY <2>1 DEF Flow, Followed, Opened, Phased
  <2>8. Phased' /\ ServesAsConfigured'
    BY <1>2, <2>7 DEF Flow, Phased, Phases, ServesAsConfigured
  <2>9. Followed'
    BY <1>2, <2>3, <2>6, <2>7 DEF Followed, Booted
  <2>10. Named'
    BY <2>1, <2>4, SameSources DEF Flow, Named, HasDatabase, Booted
  <2>11. Opened'
    BY <1>2, <2>7 DEF Opened, Provided
  <2>12. Loaded' /\ Heard' /\ Checked'
    BY <1>2 DEF Loaded, Heard, Checked, Provided
  <2>13. QED
    BY <2>8, <2>9, <2>10, <2>11, <2>12 DEF Flow
<1>3. QED
  BY <1>1, <1>2 DEF StartPrimary

\* Past the PEM files, the names of the sources are the keys of the list.
LEMMA LoadTlsKeepsFlow ==
    ASSUME PInv, Readable(env), Flow, LoadTls
    PROVE  Flow'
<1>1. CASE Fail
  BY <1>1, EndingKeepsFlow DEF LoadTls, Fail, Flow, Phased
<1>2. ASSUME Goto(IF IsPrimary THEN "primary" ELSE "pools") PROVE Flow'
  <2>1. /\ phase = "tls" /\ phase' = (IF IsPrimary THEN "primary" ELSE "pools")
        /\ UNCHANGED <<env, config, worker, forked, driver, clients, armed, port, handlers>>
        /\ UNCHANGED bootVars
    BY <1>2 DEF LoadTls, Goto
  <2>2. clients = {} /\ ~driver /\ ~port
    BY <2>1 DEF Flow, Opened, Phased
  <2>3. Phased' /\ ServesAsConfigured'
    BY <2>1, <2>2 DEF Flow, Phased, Phases, ServesAsConfigured
  <2>4. Followed' /\ Loaded' /\ Named' /\ Heard' /\ Checked'
    <3>1. Followed'
      BY <2>1 DEF Flow, Followed, Booted, IsPrimary
    <3>2. NamesFit' <=> NamesFit
      BY <2>1, SameSources
    <3>3. QED
      BY <2>1, <3>1, <3>2 DEF Flow, Loaded, Named, HasDatabase, Heard, Checked, Booted, Provided
  <2>5. Opened'
    <3>1. Cardinality(clients) = 0
      BY <2>2, FS_EmptySet
    <3>2. Len(env.list) \in Nat
      BY LenProperties DEF Readable
    <3>3. OpenedUpTo(0)
      BY <2>2, <3>2 DEF OpenedUpTo
    <3>4. OpenedUpTo(0)'
      BY <2>1, <3>3 DEF OpenedUpTo
    <3>5. QED
      BY <2>1, <2>2, <3>1, <3>4 DEF Opened, Provided
  <2>6. QED
    BY <2>3, <2>4, <2>5 DEF Flow
<1>3. QED
  BY <1>1, <1>2 DEF LoadTls

\* All clients are those of all sources.
LEMMA AllAreOpened ==
    ASSUME SourcesOk(env), Readable(env), OpenedUpTo(Len(env.list))
    PROVE  AllOpened
<1>1. DOMAIN env.list = 1..Len(env.list)
      /\ NamesOf(Sources(env)) = UNION {KeyOf(env.list[i]) : i \in DOMAIN env.list}
  BY KeysAreOne
<1>2. \A i \in DOMAIN env.list :
          Dialects(Resolved(env.list[i], env.secrets)) = Dialects(env.list[i])
  BY ResolvedKeeps DEF Dialects
<1>3. OfOracle(env) # {} <=> \E i \in 1..Len(env.list) : Dialects(env.list[i]) = {"oracle"}
  BY <1>1, <1>2 DEF OfOracle, Sources
<1>4. QED
  BY <1>1, <1>3 DEF OpenedUpTo, AllOpened

\* Going on to a phase before the port is open keeps what the phase does not
\* change.
LEMMA GoingOn ==
    ASSUME Flow, phase \in {"pools", "pinging", "providers", "middleware", "starting"},
           phase' \in {"pools", "pinging", "providers", "middleware", "starting", "listening"},
           UNCHANGED <<env, config, worker, forked, port, handlers>>,
           armed' \in BOOLEAN, driver' \in BOOLEAN,
           clients' \subseteq Implemented \cup Placeholders
    PROVE  Phased' /\ Followed' /\ Loaded' /\ Named' /\ ServesAsConfigured'
<1>1. ~port
  BY DEF Flow, Phased
<1>2. Phased' /\ ServesAsConfigured'
  BY <1>1 DEF Flow, Phased, Phases, ServesAsConfigured
<1>3. NamesFit' <=> NamesFit
  BY SameSources
<1>4. QED
  BY <1>2, <1>3 DEF Flow, Followed, Loaded, Named, HasDatabase, Booted

\* In a phase with a configuration it is the one of the environment, and the
\* sources are right.
LEMMA IsRead ==
    ASSUME PInv, phase \in Booted
    PROVE  /\ config = Config(env) /\ Valid(env) /\ FieldsOk(env)
           /\ HasDatabase => SourcesOk(env)
BY DEF PInv, Informed, Valid, HasDatabase

\* A pool is opened for the next source of the list, once.
LEMMA CreateClientKeepsFlow ==
    ASSUME PInv, Readable(env), Flow, CreateClient
    PROVE  Flow'
<1> DEFINE n == Cardinality(clients)
<1>1. /\ phase = "pools" /\ HasDatabase /\ n < Len(env.list)
      /\ clients' = clients \cup KeyOf(env.list[n + 1])
      /\ driver' = (driver \/ Dialects(env.list[n + 1]) = {"oracle"})
      /\ UNCHANGED <<env, config, phase, worker, forked, armed, port, handlers>>
      /\ UNCHANGED bootVars
  BY DEF CreateClient, NextSource, InitDriver
<1>2. SourcesOk(env)
  BY <1>1, IsRead DEF Booted
<1>3. OpenedUpTo(n)
  BY <1>1 DEF Flow, Opened
<1> HIDE DEF n
<1>4. n \in Nat /\ Len(env.list) \in Nat /\ n + 1 \in 0..Len(env.list) /\ DOMAIN env.list = 1..Len(env.list)
  BY <1>1, <1>2, <1>3, KeysAreOne DEF OpenedUpTo
<1>5. 1..(n + 1) = 1..n \cup {n + 1}
  BY <1>4
<1>6. clients' = UNION {KeyOf(env.list[i]) : i \in 1..(n + 1)}
  BY <1>1, <1>3, <1>5 DEF OpenedUpTo
<1>7. Cardinality(clients') = n + 1
  BY <1>2, <1>4, <1>6, PrefixKeys
<1>8. OpenedUpTo(Cardinality(clients))'
  <2>1. driver' <=> \E i \in 1..(n + 1) : Dialects(env.list[i]) = {"oracle"}
    BY <1>1, <1>3, <1>5 DEF OpenedUpTo
  <2>2. QED
    BY <1>1, <1>4, <1>6, <1>7, <2>1 DEF OpenedUpTo
<1>9. clients' \subseteq Implemented \cup Placeholders
  <2>1. NamesFit
    BY <1>1 DEF Flow, Named, Booted
  <2>2. KeyOf(env.list[n + 1]) \subseteq NamesOf(Sources(env))
    <3>1. NamesOf(Sources(env)) = UNION {KeyOf(env.list[i]) : i \in DOMAIN env.list}
      BY <1>2, KeysAreOne
    <3>2. n + 1 \in DOMAIN env.list
      BY <1>4
    <3>3. QED
      BY <3>1, <3>2
  <2>3. NamesOf(Sources(env)) \subseteq Implemented \cup Placeholders
    BY <2>1 DEF NamesFit, NamesOf
  <2>4. QED
    BY <1>1, <2>2, <2>3 DEF Flow, Phased
<1>10. driver' \in BOOLEAN
  BY <1>1
<1>11. Phased' /\ Followed' /\ Loaded' /\ Named' /\ ServesAsConfigured'
  BY <1>1, <1>9, <1>10, GoingOn DEF Flow, Phased
<1>12. Opened' /\ Heard' /\ Checked'
  BY <1>1, <1>8 DEF Opened, Heard, Checked, Provided
<1>13. QED
  BY <1>11, <1>12 DEF Flow

\* From the pools to the pings or to the providers.
LEMMA PoolsKeepFlow ==
    ASSUME PInv, Readable(env), Flow, NoDatabase \/ PoolsCreated
    PROVE  Flow'
<1>1. /\ phase = "pools"
      /\ \/ ~HasDatabase /\ phase' = "providers"
         \/ /\ HasDatabase /\ Cardinality(clients) = Len(env.list)
            /\ phase' = IF On(config.health.pingOnBoot) THEN "pinging" ELSE "providers"
      /\ UNCHANGED <<env, config, worker, forked, driver, clients, armed, port, handlers>>
      /\ UNCHANGED bootVars
  BY DEF NoDatabase, PoolsCreated, Goto
<1>2. HasDatabase => AllOpened
  BY <1>1, IsRead, AllAreOpened DEF Flow, Opened, Booted
<1>3. AllOpened' <=> AllOpened
  BY <1>1, SameSources DEF AllOpened
<1>4. Phased' /\ Followed' /\ Loaded' /\ Named' /\ ServesAsConfigured'
  BY <1>1, GoingOn DEF Flow, Phased
<1>5. Opened'
  BY <1>1, <1>2, <1>3 DEF Opened, HasDatabase, Provided
<1>6. Heard' /\ Checked'
  BY <1>1 DEF Heard, Checked, Provided, HasDatabase
<1>7. QED
  BY <1>4, <1>5, <1>6 DEF Flow

\* The pings, and what comes of them.
LEMMA PingsKeepFlow ==
    ASSUME PInv, Flow, Ping \/ Pinged
    PROVE  Flow'
<1>1. CASE Pinged /\ Fail
  BY <1>1, EndingKeepsFlow DEF Pinged, Fail, Flow, Phased
<1>2. CASE Ping \/ (Pinged /\ boot = "up" /\ Goto("providers"))
  <2>1. /\ phase = "pinging"
        /\ \/ phase' = "pinging"
           \/ phase' = "providers" /\ boot' = "up"
        /\ UNCHANGED <<env, config, worker, forked, driver, clients, armed, port, handlers>>
    BY <1>2 DEF Ping, Pinged, Goto, process, bootVars
  <2>2. AllOpened' <=> AllOpened
    BY <2>1, SameSources DEF AllOpened
  <2>3. Phased' /\ Followed' /\ Loaded' /\ Named' /\ ServesAsConfigured'
    BY <2>1, GoingOn DEF Flow, Phased
  <2>4. Opened' /\ Heard' /\ Checked'
    BY <2>1, <2>2 DEF Flow, Opened, Heard, Checked, HasDatabase, Provided
  <2>5. QED
    BY <2>3, <2>4 DEF Flow
<1>3. QED
  BY <1>1, <1>2 DEF Pinged

\* The application is built: the store, the forwarder, the jobs.
LEMMA BuildingKeepsFlow ==
    ASSUME PInv, Flow, BuildStore \/ BuildForwarder \/ StartJobs
    PROVE  Flow'
<1>1. CASE Fail
  BY <1>1, EndingKeepsFlow DEF BuildStore, BuildForwarder, StartJobs, Fail, Flow, Phased
<1>2. CASE ~Fail
  <2>1. /\ \/ /\ phase = "providers" /\ phase' = "middleware" /\ armed' = armed
              /\ config.idempotency.store = {"oracle"} => config.idempotency.table \subseteq Tables
           \/ /\ phase = "middleware" /\ phase' = "starting" /\ armed' = armed
              /\ On(config.legacy.forwardEnabled) => config.legacy.targetUrl \subseteq Urls
           \/ phase = "starting" /\ phase' = "listening" /\ armed' = RunsJobs
        /\ UNCHANGED <<env, config, worker, forked, driver, clients, port, handlers>>
        /\ UNCHANGED bootVars
    BY <1>2 DEF BuildStore, BuildForwarder, StartJobs, Goto
  <2>2. armed' \in BOOLEAN
    BY <2>1 DEF Flow, Phased, RunsJobs
  <2>3. AllOpened' <=> AllOpened
    BY <2>1, SameSources DEF AllOpened
  <2>4. Phased' /\ Followed' /\ Loaded' /\ Named' /\ ServesAsConfigured'
    BY <2>1, <2>2, GoingOn DEF Flow, Phased
  <2>5. Opened' /\ Heard'
    BY <2>1, <2>3 DEF Flow, Opened, Heard, HasDatabase, Provided, bootVars
  <2>6. Checked'
    BY <2>1 DEF Flow, Checked, Provided
  <2>7. QED
    BY <2>4, <2>5, <2>6 DEF Flow
<1>3. QED
  BY <1>1, <1>2

\* The prefixes of a forwarder that is on are some.
LEMMA PrefixesFit ==
    ASSUME NEW e, FieldsOk(e), Readable(e), LegacyOk(Config(e).legacy),
           On(Config(e).legacy.forwardEnabled)
    PROVE  {} \notin Config(e).legacy.forwardPrefixes
<1>1. /\ "legacy" \in DOMAIN RootSchema /\ RootSchema["legacy"] = LegacySchema
      /\ "forwardPrefixes" \in DOMAIN LegacySchema
      /\ LegacySchema["forwardPrefixes"] = Row("items", SUBSET NonEmpty, {{}})
  BY DEF RootSchema, LegacySchema
<1>2. /\ "legacy" \in Sections(e) /\ "forwardPrefixes" \in DOMAIN Schema["legacy"]
      /\ Schema["legacy"]["forwardPrefixes"] = Row("items", SUBSET NonEmpty, {{}})
  BY <1>1, Sectioned, Schemas
<1>3. PICK row : row = Row("items", SUBSET NonEmpty, {{}})
  OBVIOUS
<1>4. PICK raw : raw = Option(e, "legacy", "forwardPrefixes")
  OBVIOUS
<1>5. PICK value : value = Config(e)["legacy"]["forwardPrefixes"]
  OBVIOUS
<1>6. row.as = "items" /\ row.default = {{}}
  BY <1>3 DEF Row
<1>7. Accepts(row, raw) /\ value = Read(row, raw)
  BY <1>2, <1>3, <1>4, <1>5, ConfigAt DEF FieldsOk
<1>8. value = {{}} \/ value = raw["items"]
  BY <1>6, <1>7, Reading
<1>9. Single(raw)
  BY <1>4, GetIsSingle DEF Readable, Option
<1>10. \A x, y \in raw["items"] : x = y
  <2>1. "items" \in DOMAIN Blank
    BY DEF Blank
  <2>2. QED
    BY <1>9, <2>1 DEF Single
<1>11. \A x, y \in value : x = y
  BY <1>8, <1>10
<1>12. value # {{}}
  BY <1>5 DEF LegacyOk
<1>13. {} \notin value
  BY <1>11, <1>12
<1>14. QED
  BY <1>5, <1>13

\* The port is bound by a process that serves what its environment says.
LEMMA ListenKeepsFlow ==
    ASSUME PInv, BInv, Readable(env), Flow, Listen
    PROVE  Flow'
<1>1. CASE Fail
  BY <1>1, EndingKeepsFlow DEF Listen, Fail, Flow, Phased
<1>2. CASE ~Fail
  <2>1. /\ phase = "listening" /\ phase' = "bound" /\ port' = TRUE
        /\ UNCHANGED <<env, config, worker, forked, driver, clients, armed, handlers>>
        /\ UNCHANGED bootVars
    BY <1>2 DEF Listen
  <2>2. config = Config(env) /\ Valid(env) /\ FieldsOk(env)
    BY <2>1, IsRead DEF Booted
  <2>3. On(config.cluster.enabled) <=> worker \in 1..forked
    <3>1. On(config.cluster.enabled) => worker # 0
      BY <2>1 DEF PInv, Informed, Booted
    <3>2. worker > 0 => On(config.cluster.enabled)
      BY <2>1 DEF Flow, Followed, Booted
    <3>3. forked \in Nat /\ worker \in 0..forked
      BY DEF Flow, Followed
    <3>4. QED
      BY <3>1, <3>2, <3>3
  <2>4. HasDatabase => AllOpened /\ NamesFit
    BY <2>1 DEF Flow, Opened, Named, Booted, Provided
  <2>5. HasDatabase /\ On(config.health.pingOnBoot) =>
            reqSet \cap clients \subseteq answered \cap Implemented
    <3> SUFFICES ASSUME HasDatabase, On(config.health.pingOnBoot)
                 PROVE  reqSet \cap clients \subseteq answered \cap Implemented
      OBVIOUS
    <3>1. boot = "up"
      BY <2>1 DEF Flow, Heard, Provided
    <3>2. BootIsSound
      BY DecisionIsSound
    <3>3. clients \subseteq Implemented \cup Placeholders
      BY DEF Flow, Phased
    <3>4. QED
      BY <3>1, <3>2, <3>3 DEF BootIsSound
  <2>6. config.idempotency.store = {"oracle"} => config.idempotency.table \subseteq Tables
    BY <2>1 DEF Flow, Checked, Provided
  <2>7. On(config.legacy.forwardEnabled) =>
            config.legacy.targetUrl \cap Urls # {} /\ {} \notin config.legacy.forwardPrefixes
    <3> SUFFICES ASSUME On(config.legacy.forwardEnabled)
                 PROVE  config.legacy.targetUrl \cap Urls # {} /\ {} \notin config.legacy.forwardPrefixes
      OBVIOUS
    <3>1. LegacyOk(config.legacy)
      BY <2>2 DEF Valid
    <3>2. config.legacy.targetUrl # {} /\ config.legacy.targetUrl \subseteq Urls
      BY <2>1, <3>1 DEF LegacyOk, Flow, Checked, Provided
    <3>3. {} \notin config.legacy.forwardPrefixes
      BY <2>2, <3>1, PrefixesFit
    <3>4. QED
      BY <3>2, <3>3
  <2>8. ServesAsConfigured'
    <3>1. reqSet' = reqSet /\ answered' = answered
      BY <2>1 DEF reqSet, bootVars
    <3>2. QED
      BY <2>1, <2>2, <2>3, <2>4, <2>5, <2>6, <2>7, <3>1
         DEF ServesAsConfigured, AllOpened, HasDatabase
  <2>9. NamesFit' <=> NamesFit
    BY <2>1, SameSources
  <2>10. AllOpened' <=> AllOpened
    BY <2>1, SameSources DEF AllOpened
  <2>11. Phased'
    BY <2>1 DEF Flow, Phased, Phases
  <2>12. Followed' /\ Loaded' /\ Named' /\ Opened' /\ Heard' /\ Checked'
    BY <2>1, <2>9, <2>10 DEF Flow, Followed, Loaded, Named, Opened, Heard, Checked, HasDatabase,
       Booted, Provided, bootVars
  <2>13. QED
    BY <2>8, <2>11, <2>12 DEF Flow
<1>3. QED
  BY <1>1, <1>2

\* Serving, and being told to stop.
LEMMA ServingKeepsFlow ==
    ASSUME PInv, Flow, InstallHandlers \/ UNCHANGED bootstrapVars
    PROVE  Flow'
<1>1. /\ UNCHANGED <<env, config, worker, forked, driver, clients, armed, port>>
      /\ UNCHANGED bootVars
      /\ \/ phase = "bound" /\ phase' = "serving" /\ handlers' = TRUE
         \/ phase' = phase /\ handlers' = handlers
  BY DEF InstallHandlers, bootstrapVars, process
<1>2. NamesFit' <=> NamesFit
  BY <1>1, SameSources
<1>3. AllOpened' <=> AllOpened
  BY <1>1, SameSources DEF AllOpened
<1>4. OpenedUpTo(Cardinality(clients))' <=> OpenedUpTo(Cardinality(clients))
  BY <1>1 DEF OpenedUpTo
<1>5. ServesAsConfigured'
  <2>1. reqSet' = reqSet /\ answered' = answered
    BY <1>1 DEF reqSet, bootVars
  <2>2. QED
    BY <1>1, <2>1 DEF Flow, ServesAsConfigured, HasDatabase
<1>6. Phased'
  BY <1>1 DEF Flow, Phased, Phases
<1>7. Followed' /\ Loaded' /\ Named'
  BY <1>1, <1>2 DEF Flow, Followed, Loaded, Named, HasDatabase, Booted
<1>8. Opened' /\ Heard' /\ Checked'
  BY <1>1, <1>3, <1>4 DEF Flow, Opened, Heard, Checked, HasDatabase, Provided, bootVars
<1>9. QED
  BY <1>5, <1>6, <1>7, <1>8 DEF Flow

\* All of it holds of every process.
LEMMA FlowInvariant == Spec => []Flow
<1>1. PInv /\ SInv /\ BInv /\ Readable(env) /\ Flow /\ [Next]_bootstrapVars => Flow'
  <2> SUFFICES ASSUME PInv, BInv, Readable(env), Flow, [Next]_bootstrapVars PROVE Flow'
    OBVIOUS
  <2>1. CASE CreateFails \/ Signal
    <3>1. /\ phase' \in {"exited", "killed"} /\ (phase' = "exited" => ~port)
          /\ UNCHANGED <<env, config, worker, forked, driver, clients, armed, port, handlers>>
          /\ UNCHANGED bootVars
      BY <2>1 DEF CreateFails, Signal, Fail, Flow, Phased
    <3>2. QED
      BY <3>1, EndingKeepsFlow
  <2>2. QED
    BY <2>1, LoadConfigKeepsFlow, LoadTlsKeepsFlow, StartPrimaryKeepsFlow, CreateClientKeepsFlow,
       PoolsKeepFlow, PingsKeepFlow, BuildingKeepsFlow, ListenKeepsFlow, ServingKeepsFlow
       DEF Next, Steps
<1>2. Spec => []SInv /\ []BInv
  BY BootstrapUsesBootPing, PingInvariant
<1>3. QED
  BY <1>1, <1>2, FlowStarts, ProcessInvariant, AlwaysReadable, PTL DEF Spec

\* The state has its type.
THEOREM BootstrapTypeCorrect == Spec => []BootstrapTypeOK
<1>1. SInv /\ BInv /\ RequiredKnown /\ PInv /\ Flow => BootstrapTypeOK
  <2> SUFFICES ASSUME SInv, BInv, RequiredKnown, PInv, Flow PROVE BootstrapTypeOK
    OBVIOUS
  <2>1. BootTypeOK
    <3>1. failures \subseteq Implemented \cup Placeholders
      BY DEF BInv, Reasons
    <3>2. QED
      BY <3>1 DEF BootTypeOK, SInv, BInv, PingTyped, RequiredKnown
  <2>2. config = <<>> \/ DOMAIN config = Sections(env)
    BY DEF Flow, Loaded, Config
  <2>3. {driver, armed, port, handlers} \subseteq BOOLEAN
    <3>1. driver \in BOOLEAN /\ armed \in BOOLEAN /\ port \in BOOLEAN /\ handlers \in BOOLEAN
      BY DEF Flow, Phased
    <3>2. QED
      BY <3>1, Zenon
  <2>4. QED
    BY <2>1, <2>2, <2>3 DEF BootstrapTypeOK, Flow, Phased, Followed
<1>2. QED
  BY <1>1, BootstrapUsesBootPing, PingInvariant, ProcessInvariant, FlowInvariant, PTL

\* A process whose port is open has the configuration of its environment, the
\* client of every source and no other, a driver if it needs one, has heard
\* from the sources that it must hear from, has a store and a forwarder that
\* can work, and is in a cluster a worker that was forked.
THEOREM OpenPortServesConfiguration == Spec => []ServesAsConfigured
<1>1. Flow => ServesAsConfigured
  BY DEF Flow
<1>2. QED
  BY <1>1, FlowInvariant, PTL
=============================================================================
