------------------------------ MODULE Semaphore ------------------------------
(***************************************************************************)
(* The concurrency limiter of the database infrastructure.                 *)
(*                                                                         *)
(*   Semaphore.with   src/infrastructure/database/utils/semaphore.util.ts  *)
(*                                                                         *)
(* A task that leaves gives its slot back and wakes the first waiter.  The *)
(* waiter goes on in a later microtask, where it asks again: by then a     *)
(* newcomer may have taken the slot, and the waiter queues once more.      *)
(***************************************************************************)
EXTENDS Naturals, Sequences, FiniteSets

CONSTANTS
    Tasks,
    Limit       \* the constructor's `max`

ASSUME SemaphoreAssumption == IsFiniteSet(Tasks) /\ Limit \in Nat

VARIABLES
    count,      \* Semaphore.count: the free slots
    queue,      \* Semaphore.queue: who waits
    stage       \* stage[t]: where task t is in with()

semaphore == <<count, queue, stage>>

\* Math.max(1, max)
Slots == IF Limit > 1 THEN Limit ELSE 1

In(s) == {t \in Tasks : stage[t] = s}

\* Types of the state.
SemaphoreTypeOK ==
    /\ count \in 0..Slots
    /\ queue \in Seq(Tasks)
    /\ stage \in [Tasks -> {"idle", "queued", "woken", "running"}]

SemaphoreInit ==
    /\ count = Slots
    /\ queue = <<>>
    /\ stage = [t \in Tasks |-> "idle"]

\* with(fn): take a slot and run, or queue.
MutEnter(t) ==
    \/ /\ stage' = [stage EXCEPT ![t] = "running"]
       /\ count' = IF count > 0 THEN count - 1 ELSE 0
       /\ UNCHANGED queue
Enter(t) ==
    \/ /\ count > 0
       /\ count' = count - 1
       /\ stage' = [stage EXCEPT ![t] = "running"]
       /\ UNCHANGED queue
    \/ /\ count = 0
       /\ queue' = Append(queue, t)
       /\ stage' = [stage EXCEPT ![t] = "queued"]
       /\ UNCHANGED count

Call(t) == stage[t] = "idle" /\ Enter(t)

\* A woken waiter asks again.
Resume(t) == stage[t] = "woken" /\ Enter(t)

\* fn() settled, either way: the slot is free again and the first waiter,
\* if there is one, is woken.
MutLeave(t) ==
    /\ stage[t] = "running"
    /\ count' = count + 1
    /\ stage' = [stage EXCEPT ![t] = "idle"]
    /\ UNCHANGED queue
Leave(t) ==
    /\ stage[t] = "running"
    /\ count' = count + 1
    /\ IF queue = <<>>
       THEN stage' = [stage EXCEPT ![t] = "idle"] /\ UNCHANGED queue
       ELSE /\ stage' = [stage EXCEPT ![t] = "idle", ![Head(queue)] = "woken"]
            /\ queue' = Tail(queue)

SemaphoreNext == \E t \in Tasks : Call(t) \/ Resume(t) \/ Leave(t)

SemaphoreSpec == SemaphoreInit /\ [][SemaphoreNext]_semaphore

-----------------------------------------------------------------------------
(* Properties *)

\* At most `max` tasks run at a time, whoever overtakes whom.
AtMostMax == Cardinality(In("running")) <= Slots

\* No slot is left idle while somebody waits: as long as the queue is not
\* empty, a woken task is on its way to every free slot.
NoIdleSlot == queue # <<>> => count <= Cardinality(In("woken"))
=============================================================================
