------------------------ MODULE IdempotencyContract ------------------------
(***************************************************************************)
(* What `@Idempotent()` promises a client, with no clock, no record and no *)
(* store: every key has one slot; a slot is free, owned by the one request *)
(* whose handler runs, or holds the response of the request that ran it.   *)
(* Refusing a request (400, 409, 422, an undecorated route) is always      *)
(* safe; replaying is allowed only from the slot and only to a request     *)
(* with the slot's fingerprint.  Both stores are shown to implement this   *)
(* specification: IdempotencyStore and OracleIdempotency.                  *)
(***************************************************************************)
EXTENDS Naturals

CONSTANTS
    Requests,       \* request identities; a response is named by its request
    Keys,           \* values of the Idempotency-Key header
    Fingerprints,   \* SHA-256 of method + path + raw body
    NoRequest,      \* "no request"
    NoFingerprint   \* fingerprint of a free slot

VARIABLES
    slot,           \* slot[k]: who owns or filled the key
    served          \* served[r]: whose response request r received

vars == <<slot, served>>

Free == [state |-> "free", fingerprint |-> NoFingerprint, by |-> NoRequest]
Owned(r, f) == [state |-> "owned", fingerprint |-> f, by |-> r]
Stored(r, f) == [state |-> "stored", fingerprint |-> f, by |-> r]

Init ==
    /\ slot = [k \in Keys |-> Free]
    /\ served = [r \in Requests |-> NoRequest]

\* The handler of r starts on the slots s: nobody owned the key and nothing
\* was stored.
Starts(s, r, k, f) ==
    /\ s[k] = Free
    /\ served[r] = NoRequest
    /\ \A other \in Keys : s[other].by # r
    /\ slot' = [s EXCEPT ![k] = Owned(r, f)]
    /\ UNCHANGED served

Own(r, k, f) == Starts(slot, r, k, f)

\* The handler of r succeeded: its response is stored, and r receives it
\* unless the store could not say so.
Fill(r, k, f) ==
    /\ slot[k] = Owned(r, f)
    /\ slot' = [slot EXCEPT ![k] = Stored(r, f)]
    /\ served' \in {served, [served EXCEPT ![r] = r]}

\* The handler of r failed, or it will never settle: the key is free again.
GiveUp(r, k, f) ==
    /\ slot[k] = Owned(r, f)
    /\ slot' = [slot EXCEPT ![k] = Free]
    /\ UNCHANGED served

\* The slots without the stored responses of some keys.
Holding == {k \in Keys : slot[k].state = "stored"}
Without(gone) == [k \in Keys |-> IF k \in gone THEN Free ELSE slot[k]]

\* The stored responses of some keys reach the end of their life.
Forget ==
    \E gone \in SUBSET Holding : slot' = Without(gone) /\ UNCHANGED served

\* r receives the stored response of the request that ran with its body.
Answers(s, r, k, f) ==
    /\ s[k].state = "stored"
    /\ s[k].fingerprint = f
    /\ served[r] = NoRequest
    /\ served' = [served EXCEPT ![r] = s[k].by]
    /\ slot' = s

Replay(r, k, f) == Answers(slot, r, k, f)

\* A claim that drops responses at the end of their life, in the step in
\* which it is granted or answered: Forget and what follows it, as one.
ForgetAndClaim(r, k, f) ==
    \E gone \in SUBSET Holding :
        Starts(Without(gone), r, k, f) \/ Answers(Without(gone), r, k, f)

Next ==
    \/ \E r \in Requests, k \in Keys, f \in Fingerprints :
          \/ Own(r, k, f)
          \/ Fill(r, k, f)
          \/ GiveUp(r, k, f)
          \/ Replay(r, k, f)
          \/ ForgetAndClaim(r, k, f)
    \/ Forget

Spec == Init /\ [][Next]_vars
=============================================================================
