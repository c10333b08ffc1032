------------------------- MODULE MCIdempotencyStore -------------------------
(* Instances of IdempotencyStore for TLC. *)
EXTENDS IdempotencyStore, TLC

\* Requests, keys and fingerprints are interchangeable.
Interchangeable ==
    Permutations(Requests) \cup Permutations(Keys) \cup Permutations(Fingerprints)
=============================================================================
