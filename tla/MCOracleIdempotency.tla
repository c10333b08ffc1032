------------------------ MODULE MCOracleIdempotency ------------------------
(* Instances of OracleIdempotency for TLC. *)
EXTENDS OracleIdempotency, TLC

\* Requests, keys and fingerprints are interchangeable.
Interchangeable ==
    Permutations(Requests) \cup Permutations(Keys) \cup Permutations(Fingerprints)
=============================================================================
