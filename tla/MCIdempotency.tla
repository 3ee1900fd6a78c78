--------------------------- MODULE MCIdempotency ---------------------------
(* Small instances of Idempotency for TLC. *)
EXTENDS Idempotency, TLC

\* Requests, keys and transfer ids are interchangeable.
Interchangeable ==
    Permutations(Requests) \union Permutations(Keys) \union Permutations(Transfers)
=============================================================================
