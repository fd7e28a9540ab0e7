----------------------------- MODULE MCJWKSCache ------------------------------
(***************************************************************************)
(* A small instance of JWKSCache for TLC: two key ids, two goroutines, and*)
(* time for the cache to go stale while a fetch is under way.              *)
(***************************************************************************)
EXTENDS JWKSCache

CONSTANTS ka, kb   \* the two key ids

MCKids == {ka, kb}
MCDocs == {{ka}, {ka, kb}, Broken}
=============================================================================
