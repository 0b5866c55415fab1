----------------------------- MODULE MCSessions -----------------------------
(***************************************************************************)
(* Instances of Sessions for TLC: two threads of the pool, two accounts,   *)
(* two or three identifiers, a clock long enough for a session to expire.  *)
(***************************************************************************)
EXTENDS Sessions, TLC

\* Threads, accounts and identifiers are interchangeable in the safety properties.
Symmetry == Permutations(Threads) \cup Permutations(Users) \cup Permutations(SessionIds)
=============================================================================
