---------------------------- MODULE MCKeyAccess -----------------------------
(***************************************************************************)
(* Small instances of KeyAccess: two threads that share a session.         *)
(***************************************************************************)
EXTENDS KeyAccess, TLC

Symmetry == Permutations(Thread) \cup Permutations(Index)
=============================================================================
