---------------------------- MODULE MCWebManager ----------------------------
(* WebManager for model checking: workers are interchangeable.  Accounts are *)
(* not, since only some of them are in Front.                               *)
EXTENDS WebManager, TLC

Symmetry == Permutations(Worker)
=============================================================================
