---------------------------- MODULE MCDaemonCore ----------------------------
(***************************************************************************)
(* Small instances of DaemonCore: two or three workers, a few connections. *)
(***************************************************************************)
EXTENDS DaemonCore, TLC

Symmetry == Permutations(Worker) \cup Permutations(Conn)
=============================================================================
