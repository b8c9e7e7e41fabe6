---------------------------- MODULE MCMaintenance ----------------------------
(***************************************************************************)
(* Small instances of Maintenance: two threads, one or two archives.       *)
(***************************************************************************)
EXTENDS Maintenance, TLC

Symmetry == Permutations(Admin)
=============================================================================
