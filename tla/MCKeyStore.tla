----------------------------- MODULE MCKeyStore -----------------------------
(***************************************************************************)
(* Small instances of KeyStore: two indexes, one or two administrators.    *)
(***************************************************************************)
EXTENDS KeyStore, TLC

Symmetry == Permutations(Slot) \cup Permutations(Admin) \cup Permutations(User)
=============================================================================
