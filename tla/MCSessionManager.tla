-------------------------- MODULE MCSessionManager --------------------------
(***************************************************************************)
(* Small instances of SessionManager: worker threads, and heap cells that  *)
(* are numbers.                                                            *)
(***************************************************************************)
EXTENDS SessionManager, TLC

\* Cells are interchangeable; it is enough that malloc hands out the lowest.
LowestFirst ==
  \A c, d \in Cell : (c < d /\ mem[c] = "none") => mem[d] = "none"
=============================================================================
