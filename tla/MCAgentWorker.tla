--------------------------- MODULE MCAgentWorker ---------------------------
(***************************************************************************)
(* Small instances of AgentWorker for TLC: message sets are model values,  *)
(* given in the configurations.                                            *)
(***************************************************************************)
EXTENDS AgentWorker, TLC

\* Notices of one kind are interchangeable: their order is in the state.
Symmetry == Permutations(Notices)
=============================================================================
