---------------------------- MODULE MCEngineTurn ----------------------------
(***************************************************************************)
(* Small instances of EngineTurn for TLC.  The call lists are sequences,   *)
(* which a configuration cannot write.                                     *)
(***************************************************************************)
EXTENDS EngineTurn

CONSTANTS c1, c2, c3, c4, c5

\* An answer, one call, and two calls in both orders.
SmallBatches == {<<>>, <<c1>>, <<c1, c2>>, <<c2, c1>>}

\* Every shape of batch: none, an exclusive call before or after a concurrent
\* one, more concurrent calls than slots, and a call that prepare refuses.
MixedBatches == {<<>>, <<c4, c1>>, <<c1, c2, c3>>, <<c5, c2, c4>>}
=============================================================================
