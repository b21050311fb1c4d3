------------------------ MODULE MCMiniblockProducer ------------------------
(* Model-checking instances of MiniblockProducer. *)
EXTENDS MiniblockProducer

CONSTANTS r1, u1   \* a replicated stream and one that is not

\* The second number of u1 is one that need not be registered.
MCMaxNum == [s \in {r1, u1} |-> IF s = r1 THEN 1 ELSE 2]
============================================================================
