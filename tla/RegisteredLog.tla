--------------------------- MODULE RegisteredLog ---------------------------
(***************************************************************************)
(* What replication promises of a stream: one log of miniblocks, decided   *)
(* by the StreamRegistry contract, that only grows and never has the same  *)
(* miniblock twice, and for every node a replica of a prefix of the log    *)
(* that only grows.  StreamReplication implements this specification.      *)
(***************************************************************************)
EXTENDS Naturals, Sequences

CONSTANTS Node, Hash

VARIABLES log, replica

vars == <<log, replica>>

Init == log = <<>> /\ replica = [n \in Node |-> <<>>]

(* The contract accepts a miniblock that was never accepted before. *)
Register(h) ==
    /\ \A i \in 1 .. Len(log) : log[i] # h
    /\ log' = Append(log, h)
    /\ UNCHANGED replica

(* A replica takes over the next miniblocks of the log, up to number k. *)
Advance(n, k) ==
    /\ Len(replica[n]) < k
    /\ replica' = [replica EXCEPT ![n] = SubSeq(log, 1, k)]
    /\ UNCHANGED log

Next ==
    \/ \E h \in Hash : Register(h)
    \/ \E n \in Node, k \in 1 .. Len(log) : Advance(n, k)

Spec == Init /\ [][Next]_vars
============================================================================
