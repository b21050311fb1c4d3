---------------------- MODULE MCStreamReplication ----------------------
(* Instances of StreamReplication for TLC. *)
EXTENDS StreamReplication, TLC

(* Events and hashes are interchangeable, and so are the nodes that are    *)
(* equally allowed to produce and to expire.  No definition chooses among  *)
(* them.                                                                   *)
Symmetry ==
    Permutations(Producer) \cup Permutations(Node \ Producer)
        \cup Permutations(Event) \cup Permutations(Hash)
========================================================================
