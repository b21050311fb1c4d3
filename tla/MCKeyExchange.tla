--------------------------- MODULE MCKeyExchange ---------------------------
(* Small instances of KeyExchange.                                            *)
EXTENDS KeyExchange

CONSTANTS r1, r2

\* A new device, when the others have different keys, and one that is not new, as it has
\* the key of a session nobody asks about, when the keys of the others overlap.
MCStart ==
    {[keys |-> {}, known |-> [r \in {r1, r2} |-> IF r = r1 THEN {1} ELSE {2}]],
     [keys |-> {3}, known |-> [r \in {r1, r2} |-> IF r = r1 THEN {1, 2} ELSE {2}]]}

MCMaxContent == [s \in {1, 2, 3} |-> IF s = 3 THEN 0 ELSE 1]

\* Bound: a device stops only while it waits for something, and the membership of the
\* user changes only while nothing is left to do.
StopsInTick ==
    /\ Restart => asker # Idle
    /\ RetryDecryptionFailures => Quiet
    /\ \A r \in Responder : RestartResponder(r) => job[r] # Idle
============================================================================
