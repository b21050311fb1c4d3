-------------------------- MODULE MCSyncedStreamsLoop --------------------------
EXTENDS SyncedStreamsLoop, TLC

CONSTANTS a, b

\* a is a stream of the user, b a channel.
MCPriority == [s \in Stream |-> IF s = a THEN 0 ELSE 3]
MCMaxPos == [s \in Stream |-> IF s = a THEN 0 ELSE 2]
MCMaxPos1 == [s \in Stream |-> IF s = a THEN 0 ELSE 1]
================================================================================
