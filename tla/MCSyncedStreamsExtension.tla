---------------------- MODULE MCSyncedStreamsExtension ----------------------
EXTENDS SyncedStreamsExtension

CONSTANTS u, c, d, o

\* u is a stream of the user, c and d are channels.
MCPriority == [s \in Stream |-> IF s = u THEN 0 ELSE 5]
============================================================================
