--------------------------- MODULE MCStreamStore ---------------------------
EXTENDS StreamStore
============================================================================
