--------------------------- MODULE MCMessageSend ---------------------------
EXTENDS MessageSend
============================================================================
