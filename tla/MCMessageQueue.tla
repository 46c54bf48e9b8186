--------------------------- MODULE MCMessageQueue ---------------------------
\* Model checking of MessageQueue, with one address for each message and one
\* for the dummy element: freed addresses are used again.
EXTENDS MessageQueue
=============================================================================
