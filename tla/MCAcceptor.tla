----------------------------- MODULE MCAcceptor -----------------------------
\* Four connections: two children end between two deliveries of SIGCHLD while
\* the parent hands over a third connection and a fourth waits.
EXTENDS Acceptor
=============================================================================
