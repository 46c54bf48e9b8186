------------------------------ MODULE Acceptor ------------------------------
(***************************************************************************)
(* The process model of the controller: the parent waits in cc_polling,    *)
(* accepts a switch's connection and forks a child that serves it          *)
(* (src/cc_main.c, src/cc_init_of.c, cc_conn_accept in src/cc_socket.c);   *)
(* sig_child reaps children that have ended.  The child forked for a       *)
(* connection goes by the name of the connection.                          *)
(*                                                                         *)
(* What a child does with its connection is module Channel's; here it runs *)
(* until select fails or undefined behaviour ends it.  A switch that hangs *)
(* up does not end it: read returns 0 and the child goes on.  Descriptors  *)
(* are the connections themselves and Listen.  The parent holds at most    *)
(* one accepted descriptor at a time (OneProcessEach), which is why the    *)
(* branch for descriptors above FD_SETSIZE and the one that moves them     *)
(* above the standard ones are left out.                                   *)
(***************************************************************************)
EXTENDS Integers, FiniteSets

CONSTANTS Conns,    \* the connections that switches open, each one once
          Parent,   \* the process that runs cc_polling
          Listen    \* the listening socket

ASSUME AcceptorAssumption ==
  /\ IsFiniteSet(Conns)
  /\ Parent \notin Conns /\ Listen \notin Conns /\ Parent # Listen

VARIABLES
  conn,     \* how far each connection has come
  open,     \* the descriptors each process has open
  parent,   \* where the parent is
  accepted, \* accept_fd of the parent, or Listen
  child,    \* the state of the child for each connection
  sigchld,  \* whether SIGCHLD is pending; signals of one kind do not queue
  merged    \* how many children ended while it was

vars == <<conn, open, parent, accepted, child, sigchld, merged>>
Procs == Conns \union {Parent}

\* main and cc_init_of_socket: the listening socket, the signal handlers.
Init ==
  /\ conn = [c \in Conns |-> "new"]
  /\ open = [p \in Procs |-> IF p = Parent THEN {Listen} ELSE {}]
  /\ parent = "select"
  /\ accepted = Listen
  /\ child = [c \in Conns |-> "none"]
  /\ sigchld = FALSE
  /\ merged = 0

Running == parent # "stopped"
Backlog == {c \in Conns : conn[c] = "backlog"}
Zombies == {c \in Conns : child[c] = "zombie"}
-----------------------------------------------------------------------------
\* A switch connects.
Connect(c) ==
  /\ conn[c] = "new"
  /\ \E p \in Procs : Listen \in open[p]
  /\ conn' = [conn EXCEPT ![c] = "backlog"]
  /\ UNCHANGED <<open, parent, accepted, child, sigchld, merged>>

\* A switch gives up before it was accepted.
Reset(c) ==
  /\ conn[c] = "backlog"
  /\ conn' = [conn EXCEPT ![c] = "reset"]
  /\ UNCHANGED <<open, parent, accepted, child, sigchld, merged>>

\* Mutant: the socket is put into the set before the loop only, from where the
\* first select removes it.
M_WatchedOnce == Backlog # {} /\ \A c \in Conns : conn[c] # "open"

\* Whether select finds the listening socket readable.
Readable == Backlog # {}

\* select in cc_polling; EINTR only takes it round the loop.
Select ==
  /\ parent = "select"
  /\ Readable
  /\ parent' = "accept"
  /\ UNCHANGED <<conn, open, accepted, child, sigchld, merged>>

Accept(c) ==
  /\ parent = "accept"
  /\ conn[c] = "backlog"
  /\ conn' = [conn EXCEPT ![c] = "open"]
  /\ open' = [open EXCEPT ![Parent] = @ \union {c}]
  /\ accepted' = c
  /\ parent' = "fork"
  /\ UNCHANGED <<child, sigchld, merged>>

\* cc_polling returns, main closes the listening socket and ends.  So it does
\* at any error of select, of accept (EAGAIN if the switch has given up since
\* the select) and of fork.  It may also end in sig_child, where waitpid
\* writes the status through a pointer that nothing has set.
Stop ==
  /\ parent \in {"select", "accept", "fork"} \/ (Running /\ sigchld)
  /\ parent' = "stopped"
  /\ open' = [open EXCEPT ![Parent] = {}]
  /\ sigchld' = FALSE
  /\ UNCHANGED <<conn, accepted, child, merged>>

Fork ==
  /\ parent = "fork"
  /\ child' = [child EXCEPT ![accepted] = "starting"]
  /\ open' = [open EXCEPT ![accepted] = open[Parent]]
  /\ parent' = "close"
  /\ UNCHANGED <<conn, accepted, sigchld, merged>>

\* Mutant: the parent keeps the descriptor of the child's connection.
M_KeepAccepted(fds) == fds

\* close(accept_fd) in the parent.
AfterClose(fds) == fds \ {accepted}

\* accept_fd of the next call of cc_conn_accept.
NextFd == Listen

Close ==
  /\ parent = "close"
  /\ open' = [open EXCEPT ![Parent] = AfterClose(@)]
  /\ accepted' = NextFd
  /\ parent' = "select"
  /\ UNCHANGED <<conn, child, sigchld, merged>>

\* The child closes the listening socket and begins to serve.
Start(c) ==
  /\ child[c] = "starting"
  /\ child' = [child EXCEPT ![c] = "serving"]
  /\ open' = [open EXCEPT ![c] = @ \ {Listen}]
  /\ UNCHANGED <<conn, parent, accepted, sigchld, merged>>

\* The child ends: its select fails, whereupon cc_conn_accept, cc_polling and
\* main return, or undefined behaviour stops it.  When the parent has stopped
\* it is init's to reap, and stays "zombie" here.
End(c) ==
  /\ child[c] \in {"starting", "serving"}
  /\ child' = [child EXCEPT ![c] = "zombie"]
  /\ open' = [open EXCEPT ![c] = {}]
  /\ sigchld' = Running
  /\ merged' = merged + (IF sigchld THEN 1 ELSE 0)
  /\ UNCHANGED <<conn, parent, accepted>>

\* Mutant: sig_child looks for children and does not wait for one.
M_NoneReaped == {{}}

\* What one waitpid with WNOHANG can reap.
Reapable == {{z} : z \in Zombies}

SigChild ==
  /\ Running
  /\ sigchld
  /\ sigchld' = FALSE
  /\ \E dead \in Reapable :
       child' = [c \in Conns |-> IF c \in dead THEN "reaped" ELSE child[c]]
  /\ UNCHANGED <<conn, open, parent, accepted, merged>>
-----------------------------------------------------------------------------
ParentStep == Select \/ (\E c \in Conns : Accept(c)) \/ Stop \/ Fork \/ Close

Next ==
  \/ ParentStep \/ SigChild
  \/ \E c \in Conns : Connect(c) \/ Reset(c) \/ Start(c) \/ End(c)

\* The kernel schedules the parent and delivers its signals.
Fairness ==
  /\ WF_vars(Select) /\ WF_vars(Fork \/ (parent = "fork" /\ Stop))
  /\ WF_vars((\E c \in Conns : Accept(c)) \/ (parent = "accept" /\ Stop))
  /\ WF_vars(Close) /\ WF_vars(SigChild)

Spec == Init /\ [][Next]_vars /\ Fairness
-----------------------------------------------------------------------------
(***************************************************************************)
(* Properties.                                                             *)
(***************************************************************************)
\* Every variable keeps its type; accept_fd belongs to the call that is
\* handing it over.
TypeOK ==
  /\ conn \in [Conns -> {"new", "backlog", "reset", "open"}]
  /\ open \in [Procs -> SUBSET (Conns \union {Listen})]
  /\ parent \in {"select", "accept", "fork", "close", "stopped"}
  /\ accepted \in Conns \union {Listen}
  /\ Running => (accepted \in Conns <=> parent \in {"fork", "close"})
  /\ child \in [Conns -> {"none", "starting", "serving", "zombie", "reaped"}]
  /\ sigchld \in BOOLEAN
  /\ merged \in Nat

\* A child has its own connection open and no other; the parent has none but
\* the one it is handing over.  So when a child ends its switch sees the
\* connection end, and descriptors do not pile up from fork to fork.
OneProcessEach ==
  /\ \A p \in Procs, c \in Conns :
       c \in open[p] => \/ p = c
                        \/ p = Parent /\ parent \in {"fork", "close"}
                             /\ accepted = c
  /\ \A c \in Conns : child[c] = "serving" => open[c] = {c}

\* sig_child reaps one child, and one signal stands for all the children that
\* end before it is delivered: exactly those stay zombies for good.
MergedStay ==
  Running => Cardinality(Zombies) = merged + (IF sigchld THEN 1 ELSE 0)

\* A connection that stays in the backlog is accepted in the end, unless the
\* parent has stopped.
Served ==
  \A c \in Conns :
    conn[c] = "backlog" ~> conn[c] # "backlog" \/ parent = "stopped"

=============================================================================
