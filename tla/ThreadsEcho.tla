----------------------------- MODULE ThreadsEcho -----------------------------
(***************************************************************************)
(* The echo server with a blocking thread per connection                   *)
(* (event-tester/threads.c), from its start-up on: behind the hang lock of *)
(* HangLockStart each worker accepts on a socket of its own and creates a  *)
(* thread that reads a message, writes it back, and so on.  Any error of   *)
(* one of them ends the process.                                           *)
(*                                                                         *)
(* Connection threads share nothing: conns[], which conn_handler clears,   *)
(* is never set by this server.  Sockets and clients are external.         *)
(***************************************************************************)
EXTENDS HangLockStart

CONSTANTS Client, NULL,
          NFd,          \* BOUND: descriptors there are for connections
          msg_size,
          MaxMsgs,      \* BOUND: messages a client sends
          Resetter,     \* the clients that may reset their connection
          Idler         \* the clients that do not read what they are sent

ASSUME ThreadsAssumption ==
    /\ NFd \in Nat \ {0} /\ msg_size \in Nat \ {0} /\ MaxMsgs \in Nat
    /\ Resetter \subseteq Client /\ Idler \subseteq Client /\ NULL \notin Client

Fd == 1 .. NFd

VARIABLES
    backlog,    \* kernel: clients a listening socket has not accepted
    sock,       \* kernel: the client at the other end of a descriptor, or NULL
    hpc,        \* per descriptor: where the thread of its connection is
    cursor,     \* per descriptor: that thread's cursor
    exited,     \* whether exit was called
    cst,        \* clients: "idle", "open", "shut" or "reset"
    csent,      \* bytes a client has sent
    sread,      \* bytes of them the server has read
    echo        \* bytes a client got back

server == <<backlog, sock, hpc, cursor, exited>>
client == <<cst, csent, sread, echo>>
svars  == <<vars, server, client>>

ServerInit ==
    /\ Init
    /\ backlog = [w \in Id |-> {}]
    /\ sock = [fd \in Fd |-> NULL]
    /\ hpc = [fd \in Fd |-> "none"]
    /\ cursor = [fd \in Fd |-> 0]
    /\ exited = FALSE
    /\ cst = [c \in Client |-> "idle"]
    /\ csent = [c \in Client |-> 0]
    /\ sread = [c \in Client |-> 0]
    /\ echo = [c \in Client |-> 0]

-----------------------------------------------------------------------------
(* The clients: they can connect as soon as a worker listens *)

Connect(c, w) ==
    /\ cst[c] = "idle" /\ wpc[w] \notin {"none", "setup"}
    /\ cst' = [cst EXCEPT ![c] = "open"]
    /\ backlog' = [backlog EXCEPT ![w] = @ \cup {c}]
    /\ UNCHANGED <<vars, sock, hpc, cursor, exited, csent, sread, echo>>

Send(c) ==
    /\ cst[c] = "open"
    /\ csent[c] = echo[c] /\ csent[c] < msg_size * MaxMsgs
    /\ csent' = [csent EXCEPT ![c] = @ + msg_size]
    /\ UNCHANGED <<vars, server, cst, sread, echo>>

Leave(c) ==
    /\ cst[c] = "open"
    /\ \/ echo[c] = csent[c] /\ cst' = [cst EXCEPT ![c] = "shut"]
       \/ c \in Resetter /\ cst' = [cst EXCEPT ![c] = "reset"]
    /\ UNCHANGED <<vars, server, csent, sread, echo>>

-----------------------------------------------------------------------------
(* The server *)

FreeFds == { fd \in Fd : sock[fd] = NULL }

\* accept of worker_func, and the thread for the new connection.  Without a
\* descriptor accept fails.
Fails == exited' = TRUE /\ UNCHANGED <<backlog, sock, hpc, cursor>>

Accept(w) ==
    /\ wpc[w] = "loop"
    /\ \E c \in backlog[w] :
         \/ FreeFds = {} /\ Fails
         \/ \E fd \in FreeFds :
              /\ \A free \in FreeFds : fd <= free
              /\ backlog' = [backlog EXCEPT ![w] = @ \ {c}]
              /\ sock' = [sock EXCEPT ![fd] = c]
              /\ hpc' = [hpc EXCEPT ![fd] = "read"]
              /\ UNCHANGED <<cursor, exited>>
    /\ UNCHANGED <<vars, client>>

\* Both loops of conn_handler: n bytes more, and at the end of the message on to
\* the other one.
Moves(fd, n, then) ==
    /\ cursor' = [cursor EXCEPT ![fd] = IF @ + n = msg_size THEN 0 ELSE @ + n]
    /\ hpc' = [hpc EXCEPT ![fd] = IF cursor[fd] + n = msg_size THEN then ELSE @]
    /\ UNCHANGED <<backlog, sock, exited>>

\* read returned 0: goto done; the variant takes it for an error.
AtEnd_Fails(fd) == Fails
AtEnd(fd)       == /\ hpc' = [hpc EXCEPT ![fd] = "done"]
                   /\ UNCHANGED <<backlog, sock, cursor, exited>>

Read(fd) == LET c == sock[fd] IN
    /\ hpc[fd] = "read"
    /\ \/ \E n \in 1 .. msg_size - cursor[fd] :
            /\ n <= csent[c] - sread[c]
            /\ Moves(fd, n, "write")
            /\ sread' = [sread EXCEPT ![c] = @ + n]
       \/ csent[c] = sread[c] /\ cst[c] = "shut" /\ AtEnd(fd) /\ UNCHANGED sread
       \/ cst[c] = "reset" /\ Fails /\ UNCHANGED sread
    /\ UNCHANGED <<vars, cst, csent, echo>>

\* A client that does not read leaves the thread in write.
Write(fd) == LET c == sock[fd] IN
    /\ hpc[fd] = "write"
    /\ \/ /\ cst[c] # "reset" /\ c \notin Idler
          /\ \E n \in 1 .. msg_size - cursor[fd] :
               Moves(fd, n, "read") /\ echo' = [echo EXCEPT ![c] = @ + n]
       \/ cst[c] = "reset" /\ Fails /\ UNCHANGED echo
    /\ UNCHANGED <<vars, cst, csent, sread>>

\* done: the descriptor is closed; the variant leaves it open.
Close_Not(fd) == UNCHANGED sock
Close(fd)     == sock' = [sock EXCEPT ![fd] = NULL]
Finish(fd) ==
    /\ hpc[fd] = "done"
    /\ Close(fd)
    /\ hpc' = [hpc EXCEPT ![fd] = "none"]
    /\ UNCHANGED <<vars, backlog, cursor, exited, client>>

conn_handler(fd) == Read(fd) \/ Write(fd) \/ Finish(fd)

\* CUT: a behaviour ends where the process does.
Alive(A) == ~exited /\ A

ServerNext == Alive(
    \/ Next /\ UNCHANGED <<server, client>>
    \/ \E w \in Id : Accept(w) \/ \E c \in Client : Connect(c, w)
    \/ \E fd \in Fd : conn_handler(fd)
    \/ \E c \in Client : Send(c) \/ Leave(c))

ServerSpec == ServerInit /\ [][ServerNext]_svars

\* All threads are scheduled; a worker gets the mutex one time, as in Fairness.
Main_Steps == (TakeHang \/ Spawn \/ WaitInit \/ DropHang) /\ UNCHANGED <<server, client>>
FairServerSpec ==
    /\ ServerSpec
    /\ WF_svars(Alive(Main_Steps))
    /\ \A w \in Id : /\ SF_svars(Alive(Worker(w) /\ UNCHANGED <<server, client>>))
                     /\ WF_svars(Alive(Accept(w)))
    /\ \A fd \in Fd : WF_svars(Alive(conn_handler(fd)))

-----------------------------------------------------------------------------
(* Properties *)

ThreadsTypeOK ==
    /\ backlog \in [Id -> SUBSET Client]
    /\ sock \in [Fd -> Client \cup {NULL}]
    /\ hpc \in [Fd -> {"none", "read", "write", "done"}]
    /\ cursor \in [Fd -> 0 .. msg_size - 1]
    /\ exited \in BOOLEAN
    /\ cst \in [Client -> {"idle", "open", "shut", "reset"}]
    /\ csent \in [Client -> Nat] /\ sread \in [Client -> Nat] /\ echo \in [Client -> Nat]

\* Clients cannot end the server by closing or by not reading: only a connection
\* that was reset, or the want of descriptors, does.
ExitsOnError == exited => FreeFds = {} \/ \E c \in Client : cst[c] = "reset"

\* A connection has one thread, which writes back what it read and nothing else:
\* what it still owes is what its cursor says, and a new thread starts with a
\* cursor of 0 whoever had the descriptor before.
OneThread ==
    /\ \A fd, gd \in Fd : sock[fd] = sock[gd] /\ sock[fd] # NULL => fd = gd
    /\ \A w \in Id : \A c \in backlog[w] :
         /\ \A fd \in Fd : sock[fd] # c
         /\ \A v \in Id : c \in backlog[v] => v = w
Owed(fd) == CASE hpc[fd] = "read"  -> cursor[fd]
              [] hpc[fd] = "write" -> msg_size - cursor[fd]
              [] OTHER             -> 0
Echoes ==
    /\ \A c \in Client : echo[c] <= sread[c] /\ sread[c] <= csent[c]
    /\ \A fd \in Fd : /\ sock[fd] \in Client => sread[sock[fd]] = echo[sock[fd]] + Owed(fd)
                      /\ hpc[fd] \in {"none", "done"} => cursor[fd] = 0

\* Each message is echoed, whatever the other clients do short of ending the
\* server: clients that connected before all workers were set up are served too,
\* and one that does not read keeps nobody else waiting.
Waits(c) == cst[c] = "open" /\ echo[c] < csent[c]
MessageEchoed == \A c \in Client \ Idler : Waits(c) ~> ~Waits(c) \/ exited

\* The descriptor of a client that left is closed.
Gone(c) == c \notin UNION { backlog[w] : w \in Id } /\ \A fd \in Fd : sock[fd] # c
DescriptorReleased == \A c \in Client : cst[c] = "shut" ~> Gone(c) \/ exited

=============================================================================
