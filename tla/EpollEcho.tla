------------------------------ MODULE EpollEcho ------------------------------
(***************************************************************************)
(* The echo server on epoll (event-tester/epoll.c): a worker per CPU, each *)
(* with its own epoll set and listening socket.  The worker that accepts a *)
(* connection hands it to the one whose CPU receives its packets: it puts  *)
(* it on that worker's incoming list, under a lock, and then writes to     *)
(* that worker's eventfd.                                                  *)
(*                                                                         *)
(* Sockets, epoll, eventfds and clients are external.  A client sends a    *)
(* message only after the echo of the one before, and closes only between  *)
(* two messages (tcp_client.c), or resets the connection.  What the bytes  *)
(* are is left out: UpcallEcho follows them.                               *)
(***************************************************************************)
EXTENDS Integers, Sequences, FiniteSets, FiniteSetsExt

CONSTANTS Worker, Client,
          Reach,        \* the workers a client's connection may arrive at
          NULL,
          NFd,          \* BOUND: descriptors there are for connections
          msg_size,
          MaxMsgs,      \* BOUND: messages a client sends
          Resetter,     \* the clients that may reset their connection
          Idler         \* the clients that do not read what they are sent

ASSUME EpollAssumption ==
    /\ NFd \in Nat \ {0} /\ msg_size \in Nat \ {0} /\ MaxMsgs \in Nat
    /\ Resetter \subseteq Client /\ Idler \subseteq Client /\ Reach \in [Client -> SUBSET Worker]

ASSUME NullAssumption == NULL \notin Client /\ NULL \notin Worker /\ NULL \notin Nat

Fd     == 1 .. NFd
Listen == 0             \* a worker's listen_sock
EvFd   == -1            \* a worker's event_fd

VARIABLES
    conns,      \* cursor of the connection of each descriptor, or NULL
    incoming,   \* per worker: incoming.list, newest first
    pc,         \* per worker: where it is
    batch,      \* per worker: events of epoll_wait not handled yet
    cur,        \* per worker: the descriptor in hand
    hup,        \* per worker: it is closing cur because of EPOLLERR or EPOLLHUP
    cursor,     \* per worker: the local cursor of on_read
    to,         \* per worker: the owner on_accept has still to notify, or NULL
    interest,   \* kernel: connections in a worker's epoll set
    event_fd,   \* kernel: counter of a worker's eventfd
    sock,       \* kernel: the client at the other end of a descriptor, or NULL
    backlog,    \* kernel: clients a listening socket has not accepted
    cst,        \* clients: "idle", "open", "shut" or "reset"
    csent,      \* bytes a client has sent
    sread,      \* bytes of them the server has read
    echo        \* bytes a client got back

local  == <<pc, batch, cur, hup, cursor, to>>
table  == <<conns, incoming>>
kernel == <<interest, event_fd, sock, backlog>>
client == <<cst, csent, sread, echo>>
vars   == <<conns, incoming, pc, batch, cur, hup, cursor, to, interest, event_fd,
            sock, backlog, cst, csent, sread, echo>>

\* Every worker has set itself up and passed the barrier of HangLockStart.
Init ==
    /\ conns = [fd \in Fd |-> NULL]
    /\ incoming = [w \in Worker |-> <<>>]
    /\ pc = [w \in Worker |-> "wait"]
    /\ batch = [w \in Worker |-> {}]
    /\ cur = [w \in Worker |-> Listen]
    /\ hup = [w \in Worker |-> FALSE]
    /\ cursor = [w \in Worker |-> 0]
    /\ to = [w \in Worker |-> NULL]
    /\ interest = [w \in Worker |-> {}]
    /\ event_fd = [w \in Worker |-> 0]
    /\ sock = [fd \in Fd |-> NULL]
    /\ backlog = [w \in Worker |-> {}]
    /\ cst = [c \in Client |-> "idle"]
    /\ csent = [c \in Client |-> 0]
    /\ sread = [c \in Client |-> 0]
    /\ echo = [c \in Client |-> 0]

-----------------------------------------------------------------------------
(* The clients *)

Connect(c, w) ==
    /\ cst[c] = "idle"
    /\ cst' = [cst EXCEPT ![c] = "open"]
    /\ backlog' = [backlog EXCEPT ![w] = @ \cup {c}]
    /\ UNCHANGED <<table, local, interest, event_fd, sock, csent, sread, echo>>

Send(c) ==
    /\ cst[c] = "open"
    /\ csent[c] < msg_size * MaxMsgs
    /\ csent[c] < msg_size * (1 + echo[c] \div msg_size)
    /\ csent' = [csent EXCEPT ![c] = @ + 1]
    /\ UNCHANGED <<table, local, kernel, cst, sread, echo>>

Leave(c) ==
    /\ cst[c] = "open"
    /\ \/ echo[c] = csent[c] /\ cst' = [cst EXCEPT ![c] = "shut"]
       \/ c \in Resetter /\ cst' = [cst EXCEPT ![c] = "reset"]
    /\ UNCHANGED <<table, local, kernel, csent, sread, echo>>

-----------------------------------------------------------------------------
(* The event loop of worker w *)

At(w, p)    == pc[w] = p
Goes(w, p)  == pc' = [pc EXCEPT ![w] = p]

Readable(fd) == sread[sock[fd]] < csent[sock[fd]] \/ cst[sock[fd]] \in {"shut", "reset"}

\* What epoll_wait reports: BACKLOG is more than there are descriptors here.
Ready(w) ==
    { [fd |-> Listen, err |-> FALSE] : b \in backlog[w] }
    \cup { [fd |-> EvFd, err |-> FALSE] : n \in 1 .. event_fd[w] }
    \cup { [fd |-> fd, err |-> cst[sock[fd]] = "reset"] : fd \in { g \in interest[w] : Readable(g) } }

EpollWait(w) ==
    /\ At(w, "wait")
    /\ Ready(w) # {}
    /\ batch' = [batch EXCEPT ![w] = Ready(w)]
    /\ Goes(w, "batch")
    /\ UNCHANGED <<table, kernel, client, cur, hup, cursor, to>>

\* The next event, or back to epoll_wait.  A broken connection is closed, and
\* then given to on_read all the same.
Dispatch(w) ==
    /\ At(w, "batch")
    /\ \/ batch[w] = {} /\ Goes(w, "wait") /\ UNCHANGED <<batch, cur, hup>>
       \/ \E e \in batch[w] :
            /\ batch' = [batch EXCEPT ![w] = @ \ {e}]
            /\ cur' = [cur EXCEPT ![w] = e.fd]
            /\ hup' = [hup EXCEPT ![w] = e.err]
            /\ \/ e.fd = Listen /\ Goes(w, "accept")
               \/ e.fd = EvFd /\ Goes(w, "event")
               \/ e.fd \in Fd /\ e.err /\ Goes(w, "close")
               \/ e.fd \in Fd /\ ~e.err /\ Goes(w, "enter")
    /\ UNCHANGED <<table, kernel, client, cursor, to>>

\* on_accept: accept4, and the connection is put on its owner's list; or there
\* is nobody left to accept.  CUT: where no descriptor is left, accept4 fails
\* and the process exits.
FreeFds == { fd \in Fd : sock[fd] = NULL }
Accept(w) ==
    /\ At(w, "accept") /\ to[w] = NULL
    /\ \/ /\ backlog[w] = {}
          /\ Goes(w, "batch")
          /\ UNCHANGED <<backlog, sock, incoming, to>>
       \/ /\ FreeFds # {}
          /\ \E c \in backlog[w], owner \in Worker :
               /\ backlog' = [backlog EXCEPT ![w] = @ \ {c}]
               /\ sock' = [sock EXCEPT ![Min(FreeFds)] = c]
               /\ incoming' = [incoming EXCEPT ![owner] = <<Min(FreeFds)>> \o @]
               /\ to' = [to EXCEPT ![w] = owner]
          /\ UNCHANGED pc
    /\ UNCHANGED <<conns, interest, event_fd, client, batch, cur, hup, cursor>>

\* write(owner->event_fd)
Notify(w) ==
    /\ At(w, "accept") /\ to[w] # NULL
    /\ event_fd' = [event_fd EXCEPT ![to[w]] = @ + 1]
    /\ to' = [to EXCEPT ![w] = NULL]
    /\ UNCHANGED <<table, client, pc, batch, cur, hup, cursor, interest, sock, backlog>>

\* on_event: one read takes all that was written to the eventfd.
on_event(w) ==
    /\ At(w, "event")
    /\ event_fd' = [event_fd EXCEPT ![w] = 0]
    /\ Goes(w, "drain")
    /\ UNCHANGED <<table, client, batch, cur, hup, cursor, to, interest, sock, backlog>>

\* handle_new_conns: the lock is dropped while a connection is set up.
TakeNew(w) ==
    /\ At(w, "drain")
    /\ IF incoming[w] = <<>>
       THEN Goes(w, "batch") /\ UNCHANGED <<incoming, cur>>
       ELSE /\ cur' = [cur EXCEPT ![w] = Head(incoming[w])]
            /\ incoming' = [incoming EXCEPT ![w] = Tail(@)]
            /\ Goes(w, "register")
    /\ UNCHANGED <<conns, kernel, client, batch, hup, cursor, to>>

\* The variant takes one connection for each event, though the eventfd may
\* stand for many.
Register_One(w) ==
    /\ At(w, "register")
    /\ conns' = [conns EXCEPT ![cur[w]] = 0]
    /\ interest' = [interest EXCEPT ![w] = @ \cup {cur[w]}]
    /\ Goes(w, "batch")
    /\ UNCHANGED <<incoming, client, batch, cur, hup, cursor, to, event_fd, sock, backlog>>
Register(w) ==
    /\ At(w, "register")
    /\ conns' = [conns EXCEPT ![cur[w]] = 0]
    /\ interest' = [interest EXCEPT ![w] = @ \cup {cur[w]}]
    /\ Goes(w, "drain")
    /\ UNCHANGED <<incoming, client, batch, cur, hup, cursor, to, event_fd, sock, backlog>>

-----------------------------------------------------------------------------
(* on_read and on_close *)

\* on_read(conns[cur]): a NULL ends the process.  CUT: nor is followed what a
\* worker does ("stray") once it serves a connection of another one, which has
\* got the descriptor that this one closed: they race for the same memory.
EnterRead(w) ==
    /\ At(w, "enter")
    /\ \/ conns[cur[w]] = NULL /\ Goes(w, "segv") /\ UNCHANGED cursor
       \/ /\ conns[cur[w]] # NULL /\ cur[w] \notin interest[w]
          /\ Goes(w, "stray") /\ UNCHANGED cursor
       \/ /\ conns[cur[w]] # NULL /\ cur[w] \in interest[w]
          /\ cursor' = [cursor EXCEPT ![w] = conns[cur[w]]]
          /\ Goes(w, "read")
    /\ UNCHANGED <<table, kernel, client, batch, cur, hup, to>>

\* on_read returns for want of data, and conn->cursor keeps how far it came.
Suspend(w) ==
    /\ conns' = [conns EXCEPT ![cur[w]] = cursor[w]]
    /\ Goes(w, "batch") /\ UNCHANGED <<sread, cursor>>

\* conn->cursor = cursor = 0 with the whole message read; not in the variant.
Rewound_Not == msg_size
Rewound     == 0

\* One read(): data, EAGAIN or an error, or 0.
Read(w) ==
    LET c == sock[cur[w]]
        n == Min({csent[c] - sread[c], msg_size - cursor[w]})
    IN /\ At(w, "read")
       /\ \/ /\ n > 0
             /\ sread' = [sread EXCEPT ![c] = @ + n]
             /\ IF cursor[w] + n < msg_size
                THEN cursor' = [cursor EXCEPT ![w] = @ + n] /\ UNCHANGED <<conns, pc>>
                ELSE /\ cursor' = [cursor EXCEPT ![w] = Rewound]
                     /\ conns' = [conns EXCEPT ![cur[w]] = Rewound]
                     /\ Goes(w, "write")
          \/ n = 0 /\ cst[c] \in {"open", "reset"} /\ Suspend(w)
          \/ n = 0 /\ cst[c] \in {"shut", "reset"} /\ Goes(w, "close")
             /\ UNCHANGED <<conns, sread, cursor>>
       /\ UNCHANGED <<incoming, kernel, batch, cur, hup, to, cst, csent, echo>>

\* One write().  EAGAIN, which is all an idler leaves the worker once its buffer
\* is full, goes round the loop, which is no step here; a write to a connection
\* that was reset ends the process with SIGPIPE, then or at the next turn.
Write(w) ==
    LET c == sock[cur[w]]
    IN /\ At(w, "write")
       /\ \/ /\ cst[c] # "reset" /\ c \notin Idler
             /\ \E n \in 1 .. msg_size - cursor[w] :
                  /\ echo' = [echo EXCEPT ![c] = @ + n]
                  /\ cursor' = [cursor EXCEPT ![w] = @ + n]
                  /\ Goes(w, IF cursor[w] + n < msg_size THEN "write" ELSE "batch")
          \/ cst[c] = "reset" /\ Goes(w, "sigpipe") /\ UNCHANGED <<echo, cursor>>
       /\ UNCHANGED <<table, kernel, batch, cur, hup, to, cst, csent, sread>>

\* on_close: the slot first, then the epoll set and the descriptor.  The variant
\* has it the other way round.
Unslot(w)  == conns' = [conns EXCEPT ![cur[w]] = NULL] /\ UNCHANGED <<interest, sock>>
Release(w) ==
    /\ interest' = [interest EXCEPT ![w] = @ \ {cur[w]}]
    /\ sock' = [sock EXCEPT ![cur[w]] = NULL]
    /\ UNCHANGED conns
AfterClose(w) ==
    /\ Goes(w, IF hup[w] THEN "enter" ELSE "batch")
    /\ hup' = [hup EXCEPT ![w] = FALSE]

OnCloseStep_CloseFirst(w) ==
    /\ \/ At(w, "close") /\ Release(w) /\ Goes(w, "closed") /\ UNCHANGED hup
       \/ At(w, "closed") /\ Unslot(w) /\ AfterClose(w)
    /\ UNCHANGED <<incoming, event_fd, backlog, client, batch, cur, cursor, to>>
OnCloseStep(w) ==
    /\ \/ At(w, "close") /\ Unslot(w) /\ Goes(w, "closed") /\ UNCHANGED hup
       \/ At(w, "closed") /\ Release(w) /\ AfterClose(w)
    /\ UNCHANGED <<incoming, event_fd, backlog, client, batch, cur, cursor, to>>

Alive == \A w \in Worker : pc[w] \notin {"segv", "stray", "sigpipe"}

Step(w) ==
    \/ EpollWait(w) \/ Dispatch(w) \/ Accept(w) \/ Notify(w) \/ on_event(w)
    \/ TakeNew(w) \/ Register(w) \/ EnterRead(w) \/ Read(w) \/ Write(w)
    \/ OnCloseStep(w)

\* CUT: a behaviour ends where the process does.
Next ==
    /\ Alive
    /\ \/ \E w \in Worker : Step(w)
       \/ \E c \in Client : Send(c) \/ Leave(c) \/ \E w \in Reach[c] : Connect(c, w)

Spec == Init /\ [][Next]_vars

\* Workers are scheduled.
FairSpec == Spec /\ \A w \in Worker : WF_vars(Alive /\ Step(w))

-----------------------------------------------------------------------------
(* Properties *)

TypeOK ==
    /\ conns \in [Fd -> (0 .. msg_size - 1) \cup {NULL}]
    /\ incoming \in [Worker -> Seq(Fd)]
    /\ pc \in [Worker -> {"wait", "batch", "accept", "event", "drain", "register",
                          "enter", "read", "write", "close", "closed",
                          "segv", "stray", "sigpipe"}]
    /\ batch \in [Worker -> SUBSET [fd : Fd \cup {Listen, EvFd}, err : BOOLEAN]]
    /\ cur \in [Worker -> Fd \cup {Listen, EvFd}]
    /\ hup \in [Worker -> BOOLEAN]
    /\ cursor \in [Worker -> 0 .. msg_size]
    /\ to \in [Worker -> Worker \cup {NULL}]
    /\ interest \in [Worker -> SUBSET Fd]
    /\ event_fd \in [Worker -> Nat]
    /\ sock \in [Fd -> Client \cup {NULL}]
    /\ backlog \in [Worker -> SUBSET Client]
    /\ cst \in [Client -> {"idle", "open", "shut", "reset"}]
    /\ csent \in [Client -> Nat] /\ sread \in [Client -> Nat] /\ echo \in [Client -> Nat]

Listed(w) == { incoming[w][i] : i \in DOMAIN incoming[w] }
Holds(w)  == Listed(w) \cup interest[w] \cup { fd \in {cur[w]} : pc[w] = "register" }

\* An accepted descriptor is with one worker: on its list, being registered, or
\* in its epoll set; so it is never lost on the way, nor served by two.
OneOwner == \A fd \in Fd :
    /\ sock[fd] # NULL => Cardinality({ w \in Worker : fd \in Holds(w) }) = 1
    /\ sock[fd] = NULL => conns[fd] = NULL /\ \A w \in Worker : fd \notin Holds(w)
    /\ \A w \in Worker : fd \in Listed(w) => fd \notin interest[w]

\* A connection on a list has a wake-up under way: the eventfd is set, somebody
\* is about to set it, or the owner has yet to find its list empty.
HandOver == \A w \in Worker : incoming[w] # <<>> =>
    event_fd[w] > 0 \/ (\E v \in Worker : to[v] = w) \/ pc[w] \in {"drain", "register"}

\* As long as no connection was reset, no event is stale: the worker still has
\* the descriptor when it comes to handle it, and conns[] has its connection.
Broken == \E c \in Client : cst[c] = "reset"
EventsCurrent == ~Broken => \A w \in Worker :
    /\ \A e \in batch[w] : e.fd \in Fd => e.fd \in interest[w] /\ conns[e.fd] # NULL
                                          /\ (e.fd # cur[w] \/ pc[w] = "batch")
    /\ pc[w] \in {"enter", "read", "write"} => cur[w] \in interest[w] /\ conns[cur[w]] # NULL

\* A client has one descriptor, and a worker writes to it what was read from this
\* client and no more: what it still owes is what conn->cursor says, or the local
\* cursor of on_read while that runs.
OneSocket ==
    /\ \A fd, gd \in Fd : sock[fd] = sock[gd] /\ sock[fd] # NULL => fd = gd
    /\ \A w \in Worker : \A c \in backlog[w] :
         /\ \A fd \in Fd : sock[fd] # c
         /\ \A v \in Worker : c \in backlog[v] => v = w
InHand(w, fd, where) == cur[w] = fd /\ pc[w] \in where
Owed(w, fd) == CASE InHand(w, fd, {"read"})  -> cursor[w]
                 [] InHand(w, fd, {"write", "sigpipe"}) -> msg_size - cursor[w]
                 [] OTHER -> conns[fd]
Echoes ==
    /\ \A c \in Client : echo[c] <= sread[c] /\ sread[c] <= csent[c]
    /\ \A w \in Worker : \A fd \in interest[w] : ~InHand(w, fd, {"close", "closed"}) =>
         sread[sock[fd]] = echo[sock[fd]] + Owed(w, fd)

\* "Not much to do but clean up this connection and close the fd" (epoll.c:298):
\* a broken connection is closed, and that is all.
BrokenIsClosed == \A w \in Worker : pc[w] \notin {"segv", "stray"}

\* A message is echoed, and the descriptor of a client that left is closed,
\* unless a connection was reset: that may end the process.
Waits(c) ==
    /\ cst[c] = "open" /\ ~Broken
    /\ csent[c] % msg_size = 0 /\ echo[c] < csent[c]
MessageEchoed == \A c \in Client \ Idler : Waits(c) ~> ~Waits(c)
DescriptorReleased == \A c \in Client :
    cst[c] = "shut" ~> Broken \/ \A fd \in Fd : sock[fd] # c

=============================================================================
