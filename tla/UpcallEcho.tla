----------------------------- MODULE UpcallEcho ------------------------------
(***************************************************************************)
(* The echo server on libupcall (event-tester/upcall.c): one worker per    *)
(* CPU, each with a listening socket of its own; conns[], indexed by file  *)
(* descriptor, is the only memory the workers share.                       *)
(*                                                                         *)
(* A worker sees the service of UpcallService: its handlers run one at a   *)
(* time, and each request they queue is answered once.  The kernel's       *)
(* sockets and the clients are external; a client sends a message only     *)
(* after the echo of the one before (worker_func of tcp_client.c).  A byte *)
(* is its position in the client's stream.                                 *)
(***************************************************************************)
EXTENDS Integers, Sequences, FiniteSets, FiniteSetsExt

CONSTANTS Worker, Client,
          Reach,        \* the workers a client's connection may arrive at
          NULL,
          NFd,          \* BOUND: descriptors there are for connections
          msg_size,
          MaxMsgs       \* BOUND: messages each client sends

ASSUME EchoAssumption ==
    /\ NFd \in Nat \ {0} /\ msg_size \in Nat \ {0}
    /\ MaxMsgs \in [Client -> Nat] /\ Reach \in [Client -> SUBSET Worker]

Fd     == 1 .. NFd
Listen == 0             \* a worker's own listen_sock

ConnType == [fd : Fd \cup {-1}, cursor : 0 .. msg_size, buffer : Seq(Nat)]

ASSUME NullAssumption == NULL \notin Client /\ NULL \notin ConnType

VARIABLES
    conns,      \* the connection of each descriptor, or NULL
    armed,      \* requests the kernel works on
    events,     \* answers not handled yet
    closing,    \* per worker: what on_close has still to do
    sock,       \* kernel: the client at the other end of a descriptor, or NULL
    backlog,    \* kernel: clients a listening socket has not accepted
    cst,        \* clients: "idle", "open" or "shut"
    csent,      \* bytes a client has sent
    sread,      \* bytes of them the server has read
    echo,       \* the bytes a client got back
    failed      \* HISTORY: whose reads, writes or accepts failed

server == <<conns, armed, events, closing>>
net    == <<sock, backlog, cst, csent, sread, echo, failed>>
vars   == <<conns, armed, events, closing, sock, backlog, cst, csent, sread, echo, failed>>

Request(w, type, fd, from) == [w |-> w, type |-> type, fd |-> fd, from |-> from]
Event(q, result, data) ==
    [w |-> q.w, type |-> q.type, fd |-> q.fd, result |-> result, data |-> data]
Idle == [step |-> "none", fd |-> Listen]

\* Every worker has run upcall_echo_setup and waits for its first client.
Init ==
    /\ conns = [fd \in Fd |-> NULL]
    /\ armed = { Request(w, "accept", Listen, 0) : w \in Worker }
    /\ events = {}
    /\ closing = [w \in Worker |-> Idle]
    /\ sock = [fd \in Fd |-> NULL]
    /\ backlog = [w \in Worker |-> {}]
    /\ cst = [c \in Client |-> "idle"]
    /\ csent = [c \in Client |-> 0]
    /\ sread = [c \in Client |-> 0]
    /\ echo = [c \in Client |-> <<>>]
    /\ failed = {}

-----------------------------------------------------------------------------
(* The clients *)

Connect(c, w) ==
    /\ cst[c] = "idle"
    /\ cst' = [cst EXCEPT ![c] = "open"]
    /\ backlog' = [backlog EXCEPT ![w] = @ \cup {c}]
    /\ UNCHANGED <<server, sock, csent, sread, echo, failed>>

Send(c) ==
    /\ cst[c] = "open"
    /\ csent[c] < msg_size * MaxMsgs[c]
    /\ csent[c] < msg_size * (1 + Len(echo[c]) \div msg_size)
    /\ csent' = [csent EXCEPT ![c] = @ + 1]
    /\ UNCHANGED <<server, sock, backlog, cst, sread, echo, failed>>

Shut(c) ==
    /\ cst[c] = "open"
    /\ cst' = [cst EXCEPT ![c] = "shut"]
    /\ UNCHANGED <<server, sock, backlog, csent, sread, echo, failed>>

-----------------------------------------------------------------------------
(* The kernel *)

Answered(q, result, data) ==
    /\ q \in armed
    /\ armed' = armed \ {q}
    /\ events' = events \cup {Event(q, result, data)}
    /\ UNCHANGED <<conns, closing>>

FreeFds == { fd \in Fd : sock[fd] = NULL }

\* accept4 takes the lowest free descriptor.
Accepted(q) ==
    /\ q.type = "accept"
    /\ FreeFds # {}
    /\ \E c \in backlog[q.w] :
         /\ sock' = [sock EXCEPT ![Min(FreeFds)] = c]
         /\ backlog' = [backlog EXCEPT ![q.w] = @ \ {c}]
    /\ Answered(q, Min(FreeFds), <<>>)
    /\ UNCHANGED <<cst, csent, sread, echo, failed>>

\* A read returns what has arrived, up to a pool buffer, or 0 at the end.
ReadDone(q) ==
    LET c == sock[q.fd]
        n == Min({csent[c] - sread[c], msg_size})
    IN /\ q.type = "read"
       /\ n > 0 \/ cst[c] = "shut"
       /\ Answered(q, n, [i \in 1 .. n |-> sread[c] + i])
       /\ sread' = [sread EXCEPT ![c] = @ + n]
       /\ UNCHANGED <<sock, backlog, cst, csent, echo, failed>>

\* A write takes any number of the bytes conn->buffer then holds, from the
\* place the request named; a client that is gone gets none of them.
WriteDone(q) ==
    /\ q.type = "write"
    /\ \E n \in 0 .. msg_size - q.from :
         /\ n = 0 => cst[sock[q.fd]] = "shut"
         /\ Answered(q, n, <<>>)
         /\ echo' = [echo EXCEPT ![sock[q.fd]] =
                       IF cst[sock[q.fd]] = "open"
                       THEN @ \o SubSeq(conns[q.fd].buffer, q.from + 1, q.from + n)
                       ELSE @]
    /\ UNCHANGED <<sock, backlog, cst, csent, sread, failed>>

\* Any request may fail, for want of memory or with its connection; BOUND: only
\* one accept does.
Failed(q) ==
    /\ q.type = "accept" => Listen \notin failed
    /\ Answered(q, -1, <<>>)
    /\ failed' = failed \cup {IF q.type = "accept" THEN Listen ELSE sock[q.fd]}
    /\ UNCHANGED <<sock, backlog, cst, csent, sread, echo>>

-----------------------------------------------------------------------------
(* The handlers.  Worker e.w handles the event e. *)

Handles(e) ==
    /\ closing[e.w] = Idle
    /\ events' = events \ {e}
    /\ UNCHANGED net

Arm(requests) == armed' = armed \cup requests

\* new_conn, with a buffer of the cache, zeroed
NewConn(fd) == [fd |-> fd, cursor |-> 0, buffer |-> [i \in 1 .. msg_size |-> 0]]

\* The variant gives up accepting after a failed accept.
my_accept_NoRearm(e) ==
    /\ e.type = "accept"
    /\ Handles(e)
    /\ IF e.result < 0
       THEN UNCHANGED <<armed, conns>>
       ELSE /\ conns' = [conns EXCEPT ![e.result] = NewConn(e.result)]
            /\ Arm({Request(e.w, "read", e.result, 0), Request(e.w, "accept", Listen, 0)})
    /\ UNCHANGED closing
my_accept(e) ==
    /\ e.type = "accept"
    /\ Handles(e)
    /\ IF e.result < 0
       THEN /\ Arm({Request(e.w, "accept", Listen, 0)})
            /\ UNCHANGED conns
       ELSE /\ conns' = [conns EXCEPT ![e.result] = NewConn(e.result)]
            /\ Arm({Request(e.w, "read", e.result, 0), Request(e.w, "accept", Listen, 0)})
    /\ UNCHANGED closing

\* on_close: conn->fd = -1, and the rest is OnCloseStep.  The variant lacks the
\* return after it and queues the next read.
on_close_NoReturn(w, fd) ==
    /\ conns' = [conns EXCEPT ![fd].fd = -1]
    /\ closing' = [closing EXCEPT ![w] = [step |-> "clear", fd |-> fd]]
    /\ Arm({Request(w, "read", fd, 0)})
on_close(w, fd) ==
    /\ conns' = [conns EXCEPT ![fd].fd = -1]
    /\ closing' = [closing EXCEPT ![w] = [step |-> "clear", fd |-> fd]]
    /\ UNCHANGED armed

\* conns[closed_fd] = NULL, then close(closed_fd), then conn goes back to its
\* cache.  One variant closes first, the other forgets to close.
OnCloseStep_CloseFirst(w) ==
    LET fd == closing[w].fd
    IN /\ \/ /\ closing[w].step = "clear"
             /\ sock' = [sock EXCEPT ![fd] = NULL]
             /\ closing' = [closing EXCEPT ![w].step = "close"]
             /\ UNCHANGED conns
          \/ /\ closing[w].step = "close"
             /\ conns' = [conns EXCEPT ![fd] = NULL]
             /\ closing' = [closing EXCEPT ![w] = Idle]
             /\ UNCHANGED sock
       /\ UNCHANGED <<armed, events, backlog, cst, csent, sread, echo, failed>>
OnCloseStep_NoClose(w) ==
    /\ closing[w] # Idle
    /\ conns' = [conns EXCEPT ![closing[w].fd] = NULL]
    /\ closing' = [closing EXCEPT ![w] = Idle]
    /\ UNCHANGED <<armed, events, net>>
OnCloseStep(w) ==
    LET fd == closing[w].fd
    IN /\ \/ /\ closing[w].step = "clear"
             /\ conns' = [conns EXCEPT ![fd] = NULL]
             /\ closing' = [closing EXCEPT ![w].step = "close"]
             /\ UNCHANGED sock
          \/ /\ closing[w].step = "close"
             /\ sock' = [sock EXCEPT ![fd] = NULL]
             /\ closing' = [closing EXCEPT ![w] = Idle]
             /\ UNCHANGED conns
       /\ UNCHANGED <<armed, events, backlog, cst, csent, sread, echo, failed>>

\* The connection once the last byte of a message is written; the variant
\* forgets to rewind the cursor.
Rewound_Not(conn) == conn
Rewound(conn)     == [conn EXCEPT !.cursor = 0]

my_write(e) ==
    LET conn == conns[e.fd]
        done == conn.cursor + e.result
    IN /\ e.type = "write"
       /\ Handles(e)
       /\ \/ e.result = 0 /\ on_close(e.w, e.fd)
          \/ e.result < 0 /\ UNCHANGED <<conns, armed, closing>>
          \/ /\ e.result > 0 /\ done < msg_size
             /\ conns' = [conns EXCEPT ![e.fd].cursor = done]
             /\ Arm({Request(e.w, "write", conn.fd, done)})
             /\ UNCHANGED closing
          \/ /\ e.result > 0 /\ done >= msg_size
             /\ conns' = [conns EXCEPT ![e.fd] = Rewound(conn)]
             /\ Arm({Request(e.w, "read", conn.fd, 0)})
             /\ UNCHANGED closing

\* memcpy(&conn->buffer[conn->cursor], buf, result); what goes past the end of
\* the buffer makes it longer here.  The variant copies to its beginning.
Copied_ToStart(conn, data) ==
    [conn EXCEPT !.buffer = data \o SubSeq(@, Len(data) + 1, Len(@)),
                 !.cursor = @ + Len(data)]
Copied(conn, data) ==
    LET to == conn.cursor + Len(data)
    IN [conn EXCEPT !.buffer = SubSeq(@, 1, conn.cursor) \o data \o SubSeq(@, to + 1, Len(@)),
                    !.cursor = to]

my_read(e) ==
    LET conn == conns[e.fd]
        got  == Copied(conn, e.data)
    IN /\ e.type = "read"
       /\ Handles(e)
       /\ \/ conn.fd < 0 /\ UNCHANGED <<conns, armed, closing>>
          \/ conn.fd >= 0 /\ e.result = 0 /\ on_close(e.w, e.fd)
          \/ conn.fd >= 0 /\ e.result < 0 /\ UNCHANGED <<conns, armed, closing>>
          \/ /\ conn.fd >= 0 /\ e.result > 0 /\ got.cursor < msg_size
             /\ conns' = [conns EXCEPT ![e.fd] = got]
             /\ Arm({Request(e.w, "read", conn.fd, 0)})
             /\ UNCHANGED closing
          \/ /\ conn.fd >= 0 /\ e.result > 0 /\ got.cursor >= msg_size
             /\ conns' = [conns EXCEPT ![e.fd] = Rewound(got)]
             /\ Arm({Request(e.w, "write", conn.fd, 0)})
             /\ UNCHANGED closing

Handler(e) == my_accept(e) \/ my_read(e) \/ my_write(e)
Kernel(q)  == Accepted(q) \/ ReadDone(q) \/ WriteDone(q)

Next ==
    \/ \E c \in Client : \E w \in Reach[c] : Connect(c, w)
    \/ \E c \in Client : Send(c) \/ Shut(c)
    \/ \E q \in armed : Kernel(q) \/ Failed(q)
    \/ \E e \in events : Handler(e)
    \/ \E w \in Worker : OnCloseStep(w)

Spec == Init /\ [][Next]_vars

\* The kernel answers what it can, and workers run.
Fairness ==
    /\ \A w \in Worker : WF_vars(\E q \in armed : q.w = w /\ Accepted(q))
    /\ \A fd \in Fd : WF_vars(\E q \in armed : q.fd = fd /\ Kernel(q))
    /\ \A w \in Worker : /\ WF_vars(\E e \in events : e.w = w /\ Handler(e))
                         /\ WF_vars(OnCloseStep(w))

FairSpec == Spec /\ Fairness

-----------------------------------------------------------------------------
(* Properties *)

Types       == {"read", "write", "accept"}
RequestType == [w : Worker, type : Types, fd : Fd \cup {Listen}, from : 0 .. msg_size - 1]
EventType   == [w : Worker, type : Types, fd : Fd \cup {Listen}, result : Int, data : Seq(Nat)]

TypeOK ==
    /\ conns \in [Fd -> ConnType \cup {NULL}]
    /\ armed \subseteq RequestType /\ events \subseteq EventType
    /\ closing \in [Worker -> [step : {"none", "clear", "close"}, fd : Fd \cup {Listen}]]
    /\ sock \in [Fd -> Client \cup {NULL}]
    /\ backlog \in [Worker -> SUBSET Client]
    /\ cst \in [Client -> {"idle", "open", "shut"}]
    /\ csent \in [Client -> Nat] /\ sread \in [Client -> Nat]
    /\ echo \in [Client -> Seq(Nat)]
    /\ failed \subseteq Client \cup {Listen}

InFlight == armed \cup events
OnFd(fd) == { x \in InFlight : x.type # "accept" /\ x.fd = fd }
Accepting(fd) == \E e \in events : e.type = "accept" /\ e.result = fd
Closing(fd)   == \E w \in Worker : closing[w] # Idle /\ closing[w].fd = fd

\* conns[] agrees with the sockets: a handler finds there the connection of its
\* descriptor, and no slot is cleared, or filled, by a worker that still
\* believes the descriptor is its own.  A connection has at most one read or
\* write in flight, and none once on_close began: nobody reuses conn->buffer,
\* or a descriptor, under the kernel's hands.
OneOwner == \A fd \in Fd :
    /\ OnFd(fd) # {} => conns[fd] # NULL /\ conns[fd].fd = fd
    /\ conns[fd] # NULL => sock[fd] # NULL
    /\ Accepting(fd) => sock[fd] # NULL /\ conns[fd] = NULL
    /\ Cardinality(OnFd(fd)) <= 1
    /\ Closing(fd) => OnFd(fd) = {}
    /\ \A v, w \in Worker : v # w /\ closing[v] # Idle => closing[v].fd # closing[w].fd

\* memcpy stays inside conn->buffer, and a write inside the bytes it holds.
NoOverrun ==
    /\ \A fd \in Fd : conns[fd] # NULL => Len(conns[fd].buffer) = msg_size
    /\ \A e \in events : e.type = "read" /\ e.result > 0
                           => conns[e.fd].cursor + e.result <= msg_size

\* A client gets back exactly what it sent, in order and without gaps, whoever
\* had the descriptor, the cache entry and the buffers before.
EchoPrefix == \A c \in Client :
    /\ Len(echo[c]) <= csent[c]
    /\ \A i \in DOMAIN echo[c] : echo[c][i] = i

\* An open connection is being accepted, is being closed, or has a request in
\* flight: nothing else would ever serve it or close its descriptor.  It does
\* not hold: when a read or a write failed, my_read and my_write return with
\* nothing armed and nothing closed.
NeverStranded == \A fd \in Fd :
    sock[fd] \in Client => OnFd(fd) # {} \/ Accepting(fd) \/ Closing(fd)

\* A message that was sent completely is echoed completely, unless the client
\* leaves or a request failed; and the descriptor of a client that left is
\* released, with the same exception.
Waits(c) ==
    /\ cst[c] = "open" /\ c \notin failed
    /\ csent[c] % msg_size = 0 /\ Len(echo[c]) < csent[c]
MessageEchoed == \A c \in Client : Waits(c) ~> ~Waits(c)
DescriptorReleased == \A c \in Client :
    cst[c] = "shut" ~> c \in failed \/ \A fd \in Fd : sock[fd] # c

=============================================================================
