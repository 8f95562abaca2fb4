------------------------------ MODULE UringEcho ------------------------------
(***************************************************************************)
(* The echo server on io_uring (event-tester/iouring.c): a worker per CPU  *)
(* with a ring and a listening socket of its own.  A worker handles the    *)
(* completions there are, queueing new requests, and submits the queue     *)
(* when there are none left.  Connections that belong to another CPU are   *)
(* put on that worker's incoming list; its eventfd is then written, and is *)
(* read, through the rings too.                                            *)
(*                                                                         *)
(* io_uring, sockets, eventfds and clients are external.  Clients behave   *)
(* as in EpollEcho: as tcp_client.c, or they reset the connection.         *)
(***************************************************************************)
EXTENDS Integers, Sequences, FiniteSets, FiniteSetsExt, Bags

CONSTANTS Worker, Client,
          Reach,        \* the workers a client's connection may arrive at
          NULL,
          NFd,          \* BOUND: descriptors there are for connections
          QUEUE_DEPTH,  \* entries of a submission queue
          msg_size,
          MaxMsgs,      \* BOUND: messages a client sends
          Resetter      \* the clients that may reset their connection

ASSUME UringAssumption ==
    /\ NFd \in Nat \ {0} /\ msg_size \in Nat \ {0} /\ MaxMsgs \in Nat
    /\ QUEUE_DEPTH \in Nat
    /\ Resetter \subseteq Client /\ Reach \in [Client -> SUBSET Worker]

ASSUME NullAssumption == NULL \notin Client \cup Worker \cup Nat

Fd == 1 .. NFd

\* A request as its req_info tells it: on is the connection's descriptor, or the
\* worker whose eventfd is written.
Req(t, on, len) == [type |-> t, on |-> on, len |-> len]
add_accept_request         == SetToBag({Req("ACCEPT", NULL, 0)})
add_read_event             == SetToBag({Req("EV_READ", NULL, 0)})
add_write_event(owner)     == SetToBag({Req("EV_WRITE", owner, 0)})
add_read_request(fd, len)  == SetToBag({Req("SOCK_READ", fd, len)})
add_write_request(fd, len) == SetToBag({Req("SOCK_WRITE", fd, len)})

VARIABLES
    conns,      \* cursor of the connection of each descriptor, or NULL
    incoming,   \* per worker: incoming.list, newest first
    pc,         \* per worker: where it is
    closing,    \* per worker: the descriptor on_close was called for
    sq,         \* per worker: the bag of requests queued and not submitted
    flight,     \* kernel: the bag of requests each ring works on
    cq,         \* per worker: completions it has not handled yet
    event_fd,   \* kernel: counter of a worker's eventfd
    sock,       \* kernel: the client at the other end of a descriptor, or NULL
    backlog,    \* kernel: clients a listening socket has not accepted
    cst,        \* clients: "idle", "open", "shut" or "reset"
    csent,      \* bytes a client has sent
    sread,      \* bytes of them the server has read
    echo        \* bytes a client got back

table  == <<conns, incoming>>
rings  == <<sq, flight, cq>>
kernel == <<event_fd, sock, backlog>>
client == <<cst, csent, sread, echo>>
vars   == <<conns, incoming, pc, closing, sq, flight, cq, event_fd, sock, backlog,
            cst, csent, sread, echo>>

\* Every worker has queued its first two requests and passed the barrier of
\* HangLockStart.
Init ==
    /\ conns = [fd \in Fd |-> NULL]
    /\ incoming = [w \in Worker |-> <<>>]
    /\ pc = [w \in Worker |-> "handle"]
    /\ closing = [w \in Worker |-> NULL]
    /\ sq = [w \in Worker |-> add_accept_request (+) add_read_event]
    /\ flight = [w \in Worker |-> EmptyBag]
    /\ cq = [w \in Worker |-> <<>>]
    /\ event_fd = [w \in Worker |-> 0]
    /\ sock = [fd \in Fd |-> NULL]
    /\ backlog = [w \in Worker |-> {}]
    /\ cst = [c \in Client |-> "idle"]
    /\ csent = [c \in Client |-> 0]
    /\ sread = [c \in Client |-> 0]
    /\ echo = [c \in Client |-> 0]

-----------------------------------------------------------------------------
(* The clients *)

Connect(c, w) ==
    /\ cst[c] = "idle"
    /\ cst' = [cst EXCEPT ![c] = "open"]
    /\ backlog' = [backlog EXCEPT ![w] = @ \cup {c}]
    /\ UNCHANGED <<table, pc, closing, rings, event_fd, sock, csent, sread, echo>>

\* One message at a time; a read may find any part of it.
Send(c) ==
    /\ cst[c] = "open"
    /\ csent[c] = echo[c] /\ csent[c] < msg_size * MaxMsgs
    /\ csent' = [csent EXCEPT ![c] = @ + msg_size]
    /\ UNCHANGED <<table, pc, closing, rings, kernel, cst, sread, echo>>

Leave(c) ==
    /\ cst[c] = "open"
    /\ \/ echo[c] = msg_size * MaxMsgs /\ cst' = [cst EXCEPT ![c] = "shut"]
       \/ c \in Resetter /\ cst' = [cst EXCEPT ![c] = "reset"]
    /\ UNCHANGED <<table, pc, closing, rings, kernel, csent, sread, echo>>

-----------------------------------------------------------------------------
(* The kernel: a request of w's ring completes with result res *)

Completed(w, r, res) ==
    /\ BagIn(r, flight[w])
    /\ flight' = [flight EXCEPT ![w] = @ (-) SetToBag({r})]
    /\ cq' = [cq EXCEPT ![w] = Append(@, [type |-> r.type, on |-> r.on, res |-> res])]
    /\ UNCHANGED <<table, pc, closing, sq>>

FreeFds == { fd \in Fd : sock[fd] = NULL }
Accepts(w) ==
    /\ FreeFds # {}
    /\ Completed(w, Req("ACCEPT", NULL, 0), Min(FreeFds))
    /\ \E c \in backlog[w] :
         /\ backlog' = [backlog EXCEPT ![w] = @ \ {c}]
         /\ sock' = [sock EXCEPT ![Min(FreeFds)] = c]
    /\ UNCHANGED <<event_fd, client>>

\* A read of the eventfd takes all that was written to it.
ReadsEvent(w) ==
    /\ event_fd[w] > 0
    /\ Completed(w, Req("EV_READ", NULL, 0), event_fd[w])
    /\ event_fd' = [event_fd EXCEPT ![w] = 0]
    /\ UNCHANGED <<sock, backlog, client>>

WritesEvent(w, owner) ==
    /\ Completed(w, Req("EV_WRITE", owner, 0), 1)
    /\ event_fd' = [event_fd EXCEPT ![owner] = @ + 1]
    /\ UNCHANGED <<sock, backlog, client>>

\* Data, the end of the stream (0) or an error.
Reads(w, fd) == \E r \in BagToSet(flight[w]) :
    LET c == sock[fd]
        n == Min({csent[c] - sread[c], r.len})
    IN /\ r.type = "SOCK_READ" /\ r.on = fd
       /\ \/ \E m \in 1 .. n : Completed(w, r, m) /\ sread' = [sread EXCEPT ![c] = @ + m]
          \/ n = 0 /\ cst[c] = "shut" /\ Completed(w, r, 0) /\ UNCHANGED sread
          \/ cst[c] = "reset" /\ Completed(w, r, -1) /\ UNCHANGED sread
       /\ UNCHANGED <<kernel, cst, csent, echo>>

Writes(w, fd) == \E r \in BagToSet(flight[w]) :
    LET c == sock[fd]
    IN /\ r.type = "SOCK_WRITE" /\ r.on = fd
       /\ \/ /\ cst[c] # "reset"
             /\ \E n \in 1 .. r.len :
                  Completed(w, r, n) /\ echo' = [echo EXCEPT ![c] = @ + n]
          \/ cst[c] = "reset" /\ Completed(w, r, -1) /\ UNCHANGED echo
       /\ UNCHANGED <<kernel, cst, csent, sread>>

-----------------------------------------------------------------------------
(* worker_func of w: one completion of io_uring_for_each_cqe, or a submit *)

Goes(w, p) == pc' = [pc EXCEPT ![w] = p]

\* The copies in a bag, numbered.
Copies(r, b) == IF BagIn(r, b) THEN b[r] ELSE 0
Entries(b)   == UNION { {r} \X (1 .. b[r]) : r \in BagToSet(b) }

\* The requests of bag b are queued and the worker goes on at p.  Nobody looks
\* whether io_uring_get_sqe found an entry: if not, the process ends at NULL.
Queues(w, b, p) ==
    IF Cardinality(Entries(sq[w] (+) b)) <= QUEUE_DEPTH
    THEN sq' = [sq EXCEPT ![w] = @ (+) b] /\ Goes(w, p)
    ELSE Goes(w, "segv") /\ UNCHANGED sq

\* The next completion is of this type.  Its req_info is copied and freed at once.
Handles(w, type) ==
    /\ pc[w] \in {"wait", "handle"}
    /\ cq[w] # <<>> /\ Head(cq[w]).type = type
    /\ cq' = [cq EXCEPT ![w] = Tail(@)]
    /\ UNCHANGED <<flight, kernel, client>>

\* case ACCEPT: the connection is handed to the worker of its CPU, or set up, and
\* the next one asked for; the variant does not.
Places(w, next) == LET fd == Head(cq[w]).res IN \E owner \in Worker :
    /\ Handles(w, "ACCEPT")
    /\ IF owner # w
       THEN /\ incoming' = [incoming EXCEPT ![owner] = <<fd>> \o @]
            /\ Queues(w, add_write_event(owner) (+) next, "handle")
            /\ UNCHANGED conns
       ELSE /\ conns' = [conns EXCEPT ![fd] = 0]
            /\ Queues(w, add_read_request(fd, msg_size) (+) next, "handle")
            /\ UNCHANGED incoming
    /\ UNCHANGED closing
OnAccept_Once(w) == Places(w, EmptyBag)
OnAccept(w)      == Places(w, add_accept_request)

\* on_close is called for the connection of completion e.
Closes(w, e) ==
    /\ closing' = [closing EXCEPT ![w] = e.on]
    /\ Goes(w, "close")
    /\ UNCHANGED <<table, sq>>

\* case SOCK_READ: a whole message is written back from its start.
OnSockRead(w) ==
    LET e == Head(cq[w])
        cursor == conns[e.on]
    IN /\ Handles(w, "SOCK_READ")
       /\ IF e.res <= 0 THEN Closes(w, e)
          ELSE /\ IF cursor + e.res = msg_size
                  THEN /\ conns' = [conns EXCEPT ![e.on] = 0]
                       /\ Queues(w, add_write_request(e.on, msg_size), "handle")
                  ELSE /\ conns' = [conns EXCEPT ![e.on] = cursor + e.res]
                       /\ Queues(w, add_read_request(e.on, msg_size - (cursor + e.res)), "handle")
               /\ UNCHANGED <<incoming, closing>>

\* case SOCK_WRITE: then the next message is read.
OnSockWrite(w) ==
    LET e == Head(cq[w])
        cursor == conns[e.on]
    IN /\ Handles(w, "SOCK_WRITE")
       /\ IF e.res <= 0 THEN Closes(w, e)
          ELSE /\ IF cursor + e.res = msg_size
                  THEN /\ conns' = [conns EXCEPT ![e.on] = 0]
                       /\ Queues(w, add_read_request(e.on, msg_size), "handle")
                  ELSE /\ conns' = [conns EXCEPT ![e.on] = cursor + e.res]
                       /\ Queues(w, add_write_request(e.on, msg_size - (cursor + e.res)), "handle")
               /\ UNCHANGED <<incoming, closing>>

\* case EV_WRITE: the eight bytes written are freed.
OnEvWrite(w) ==
    /\ Handles(w, "EV_WRITE")
    /\ Goes(w, "handle")
    /\ UNCHANGED <<table, closing, sq>>

\* case EV_READ: the list is to be emptied.  The eventfd's read is armed for each
\* connection taken from it; in the variant on each wake-up too.
OnEvRead_Arms(w) ==
    /\ Handles(w, "EV_READ")
    /\ Queues(w, add_read_event, "drain")
    /\ UNCHANGED <<table, closing>>
OnEvRead(w) ==
    /\ Handles(w, "EV_READ")
    /\ Goes(w, "drain")
    /\ UNCHANGED <<table, closing, sq>>

\* One turn of its loop; the lock is dropped before the next, which the variant
\* does not make.
Takes(w, then) ==
    /\ pc[w] = "drain"
    /\ IF incoming[w] = <<>>
       THEN Goes(w, "handle") /\ UNCHANGED <<table, sq>>
       ELSE /\ incoming' = [incoming EXCEPT ![w] = Tail(@)]
            /\ conns' = [conns EXCEPT ![Head(incoming[w])] = 0]
            /\ Queues(w, add_read_request(Head(incoming[w]), msg_size) (+) add_read_event, then)
    /\ UNCHANGED <<closing, flight, cq, kernel, client>>
TakeNew_One(w) == Takes(w, "handle")
TakeNew(w)     == Takes(w, "drain")

\* on_close: the slot is cleared, then the descriptor closed; in the variant it
\* is the other way round.
Unslot(w)  == conns' = [conns EXCEPT ![closing[w]] = NULL] /\ UNCHANGED sock
Release(w) == sock' = [sock EXCEPT ![closing[w]] = NULL] /\ UNCHANGED conns

Undo(w, first, second) ==
    /\ \/ pc[w] = "close" /\ first /\ Goes(w, "closed") /\ UNCHANGED closing
       \/ /\ pc[w] = "closed" /\ second /\ Goes(w, "handle")
          /\ closing' = [closing EXCEPT ![w] = NULL]
    /\ UNCHANGED <<incoming, rings, event_fd, backlog, client>>
on_close_CloseFirst(w) == Undo(w, Release(w), Unslot(w))
on_close(w)            == Undo(w, Unslot(w), Release(w))

\* No completion is left: io_uring_cq_advance, and io_uring_submit_and_wait,
\* which returns with the next one.
Submit(w) ==
    /\ pc[w] = "handle" /\ cq[w] = <<>>
    /\ flight' = [flight EXCEPT ![w] = @ (+) sq[w]]
    /\ sq' = [sq EXCEPT ![w] = EmptyBag]
    /\ Goes(w, "wait")
    /\ UNCHANGED <<table, closing, cq, kernel, client>>

Step(w) ==
    \/ OnAccept(w) \/ OnSockRead(w) \/ OnSockWrite(w) \/ OnEvWrite(w) \/ OnEvRead(w)
    \/ TakeNew(w) \/ on_close(w) \/ Submit(w)

Alive == \A w \in Worker : pc[w] # "segv"

\* The kernel completes some request of w's ring.
Completes(w) ==
    \/ Accepts(w) \/ ReadsEvent(w)
    \/ \E owner \in Worker : WritesEvent(w, owner)
    \/ \E fd \in Fd : Reads(w, fd) \/ Writes(w, fd)

\* CUT: a behaviour ends where the process does.
Next ==
    /\ Alive
    /\ \/ \E w \in Worker : Step(w) \/ Completes(w)
       \/ \E c \in Client : Send(c) \/ Leave(c) \/ \E w \in Reach[c] : Connect(c, w)

Spec == Init /\ [][Next]_vars

\* Workers are scheduled, and a ring that can complete a request completes one.
FairSpec ==
    /\ Spec
    /\ \A w \in Worker : WF_vars(Alive /\ Step(w)) /\ WF_vars(Alive /\ Completes(w))

-----------------------------------------------------------------------------
(* Properties *)

Request == [type : {"ACCEPT", "EV_READ"}, on : {NULL}, len : {0}]
    \cup [type : {"EV_WRITE"}, on : Worker, len : {0}]
    \cup [type : {"SOCK_READ", "SOCK_WRITE"}, on : Fd, len : 1 .. msg_size]
Completion == [type : {"ACCEPT"}, on : {NULL}, res : Fd]
    \cup [type : {"EV_READ", "EV_WRITE"}, on : Worker \cup {NULL}, res : Nat]
    \cup [type : {"SOCK_READ", "SOCK_WRITE"}, on : Fd, res : Int]

TypeOK ==
    /\ conns \in [Fd -> (0 .. msg_size - 1) \cup {NULL}]
    /\ incoming \in [Worker -> Seq(Fd)]
    /\ pc \in [Worker -> {"wait", "handle", "drain", "close", "closed", "segv"}]
    /\ closing \in [Worker -> Fd \cup {NULL}]
    /\ DOMAIN sq = Worker /\ DOMAIN flight = Worker
    /\ \A w \in Worker : \A b \in {sq[w], flight[w]} : IsABag(b) /\ BagToSet(b) \subseteq Request
    /\ cq \in [Worker -> Seq(Completion)]
    /\ event_fd \in [Worker -> Nat]
    /\ sock \in [Fd -> Client \cup {NULL}]
    /\ backlog \in [Worker -> SUBSET Client]
    /\ cst \in [Client -> {"idle", "open", "shut", "reset"}]
    /\ csent \in [Client -> Nat] /\ sread \in [Client -> Nat] /\ echo \in [Client -> Nat]

\* Where a descriptor is: asked about by a request, the subject of a completion of
\* a connection, accepted, on a list, or being closed.
IsAbout(r, fd) == r.type \in {"SOCK_READ", "SOCK_WRITE"} /\ r.on = fd
Asked(w)       == sq[w] (+) flight[w]
Requested(fd)  == { x \in UNION { {w} \X Entries(Asked(w)) : w \in Worker } : IsAbout(x[2][1], fd) }
Queued         == UNION { {w} \X DOMAIN cq[w] : w \in Worker }
Ended(fd)      == { x \in Queued : IsAbout(cq[x[1]][x[2]], fd) }
Accepted(fd)   == { x \in Queued : cq[x[1]][x[2]].type = "ACCEPT" /\ cq[x[1]][x[2]].res = fd }
Listed(fd)     == { x \in UNION { {w} \X DOMAIN incoming[w] : w \in Worker } : incoming[x[1]][x[2]] = fd }
Closing(fd)    == { w \in Worker : closing[w] = fd }

\* While the process runs an open descriptor is in one place: accepted and not
\* looked at, on one list, the subject of exactly one request, or being closed.
\* conns[] has a connection for it exactly as long as requests are made for it; so
\* no completion meets the connection of a later client, or none.
OneOwner == Alive => \A fd \in Fd :
    /\ Cardinality(Requested(fd)) + Cardinality(Ended(fd)) + Cardinality(Accepted(fd))
         + Cardinality(Listed(fd)) + Cardinality(Closing(fd)) = (IF sock[fd] = NULL THEN 0 ELSE 1)
    /\ conns[fd] # NULL <=> \/ Requested(fd) \cup Ended(fd) # {}
                            \/ \E w \in Closing(fd) : pc[w] = "close"

\* The list, the eventfd and its reads work as WakeUps says, for each worker, in
\* every step that does not end the process.
Signals(w) == UNION { {v} \X (1 .. Copies(Req("EV_WRITE", w, 0), Asked(v))) : v \in Worker }
Fired(q)   == { j \in DOMAIN q : q[j].type = "EV_READ" }
Hand(w) == INSTANCE WakeUps WITH
    listed   <- Len(incoming[w]),
    signals  <- event_fd[w] + Cardinality(Signals(w)),
    armed    <- Copies(Req("EV_READ", NULL, 0), Asked(w)),
    fired    <- Cardinality(Fired(cq[w])),
    at       <- IF pc[w] = "drain" THEN "list" ELSE "events"
HandsOver ==
    /\ \A w \in Worker : Hand(w)!WakeInit
    /\ [][Alive' => \A w \in Worker : [Hand(w)!WakeNext]_(Hand(w)!wvars)]_vars

\* io_uring_get_sqe finds no entry, and the process ends at NULL (iouring.c:62-65,
\* 74-77, 85-88), only for a worker that queued requests for at least
\* QUEUE_DEPTH / 2 - 1 connections since it last submitted, 127 for the code's
\* 256: each of them takes two entries at most, the one it asks about now too,
\* and an accepted connection that was handed over two more.
SockFds(b) == { fd \in Fd : \E r \in BagToSet(b) : IsAbout(r, fd) }
SqeFits == \A w \in Worker :
    pc[w] = "segv" => 2 * Cardinality(SockFds(sq[w])) + 4 > QUEUE_DEPTH

\* No queue is ever overrun: false, as nothing limits the connections.
NeverFull == Alive

\* While the process runs each message is echoed, and the descriptor of a client
\* that left or broke is closed, whatever the other clients do.
Waits(c) == cst[c] = "open" /\ echo[c] < csent[c]
MessageEchoed == \A c \in Client : Waits(c) ~> ~Waits(c) \/ ~Alive
Gone(c) == /\ c \notin UNION { backlog[w] : w \in Worker }
           /\ \A fd \in Fd : sock[fd] # c
DescriptorReleased == \A c \in Client : cst[c] \in {"shut", "reset"} ~> Gone(c) \/ ~Alive

=============================================================================
