----------------------------- MODULE TcpClient -------------------------------
(***************************************************************************)
(* One worker thread of the load generator tcp_client.c, from the moment   *)
(* it passed the start barrier (HangLockStart): a state machine for each   *)
(* of its clients, driven by one epoll loop.                               *)
(*                                                                         *)
(* The sockets, epoll and the echo server at the other end are external.   *)
(* do_state_transition calls itself until a client has to wait: each of    *)
(* its levels is a step, and so is each recv, since data arrives between   *)
(* them.  A level-triggered event is reported as long as it holds.         *)
(***************************************************************************)
EXTENDS Integers, FiniteSets, FiniteSetsExt

CONSTANTS Client,               \* the clients of this thread
          NoClient,
          transaction_count, batch_size, msg_size,
          EVENT_BACKLOG,
          Immediate,            \* whether a connect may succeed at once
          Faulty                \* whether the server may refuse or close, a call
                                \* may fail, another thread may die

ASSUME ClientAssumption ==
    /\ NoClient \notin Client /\ IsFiniteSet(Client)
    /\ transaction_count \in Nat \ {0} /\ batch_size \in Nat \ {0}
    /\ msg_size \in Nat \ {0} /\ EVENT_BACKLOG \in Nat \ {0}
    /\ Immediate \subseteq BOOLEAN /\ Faulty \subseteq BOOLEAN

VARIABLES
    wpc,        \* "init", "loop", "wait", "handle", "done" or "exit" (exit(1))
    begun,      \* clients whose first do_state_transition was called
    rdy,        \* events epoll_wait returned and not handled yet
    cur,        \* the client in do_state_transition, or NoClient
    state, cursor, txn_remaining, batch_remaining,
    complete, dying,
    watch,      \* epoll: "out" or "in", "off" once a one-shot fired, or "none"
    link,       \* TCP: "none", "connecting", "failed", "up" or "closed"
    toServer,   \* bytes sent and not echoed
    toClient,   \* bytes echoed and not received
    immediate,  \* ENVIRONMENT: member of Immediate, of the whole behaviour
    faulty      \* ENVIRONMENT: member of Faulty, of the whole behaviour

loop  == <<wpc, begun, rdy>>
net   == <<link, toServer, toClient>>
env   == <<immediate, faulty>>
vars  == <<wpc, begun, rdy, cur, state, cursor, txn_remaining, batch_remaining,
           complete, dying, watch, link, toServer, toClient, immediate, faulty>>

Init ==
    /\ wpc = "init" /\ begun = {} /\ rdy = {} /\ cur = NoClient
    /\ state = [j \in Client |-> "INIT"]
    /\ cursor = [j \in Client |-> 0]
    /\ txn_remaining = [j \in Client |-> transaction_count]
    /\ batch_remaining = [j \in Client |-> batch_size]
    /\ complete = 0 /\ dying = FALSE
    /\ watch = [j \in Client |-> "none"]
    /\ link = [j \in Client |-> "none"]
    /\ toServer = [j \in Client |-> 0]
    /\ toClient = [j \in Client |-> 0]
    /\ immediate \in Immediate /\ faulty \in Faulty

total == transaction_count * Cardinality(Client)

-----------------------------------------------------------------------------
(* The network, the server and the other threads *)

Connected(j) ==
    /\ link[j] = "connecting"
    /\ link' = [link EXCEPT ![j] = "up"]
    /\ UNCHANGED <<toServer, toClient>>

Echo(j) ==
    /\ link[j] = "up"
    /\ \E n \in 1 .. toServer[j] :
         /\ toServer' = [toServer EXCEPT ![j] = @ - n]
         /\ toClient' = [toClient EXCEPT ![j] = @ + n]
    /\ UNCHANGED link

\* The connection is refused, or the server closes it.
Lost(j) ==
    /\ faulty
    /\ \/ link[j] = "connecting" /\ link' = [link EXCEPT ![j] = "failed"]
       \/ link[j] = "up" /\ link' = [link EXCEPT ![j] = "closed"]
    /\ UNCHANGED <<toServer, toClient>>

\* CUT: what comes after the thread has ended is left out, nobody looks at it.
Network(j) ==
    /\ wpc \notin {"done", "exit"}
    /\ Connected(j) \/ Echo(j) \/ Lost(j)
    /\ UNCHANGED <<loop, cur, state, cursor, txn_remaining, batch_remaining,
                   complete, dying, watch>>

\* set_dying of another worker
OtherDies ==
    /\ faulty /\ ~dying /\ wpc # "exit"
    /\ dying' = TRUE
    /\ UNCHANGED <<loop, cur, state, cursor, txn_remaining, batch_remaining,
                   complete, watch, net>>

-----------------------------------------------------------------------------
(* do_state_transition(cur), one level at a time *)

Stays(j)     == cur = j /\ cur' = j             \* calls itself
Returns(j)   == cur = j /\ cur' = NoClient      \* return 0
Fails(j)     == faulty /\ dying' = TRUE /\ Returns(j)
Becomes(j, s) == state' = [state EXCEPT ![j] = s]
Watches(j, w) == watch' = [watch EXCEPT ![j] = w]

\* case INIT: a new socket, and connect.  A connect that succeeds at once goes
\* on to READY; the last two disjuncts are a connect that fails, and an error of
\* another call.  The variant does not start a new batch.
BatchStart_Not(j) == UNCHANGED batch_remaining
BatchStart(j)     == batch_remaining' = [batch_remaining EXCEPT ![j] = batch_size]

FromInit(j) ==
    /\ state[j] = "INIT"
    /\ BatchStart(j)
    /\ \/ /\ Returns(j) /\ Becomes(j, "CONNECTING") /\ Watches(j, "out")
          /\ link' = [link EXCEPT ![j] = "connecting"]
          /\ UNCHANGED dying
       \/ /\ immediate
          /\ Stays(j) /\ Becomes(j, "READY") /\ UNCHANGED <<watch, dying>>
          /\ link' = [link EXCEPT ![j] = "up"]
       \/ /\ Fails(j) /\ Becomes(j, "DONE") /\ Watches(j, "out")
          /\ link' = [link EXCEPT ![j] = "failed"]
       \/ Fails(j) /\ UNCHANGED <<state, watch, link>>
    /\ UNCHANGED <<loop, cursor, txn_remaining, complete, toServer, toClient>>

\* case CONNECTING: out of epoll; SO_ERROR tells how it went.
FromConnecting(j) ==
    /\ state[j] = "CONNECTING"
    /\ Watches(j, "none")
    /\ \/ link[j] # "failed" /\ Stays(j) /\ Becomes(j, "NEW") /\ UNCHANGED dying
       \/ Fails(j) /\ UNCHANGED state          \* refused, or another error
    /\ UNCHANGED <<loop, cursor, txn_remaining, batch_remaining, complete, net>>

\* case NEW: into epoll, for reading.  The variant forgets it.
FromNew_NoAdd(j) ==
    /\ state[j] = "NEW"
    /\ Stays(j) /\ Becomes(j, "READY")
    /\ UNCHANGED <<loop, cursor, txn_remaining, batch_remaining, complete, dying, watch, net>>
FromNew(j) ==
    /\ state[j] = "NEW"
    /\ \/ Watches(j, "in") /\ Stays(j) /\ Becomes(j, "READY") /\ UNCHANGED dying
       \/ Fails(j) /\ UNCHANGED <<state, watch>>
    /\ UNCHANGED <<loop, cursor, txn_remaining, batch_remaining, complete, net>>

\* client_send sends the whole message, or fails; what is sent to a server that
\* closed may be lost without an error.
client_send(j) ==
    \/ /\ toServer' = IF link[j] = "up" THEN [toServer EXCEPT ![j] = @ + msg_size]
                                        ELSE toServer
       /\ Returns(j) /\ UNCHANGED dying
    \/ Fails(j) /\ UNCHANGED toServer

\* case READY
FromReady(j) ==
    /\ state[j] = "READY"
    /\ client_send(j)
    /\ Becomes(j, "SENT")
    /\ UNCHANGED <<loop, cursor, txn_remaining, batch_remaining, complete, watch,
                   link, toClient>>

\* case SENT, one recv of client_recv.  The end of the stream (0) is taken for
\* a short read: the loop calls recv again.  ABSTRACTION: after an error the
\* cursor keeps what this call had received; the run is over by then.
Received(j) == Min({toClient[j], msg_size - cursor[j]})
Recv(j) ==
    /\ state[j] = "SENT" /\ cursor[j] < msg_size
    /\ \/ /\ Received(j) > 0
          /\ cursor' = [cursor EXCEPT ![j] = @ + Received(j)]
          /\ toClient' = [toClient EXCEPT ![j] = @ - Received(j)]
          /\ Stays(j) /\ UNCHANGED dying
       \/ /\ Received(j) = 0 /\ link[j] # "closed"                  \* EAGAIN
          /\ Returns(j) /\ UNCHANGED <<cursor, toClient, dying>>
       \/ /\ Received(j) = 0 /\ link[j] = "closed"                  \* 0
          /\ Stays(j) /\ UNCHANGED <<cursor, toClient, dying>>
    /\ UNCHANGED <<loop, state, txn_remaining, batch_remaining, complete, watch,
                   link, toServer>>

\* recv fails; an action of its own, since nothing makes it happen.
RecvError(j) ==
    /\ state[j] = "SENT" /\ cursor[j] < msg_size
    /\ link[j] = "closed" /\ Fails(j)
    /\ UNCHANGED <<loop, state, cursor, txn_remaining, batch_remaining, complete,
                   watch, net>>

\* case SENT with the whole answer: on to DONE, to INIT with a new socket, or
\* to READY with the same.  The variants keep the cursor, or lose count.
Rewind_Not(j) == cursor' = cursor
Rewind(j)     == cursor' = [cursor EXCEPT ![j] = 0]
Counted_Last(j) == complete' = IF txn_remaining[j] = 1 THEN complete ELSE complete + 1
Counted(j)      == complete' = complete + 1

FromSent(j) ==
    /\ state[j] = "SENT" /\ cursor[j] >= msg_size
    /\ Stays(j) /\ Rewind(j) /\ Counted(j)
    /\ txn_remaining' = [txn_remaining EXCEPT ![j] = @ - 1]
    /\ \/ /\ txn_remaining[j] = 1
          /\ Becomes(j, "DONE")
          /\ UNCHANGED <<batch_remaining, watch, net>>
       \/ /\ txn_remaining[j] > 1
          /\ batch_remaining' = [batch_remaining EXCEPT ![j] = @ - 1]
          /\ IF batch_remaining[j] = 1
             THEN /\ Becomes(j, "INIT") /\ Watches(j, "none")
                  /\ link' = [link EXCEPT ![j] = "none"]
                  /\ toServer' = [toServer EXCEPT ![j] = 0]
                  /\ toClient' = [toClient EXCEPT ![j] = 0]
             ELSE Becomes(j, "READY") /\ UNCHANGED <<watch, net>>
    /\ UNCHANGED <<loop, dying>>

\* case DONE: out of epoll, and close.
FromDone(j) ==
    /\ state[j] = "DONE"
    /\ Returns(j) /\ Watches(j, "none")
    /\ link' = [link EXCEPT ![j] = "none"]
    /\ UNCHANGED <<loop, state, cursor, txn_remaining, batch_remaining, complete,
                   dying, toServer, toClient>>

Transition(j) ==
    \/ FromInit(j) \/ FromConnecting(j) \/ FromNew(j) \/ FromReady(j)
    \/ Recv(j) \/ FromSent(j) \/ FromDone(j)

-----------------------------------------------------------------------------
(* worker_func: the first transitions, then the epoll loop *)

Begin ==
    /\ wpc = "init" /\ cur = NoClient
    /\ IF begun = Client
       THEN wpc' = "loop" /\ UNCHANGED <<begun, cur>>
       ELSE \E j \in Client \ begun :
              begun' = begun \cup {j} /\ cur' = j /\ UNCHANGED wpc
    /\ UNCHANGED <<rdy, state, cursor, txn_remaining, batch_remaining, complete,
                   dying, watch, net>>

\* while (!me->dying && complete < total): another worker's failure is seen here
\* only, not while this one is in epoll_wait.
Loop ==
    /\ wpc = "loop"
    /\ wpc' = IF dying \/ complete >= total THEN "done" ELSE "wait"
    /\ UNCHANGED <<begun, rdy, cur, state, cursor, txn_remaining, batch_remaining,
                   complete, dying, watch, net>>

Event(j) == \/ watch[j] = "out" /\ link[j] # "connecting"
            \/ watch[j] = "in" /\ (toClient[j] > 0 \/ link[j] = "closed")

\* epoll_wait reports the clients R; the EPOLLONESHOT of a connect is used up.
EpollWait(R) ==
    /\ wpc = "wait"
    /\ R # {} /\ Cardinality(R) <= EVENT_BACKLOG /\ \A j \in R : Event(j)
    /\ rdy' = R
    /\ wpc' = "handle"
    /\ watch' = [j \in Client |-> IF j \in R /\ watch[j] = "out" THEN "off" ELSE watch[j]]
    /\ UNCHANGED <<begun, cur, state, cursor, txn_remaining, batch_remaining,
                   complete, dying, net>>

\* Ten seconds without an event end the program, whether or not another worker
\* is dying.  Unless faulty, the network and the server are taken to need less
\* for what they have to do.
Timeout ==
    /\ wpc = "wait"
    /\ \A j \in Client : ~Event(j)
    /\ faulty \/ \A j \in Client :
                     link[j] # "connecting" /\ ~(link[j] = "up" /\ toServer[j] > 0)
    /\ wpc' = "exit"
    /\ UNCHANGED <<begun, rdy, cur, state, cursor, txn_remaining, batch_remaining,
                   complete, dying, watch, net>>

\* epoll_wait fails.
EpollError ==
    /\ faulty
    /\ wpc = "wait"
    /\ wpc' = "done" /\ dying' = TRUE
    /\ UNCHANGED <<begun, rdy, cur, state, cursor, txn_remaining, batch_remaining,
                   complete, watch, net>>

Handle ==
    /\ wpc = "handle" /\ cur = NoClient
    /\ IF rdy = {}
       THEN wpc' = "loop" /\ UNCHANGED <<rdy, cur>>
       ELSE \E j \in rdy : rdy' = rdy \ {j} /\ cur' = j /\ UNCHANGED wpc
    /\ UNCHANGED <<begun, state, cursor, txn_remaining, batch_remaining, complete,
                   dying, watch, net>>

Worker ==
    \/ Begin \/ Loop \/ Handle \/ Timeout \/ EpollError
    \/ \E j \in Client : Transition(j)
    \/ \E R \in SUBSET Client : EpollWait(R)

Next ==
    /\ Worker \/ OtherDies \/ \E j \in Client : Network(j) \/ RecvError(j)
    /\ UNCHANGED env

Spec == Init /\ [][Next]_vars

\* The thread is scheduled, and the network and the server do what they have to.
FairSpec ==
    /\ Spec
    /\ WF_vars(Worker /\ UNCHANGED env)
    /\ \A j \in Client : WF_vars((Connected(j) \/ Echo(j)) /\ Network(j) /\ UNCHANGED env)

-----------------------------------------------------------------------------
(* Properties *)

TypeOK ==
    /\ wpc \in {"init", "loop", "wait", "handle", "done", "exit"}
    /\ begun \subseteq Client /\ rdy \subseteq Client /\ cur \in Client \cup {NoClient}
    /\ state \in [Client -> {"INIT", "CONNECTING", "NEW", "READY", "SENT", "DONE"}]
    /\ cursor \in [Client -> 0 .. msg_size]
    /\ txn_remaining \in [Client -> 0 .. transaction_count]
    /\ batch_remaining \in [Client -> 0 .. batch_size]
    /\ complete \in Nat /\ dying \in BOOLEAN
    /\ watch \in [Client -> {"none", "out", "off", "in"}]
    /\ link \in [Client -> {"none", "connecting", "failed", "up", "closed"}]
    /\ toServer \in [Client -> Nat] /\ toClient \in [Client -> Nat]

\* "when this funciton returns here we know that all our clients need epoll to
\* tell us that there is work to do" (tcp_client.c:475-476): in epoll_wait each
\* client that is not done is registered for the event it waits for.  Of a client
\* whose connect succeeded at once this is not so: it never was in state NEW.
Watched(j) ==
    \/ state[j] = "CONNECTING" /\ watch[j] = "out"
    \/ state[j] = "SENT" /\ watch[j] = "in"
    \/ state[j] = "DONE"
AllWatched == wpc = "wait" /\ ~dying => \A j \in Client : Watched(j)
WaitsAreWatched == immediate \/ AllWatched

\* A client has at most one message under way: it sends the next one, or closes
\* the socket, only when every byte of the last echo was received.
OneMessage == \A j \in Client :
    /\ state[j] \in {"INIT", "CONNECTING", "NEW", "READY"} =>
         cursor[j] = 0 /\ toServer[j] = 0 /\ toClient[j] = 0
    /\ state[j] = "SENT" /\ link[j] = "up" /\ ~dying =>
         cursor[j] + toServer[j] + toClient[j] = msg_size

\* The transactions that are finished; those of a client are counted down.
Finished == { t \in Client \X (1 .. transaction_count) : t[2] > txn_remaining[t[1]] }

\* The loop ends by counting, and each finished transaction is counted once; a
\* socket carries exactly batch_size transactions, the last one perhaps fewer.
CompleteExact == complete = Cardinality(Finished)
BatchAligned == \A j \in Client : state[j] = "SENT" =>
    /\ batch_remaining[j] > 0
    /\ (transaction_count - txn_remaining[j]) % batch_size = batch_size - batch_remaining[j]
CountsAgree == CompleteExact /\ BatchAligned

\* A server that closes a connection ends the run: there is work for the epoll
\* loop, or "Nothing happened in 10 seconds ... is the server alive?"
\* (tcp_client.c:487).
DeadServerEnds == (\E j \in Client : link[j] = "closed") ~> wpc \in {"done", "exit"}

=============================================================================
