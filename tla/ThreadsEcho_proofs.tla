------------------------- MODULE ThreadsEcho_proofs -------------------------
(***************************************************************************)
(* A mutex held by main is a start barrier for any number of workers; the  *)
(* whole server still implements it, for any number of workers and         *)
(* clients, only a reset or the want of descriptors ends it, and a thread  *)
(* writes back what it read from its client and nothing else.              *)
(***************************************************************************)
EXTENDS ThreadsEcho, FiniteSetTheorems, TLAPS

-----------------------------------------------------------------------------
(* The hang lock, that is, HangLockStart alone *)

Counted == { i \in Id : wpc[i] \in {"hang", "drop", "loop"} }

\* main holds the lock from before the first worker exists until it has counted
\* all: whoever got through the lock did so after main released it.
HangInv ==
    /\ TypeOK
    /\ init_count = Cardinality(Counted)
    /\ mpc \in {"unlock", "released"} => init_count >= N
    /\ mpc \in {"spawn", "barrier", "waiting", "unlock"} => hang = Main
    /\ \A i \in Id : wpc[i] \in {"drop", "loop"} => mpc = "released"
    /\ \A i \in Id : i >= spawned <=> wpc[i] = "none"
    /\ mpc = "lock" => spawned = 0
    /\ mpc = "spawn" => spawned < N

\* There are N workers, and the counted ones are some of them.
LEMMA Workers ==
    /\ IsFiniteSet(Id) /\ Cardinality(Id) = N
    /\ IsFiniteSet(Counted) /\ Cardinality(Counted) \in 0 .. N
    /\ Cardinality(Counted) >= N => Counted = Id
<1>1. IsFiniteSet(Id) /\ Cardinality(Id) = N
  <2>1. N - 1 \in Int /\ 0 \in Int /\ ~(0 > N - 1) /\ (N - 1) - 0 + 1 = N
    BY HangAssumption
  <2> QED
    BY <2>1, FS_Interval DEF Id
<1>2. Counted \in SUBSET Id
  BY DEF Counted
<1>3. /\ IsFiniteSet(Counted) /\ Cardinality(Counted) <= Cardinality(Id)
      /\ Cardinality(Id) = Cardinality(Counted) => Id = Counted
  BY <1>1, <1>2, FS_Subset
<1>4. Cardinality(Counted) \in Nat
  BY <1>3, FS_CardinalityType
<1> QED
  BY <1>1, <1>3, <1>4, HangAssumption

LEMMA HangInvInit == Init => HangInv
<1> SUFFICES ASSUME Init PROVE HangInv
  OBVIOUS
<1>1. Counted = {}
  BY DEF Init, Counted
<1>2. Cardinality(Counted) = 0
  BY <1>1, FS_EmptySet
<1> QED
  BY <1>2, HangAssumption DEF Init, HangInv, TypeOK, Id

LEMMA HangInvStep == HangInv /\ [Next]_vars => HangInv'
<1> SUFFICES ASSUME HangInv, [Next]_vars PROVE HangInv'
  OBVIOUS
<1> USE HangAssumption DEF HangInv, TypeOK, Id, Main, Free
<1>1. CASE TakeHang
  BY <1>1 DEF TakeHang, Counted
<1>2. CASE Spawn
  <2>1. spawned \in Id /\ wpc[spawned] = "none"
    BY <1>2 DEF Spawn
  <2>2. Counted' = Counted
    BY <1>2, <2>1 DEF Spawn, Counted
  <2> QED
    BY <1>2, <2>1, <2>2 DEF Spawn
<1>3. CASE WaitInit
  BY <1>3 DEF WaitInit, Counted
<1>4. CASE SpuriousWake
  BY <1>4 DEF SpuriousWake, Counted
<1>5. CASE DropHang
  BY <1>5 DEF DropHang, Counted
<1>6. ASSUME NEW i \in Id, CountIn(i) PROVE HangInv'
  <2>1. Counted' = Counted \cup {i} /\ i \notin Counted
    BY <1>6 DEF CountIn, Counted
  <2>2. Cardinality(Counted') = Cardinality(Counted) + 1
    BY <2>1, Workers, FS_AddElement
  <2>3. Cardinality(Counted) # N
    BY <2>1, Workers
  <2>4. init_count' \in 0 .. N
    BY <1>6, <2>3, Workers DEF CountIn
  <2> QED
    BY <1>6, <2>2, <2>4 DEF CountIn
<1>7. ASSUME NEW i \in Id, LockHang(i) PROVE HangInv'
  <2>1. Counted' = Counted
    BY <1>7 DEF LockHang, Counted
  <2>2. mpc = "released"
    BY <1>7 DEF LockHang
  <2> QED
    BY <1>7, <2>1, <2>2 DEF LockHang
<1>8. ASSUME NEW i \in Id, UnlockHang(i) PROVE HangInv'
  <2>1. Counted' = Counted
    BY <1>8 DEF UnlockHang, Counted
  <2> QED
    BY <1>8, <2>1 DEF UnlockHang
<1>9. CASE UNCHANGED vars
  BY <1>9 DEF vars, Counted
<1> QED
  BY <1>1, <1>2, <1>3, <1>4, <1>5, <1>6, <1>7, <1>8, <1>9 DEF Next, Worker, Started

\* Each step is a step of the abstract barrier or leaves it as it is.
LEMMA HangStep ==
    ASSUME HangInv, [Next]_vars PROVE [Barrier!BarrierNext]_(Barrier!bvars)
<1> DEFINE ph == [i \in Id |-> PhaseOf(wpc[i])]
<1> USE HangAssumption DEF HangInv, TypeOK
<1>a. ASSUME UNCHANGED (mpc = "released"), UNCHANGED ph
      PROVE  UNCHANGED (Barrier!bvars)
  BY <1>a DEF Barrier!bvars
<1>1. CASE TakeHang \/ WaitInit \/ SpuriousWake
  <2>1. UNCHANGED (mpc = "released") /\ UNCHANGED wpc
    BY <1>1 DEF TakeHang, WaitInit, SpuriousWake
  <2> QED
    BY <2>1, <1>a DEF PhaseOf
<1>2. CASE Spawn
  <2>1. spawned \in Id /\ wpc[spawned] = "none" /\ UNCHANGED (mpc = "released")
    BY <1>2 DEF Spawn, Id
  <2>2. \A i \in Id : PhaseOf(wpc[i])' = PhaseOf(wpc[i])
    BY <1>2, <2>1 DEF Spawn, PhaseOf
  <2> QED
    BY <2>1, <2>2, <1>a
<1>3. CASE DropHang
  <2>1. Counted = Id
    BY <1>3, Workers DEF DropHang
  <2>2. \A i \in Id : wpc[i] = "hang"
    BY <1>3, <2>1 DEF DropHang, Counted
  <2>3. \A i \in Id : ph[i] = "ready"
    BY <2>2 DEF PhaseOf
  <2>4. mpc # "released" /\ mpc' = "released" /\ UNCHANGED ph
    BY <1>3 DEF DropHang, PhaseOf
  <2> QED
    BY <2>3, <2>4 DEF Barrier!Open, Barrier!BarrierNext
<1>4. ASSUME NEW i \in Id, CountIn(i) PROVE Barrier!BarrierNext
  <2>1. ph' = [ph EXCEPT ![i] = "ready"] /\ ph[i] = "starting"
    BY <1>4 DEF CountIn, PhaseOf
  <2>2. UNCHANGED (mpc = "released")
    BY <1>4 DEF CountIn
  <2> QED
    BY <2>1, <2>2 DEF Barrier!Ready, Barrier!BarrierNext
<1>5. ASSUME NEW i \in Id, LockHang(i) PROVE UNCHANGED (Barrier!bvars)
  <2>1. \A k \in Id : PhaseOf(wpc[k])' = PhaseOf(wpc[k])
    BY <1>5 DEF LockHang, PhaseOf
  <2> QED
    BY <1>5, <2>1, <1>a DEF LockHang
<1>6. ASSUME NEW i \in Id, UnlockHang(i) PROVE Barrier!BarrierNext
  <2>1. ph' = [ph EXCEPT ![i] = "running"] /\ ph[i] = "ready"
    BY <1>6 DEF UnlockHang, PhaseOf
  <2>2. mpc = "released" /\ UNCHANGED mpc
    BY <1>6 DEF UnlockHang
  <2> QED
    BY <2>1, <2>2 DEF Barrier!Run, Barrier!BarrierNext
<1>7. CASE UNCHANGED vars
  BY <1>7, <1>a DEF vars, PhaseOf
<1> QED
  BY <1>1, <1>2, <1>3, <1>4, <1>5, <1>6, <1>7 DEF Next, Worker, Started

\* For any number of workers none goes to its loop before all are set up and
\* main has released the lock (epoll.c:340-389 and its likes).
THEOREM HangImplementsBarrier == Spec => ImplementsBarrier
<1>1. Init => Barrier!BarrierInit
  BY DEF Init, Barrier!BarrierInit, PhaseOf
<1>2. HangInv /\ [Next]_vars => [Barrier!BarrierNext]_(Barrier!bvars)
  BY HangStep
<1> QED
  BY <1>1, <1>2, HangInvInit, HangInvStep, PTL DEF Spec, ImplementsBarrier, Barrier!BarrierSpec

-----------------------------------------------------------------------------
(* The server *)

\* To the start-up whatever the running server does is a stutter.
LEMMA ServerStep == [ServerNext]_svars => [Next]_vars
<1> SUFFICES ASSUME [ServerNext]_svars PROVE [Next]_vars
  OBVIOUS
<1>1. CASE Next
  BY <1>1
<1>2. ASSUME NEW w \in Id, Accept(w) \/ \E c \in Client : Connect(c, w) PROVE UNCHANGED vars
  BY <1>2 DEF Accept, Connect
<1>3. ASSUME NEW fd \in Fd, conn_handler(fd) PROVE UNCHANGED vars
  BY <1>3 DEF conn_handler, Read, Write, Finish
<1>4. ASSUME NEW c \in Client, Send(c) \/ Leave(c) PROVE UNCHANGED vars
  BY <1>4 DEF Send, Leave
<1>5. CASE UNCHANGED svars
  BY <1>5 DEF svars
<1> QED
  BY <1>1, <1>2, <1>3, <1>4, <1>5 DEF ServerNext, Alive

\* The workers of the running server meet at the barrier before any of them
\* accepts (threads.c:140-175, 201-225).
THEOREM ServerImplementsBarrier == ServerSpec => ImplementsBarrier
<1>1. ServerInit => Init
  BY DEF ServerInit
<1>2. ServerSpec => Spec
  BY <1>1, ServerStep, PTL DEF ServerSpec, Spec
<1> QED
  BY <1>2, HangImplementsBarrier, PTL

\* A thread that reads or writes does so on the socket of a client.
Handled ==
    /\ backlog \in [Id -> SUBSET Client]
    /\ sock \in [Fd -> Client \cup {NULL}]
    /\ hpc \in [Fd -> {"none", "read", "write", "done"}]
    /\ \A fd \in Fd : hpc[fd] # "none" => sock[fd] \in Client

LEMMA HandledInit == ServerInit => Handled /\ ExitsOnError
BY DEF ServerInit, Handled, ExitsOnError

LEMMA HandledStep == Handled /\ [ServerNext]_svars => Handled'
<1> SUFFICES ASSUME Handled, [ServerNext]_svars PROVE Handled'
  OBVIOUS
<1> USE DEF Handled
<1>1. CASE UNCHANGED <<backlog, sock, hpc>>
  BY <1>1
<1>2. ASSUME NEW w \in Id, Accept(w) PROVE Handled'
  <2>1. CASE Fails
    BY <1>1, <2>1 DEF Fails
  <2>2. ASSUME NEW c \in backlog[w], NEW fd \in FreeFds,
               backlog' = [backlog EXCEPT ![w] = @ \ {c}],
               sock' = [sock EXCEPT ![fd] = c],
               hpc' = [hpc EXCEPT ![fd] = "read"]
        PROVE  Handled'
    BY <2>2 DEF FreeFds
  <2> QED
    BY <1>2, <2>1, <2>2 DEF Accept
<1>3. ASSUME NEW w \in Id, NEW c \in Client, Connect(c, w) PROVE Handled'
  BY <1>3 DEF Connect
<1>4. ASSUME NEW fd \in Fd, Read(fd) PROVE Handled'
  BY <1>1, <1>4 DEF Read, Moves, AtEnd, Fails
<1>5. ASSUME NEW fd \in Fd, Write(fd) PROVE Handled'
  BY <1>1, <1>5 DEF Write, Moves, Fails
<1>6. ASSUME NEW fd \in Fd, Finish(fd) PROVE Handled'
  BY <1>6 DEF Finish, Close
<1>7. ASSUME NEW c \in Client, Send(c) \/ Leave(c) PROVE Handled'
  BY <1>1, <1>7 DEF Send, Leave, server
<1>8. CASE UNCHANGED <<server, client>>
  BY <1>1, <1>8 DEF server
<1>9. CASE UNCHANGED svars
  BY <1>8, <1>9 DEF svars
<1> QED
  BY <1>2, <1>3, <1>4, <1>5, <1>6, <1>7, <1>8, <1>9 DEF ServerNext, Alive, conn_handler

LEMMA ExitStep == Handled /\ ExitsOnError /\ [ServerNext]_svars => ExitsOnError'
<1> SUFFICES ASSUME Handled, ExitsOnError, [ServerNext]_svars PROVE ExitsOnError'
  OBVIOUS
<1>1. CASE UNCHANGED <<server, client>>
  BY <1>1 DEF server, client, ExitsOnError, FreeFds
<1>2. ASSUME ~exited, UNCHANGED exited PROVE ExitsOnError'
  BY <1>2 DEF ExitsOnError
<1>3. ASSUME NEW w \in Id, Accept(w), ~exited PROVE ExitsOnError'
  <2>1. CASE FreeFds = {} /\ Fails
    BY <2>1 DEF ExitsOnError, Fails, FreeFds
  <2> QED
    BY <1>2, <1>3, <2>1 DEF Accept
<1>4. ASSUME NEW fd \in Fd, Read(fd) \/ Write(fd), ~exited PROVE ExitsOnError'
  <2>1. CASE UNCHANGED exited
    BY <1>2, <1>4, <2>1
  <2>2. CASE cst[sock[fd]] = "reset"
    BY <1>4, <2>2 DEF Read, Write, Handled, ExitsOnError
  <2> QED
    BY <1>4, <2>1, <2>2 DEF Read, Write, Moves, AtEnd
<1>5. ASSUME UNCHANGED exited, ~exited PROVE ExitsOnError'
  BY <1>5, <1>2
<1>6. CASE UNCHANGED svars
  BY <1>1, <1>6 DEF svars
<1> QED
  BY <1>1, <1>3, <1>4, <1>5, <1>6
  DEF ServerNext, Alive, conn_handler, Finish, Connect, Send, Leave, server

\* exit is called after an error only (threads.c:47-83, 163-167): a client that
\* closes, or does not read, does not end the server.
THEOREM ServerSurvives == ServerSpec => []ExitsOnError
BY HandledInit, HandledStep, ExitStep, PTL DEF ServerSpec

-----------------------------------------------------------------------------
(* What the threads write *)

\* A client that never connected is nowhere; one that waits was not read from;
\* one that closed had been answered.
ClientsInv ==
    /\ \A c \in Client : cst[c] = "idle" =>
         csent[c] = 0 /\ (\A w \in Id : c \notin backlog[w]) /\ \A fd \in Fd : sock[fd] # c
    /\ \A w \in Id : \A c \in backlog[w] : sread[c] = 0
    /\ \A c \in Client : cst[c] = "shut" => echo[c] = csent[c]
    /\ \A fd \in Fd : hpc[fd] = "none" <=> sock[fd] = NULL

ThreadsInv == ThreadsTypeOK /\ ClientsInv /\ OneThread /\ Echoes

LEMMA ThreadsSizes ==
    /\ msg_size \in Nat /\ msg_size >= 1 /\ NULL \notin Client
    /\ \A m \in Nat : msg_size * m \in Nat
BY ThreadsAssumption

LEMMA ThreadsInitial == ServerInit => ThreadsInv
<1> SUFFICES ASSUME ServerInit PROVE ThreadsInv
  OBVIOUS
<1> USE DEF ServerInit
<1>1. ThreadsTypeOK
  <2>1. 0 \in 0 .. msg_size - 1
    BY ThreadsSizes
  <2>2. cursor \in [Fd -> 0 .. msg_size - 1]
    BY <2>1
  <2> QED
    BY <2>2 DEF ThreadsTypeOK
<1>2. ClientsInv /\ OneThread
  BY ThreadsSizes DEF ClientsInv, OneThread
<1>3. Echoes
  BY ThreadsSizes DEF Echoes
<1> QED
  BY <1>1, <1>2, <1>3 DEF ThreadsInv

\* The clients do not touch what the server holds.
LEMMA ConnectKeeps ==
    ASSUME ThreadsInv, NEW c \in Client, NEW w \in Id, Connect(c, w) PROVE ThreadsInv'
<1>1. /\ cst[c] = "idle" /\ cst' = [cst EXCEPT ![c] = "open"]
      /\ backlog' = [backlog EXCEPT ![w] = backlog[w] \cup {c}]
      /\ UNCHANGED <<sock, hpc, cursor, exited, csent, sread, echo>>
  BY DEF Connect
<1>2. /\ backlog \in [Id -> SUBSET Client] /\ cst \in [Client -> {"idle", "open", "shut", "reset"}]
      /\ csent[c] = 0 /\ sread[c] \in Nat /\ echo[c] \in Nat
      /\ (\A v \in Id : c \notin backlog[v]) /\ \A fd \in Fd : sock[fd] # c
  BY <1>1 DEF ThreadsInv, ThreadsTypeOK, ClientsInv
<1>3. sread[c] = 0
  BY <1>2 DEF ThreadsInv, Echoes
<1>4. ThreadsTypeOK'
  BY <1>1, <1>2 DEF ThreadsInv, ThreadsTypeOK
<1>5. \A v \in Id : backlog'[v] = IF v = w THEN backlog[w] \cup {c} ELSE backlog[v]
  BY <1>1, <1>2
<1>6. \A d \in Client : cst'[d] = IF d = c THEN "open" ELSE cst[d]
  BY <1>1, <1>2
<1>7. ClientsInv'
  BY <1>1, <1>3, <1>5, <1>6 DEF ThreadsInv, ClientsInv
<1>8. OneThread'
  BY <1>1, <1>2, <1>5 DEF ThreadsInv, OneThread
<1>9. Echoes'
  BY <1>1 DEF ThreadsInv, Echoes, Owed
<1> QED
  BY <1>4, <1>7, <1>8, <1>9 DEF ThreadsInv

LEMMA SendKeeps == ASSUME ThreadsInv, NEW c \in Client, Send(c) PROVE ThreadsInv'
<1>1. /\ cst[c] = "open" /\ csent' = [csent EXCEPT ![c] = csent[c] + msg_size]
      /\ UNCHANGED <<backlog, sock, hpc, cursor, exited, cst, sread, echo>>
  BY DEF Send, server
<1>2. csent \in [Client -> Nat] /\ sread \in [Client -> Nat] /\ echo \in [Client -> Nat]
  BY DEF ThreadsInv, ThreadsTypeOK
<1>3. \A d \in Client : csent'[d] \in Nat /\ csent'[d] >= csent[d] /\ (d # c => csent'[d] = csent[d])
  BY <1>1, <1>2, ThreadsSizes
<1>4. csent' \in [Client -> Nat]
  BY <1>1, <1>2, <1>3
<1>5. ThreadsTypeOK'
  BY <1>1, <1>4 DEF ThreadsInv, ThreadsTypeOK
<1>6. ClientsInv'
  BY <1>1, <1>3 DEF ThreadsInv, ClientsInv
<1>7. OneThread'
  BY <1>1 DEF ThreadsInv, OneThread
<1>8. Echoes'
  <2>1. \A d \in Client : echo[d] <= sread[d] /\ sread[d] <= csent[d]
    BY DEF ThreadsInv, Echoes
  <2>2. \A d \in Client : echo[d] <= sread[d] /\ sread[d] <= csent'[d]
    BY <1>2, <1>3, <2>1
  <2> QED
    BY <1>1, <2>2 DEF ThreadsInv, Echoes, Owed
<1> QED
  BY <1>5, <1>6, <1>7, <1>8 DEF ThreadsInv

LEMMA LeaveKeeps == ASSUME ThreadsInv, NEW c \in Client, Leave(c) PROVE ThreadsInv'
<1>1. /\ cst[c] = "open"
      /\ \/ echo[c] = csent[c] /\ cst' = [cst EXCEPT ![c] = "shut"]
         \/ cst' = [cst EXCEPT ![c] = "reset"]
      /\ UNCHANGED <<backlog, sock, hpc, cursor, exited, csent, sread, echo>>
  BY DEF Leave, server
<1>2. cst \in [Client -> {"idle", "open", "shut", "reset"}]
  BY DEF ThreadsInv, ThreadsTypeOK
<1>3. cst' \in [Client -> {"idle", "open", "shut", "reset"}]
  BY <1>1, <1>2
<1>4. ThreadsTypeOK'
  BY <1>1, <1>3 DEF ThreadsInv, ThreadsTypeOK
<1>5. \A d \in Client : /\ cst'[d] = "idle" => cst[d] = "idle"
                        /\ cst'[d] = "shut" => cst[d] = "shut" \/ echo[d] = csent[d]
  BY <1>1, <1>2
<1>6. ClientsInv'
  BY <1>1, <1>5 DEF ThreadsInv, ClientsInv
<1>7. OneThread' /\ Echoes'
  BY <1>1 DEF ThreadsInv, OneThread, Echoes, Owed
<1> QED
  BY <1>4, <1>6, <1>7 DEF ThreadsInv

\* exit changes nothing else.
LEMMA ExitKeeps ==
    ASSUME ThreadsInv, Fails, UNCHANGED client PROVE ThreadsInv'
<1>1. exited' = TRUE /\ UNCHANGED <<backlog, sock, hpc, cursor, cst, csent, sread, echo>>
  BY DEF Fails, client
<1> QED
  BY <1>1 DEF ThreadsInv, ThreadsTypeOK, ClientsInv, OneThread, Echoes, Owed

LEMMA AcceptKeeps == ASSUME ThreadsInv, NEW w \in Id, Accept(w) PROVE ThreadsInv'
<1>1. CASE Fails /\ UNCHANGED client
  BY <1>1, ExitKeeps
<1>2. ASSUME NEW c \in backlog[w], NEW fd \in FreeFds,
             backlog' = [backlog EXCEPT ![w] = backlog[w] \ {c}],
             sock' = [sock EXCEPT ![fd] = c], hpc' = [hpc EXCEPT ![fd] = "read"],
             UNCHANGED <<cursor, exited, cst, csent, sread, echo>>
      PROVE  ThreadsInv'
  <2>1. /\ backlog \in [Id -> SUBSET Client] /\ sock \in [Fd -> Client \cup {NULL}]
        /\ hpc \in [Fd -> {"none", "read", "write", "done"}]
        /\ sread \in [Client -> Nat] /\ echo \in [Client -> Nat] /\ csent \in [Client -> Nat]
        /\ cursor \in [Fd -> 0 .. msg_size - 1]
    BY DEF ThreadsInv, ThreadsTypeOK
  <2>2. fd \in Fd /\ sock[fd] = NULL /\ hpc[fd] = "none" /\ c \in Client /\ c # NULL
    BY <1>2, <2>1, ThreadsSizes DEF FreeFds, ThreadsInv, ClientsInv
  <2>3. ThreadsTypeOK'
    BY <1>2, <2>1, <2>2 DEF ThreadsInv, ThreadsTypeOK
  <2>4. /\ \A v \in Id : backlog'[v] = IF v = w THEN backlog[w] \ {c} ELSE backlog[v]
        /\ \A gd \in Fd : /\ sock'[gd] = IF gd = fd THEN c ELSE sock[gd]
                          /\ hpc'[gd] = IF gd = fd THEN "read" ELSE hpc[gd]
    BY <1>2, <2>1, <2>2
  <2>5. /\ sread[c] = 0 /\ cst[c] # "idle" /\ \A gd \in Fd : sock[gd] # c
        /\ \A v \in Id : c \in backlog[v] => v = w
    BY <1>2, <2>2 DEF ThreadsInv, ClientsInv, OneThread
  <2>6. ClientsInv'
    BY <1>2, <2>2, <2>4, <2>5 DEF ThreadsInv, ClientsInv
  <2>7. OneThread'
    BY <2>2, <2>4, <2>5 DEF ThreadsInv, OneThread
  <2>8. Echoes'
    <3>1. echo[c] = 0 /\ cursor[fd] = 0
      BY <2>1, <2>2, <2>5 DEF ThreadsInv, Echoes
    <3>2. \A d \in Client : echo'[d] <= sread'[d] /\ sread'[d] <= csent'[d]
      BY <1>2 DEF ThreadsInv, Echoes
    <3>3. sread'[sock'[fd]] = echo'[sock'[fd]] + Owed(fd)'
      BY <1>2, <2>2, <2>4, <2>5, <3>1 DEF Owed
    <3>4. \A gd \in Fd : /\ sock'[gd] \in Client => sread'[sock'[gd]] = echo'[sock'[gd]] + Owed(gd)'
                         /\ hpc'[gd] \in {"none", "done"} => cursor'[gd] = 0
      <4> TAKE gd \in Fd
      <4>1. CASE gd = fd
        BY <2>2, <2>4, <3>3, <4>1
      <4>2. CASE gd # fd
        BY <1>2, <2>4, <4>2 DEF ThreadsInv, Echoes, Owed
      <4> QED
        BY <4>1, <4>2
    <3> QED
      BY <3>2, <3>4 DEF Echoes
  <2> QED
    BY <2>3, <2>6, <2>7, <2>8 DEF ThreadsInv
<1> QED
  BY <1>1, <1>2 DEF Accept, client

\* A thread moves n bytes on, of a message it reads or writes.
LEMMA MovesOf ==
    ASSUME ThreadsTypeOK, NEW fd \in Fd, NEW n \in 1 .. msg_size - cursor[fd],
           NEW here, NEW then, hpc[fd] = here, then \in {"read", "write"}, Moves(fd, n, then)
    PROVE  /\ UNCHANGED <<backlog, sock, exited>>
           /\ cursor' \in [Fd -> 0 .. msg_size - 1] /\ hpc' \in [Fd -> {"none", "read", "write", "done"}]
           /\ \A gd \in Fd : gd # fd => cursor'[gd] = cursor[gd] /\ hpc'[gd] = hpc[gd]
           /\ n \in Nat /\ cursor[fd] \in Nat /\ cursor[fd] < msg_size
           /\ \/ cursor[fd] + n < msg_size /\ cursor'[fd] = cursor[fd] + n /\ hpc'[fd] = here
              \/ cursor[fd] + n = msg_size /\ cursor'[fd] = 0 /\ hpc'[fd] = then
<1>1. /\ cursor \in [Fd -> 0 .. msg_size - 1] /\ hpc \in [Fd -> {"none", "read", "write", "done"}]
      /\ cursor[fd] \in Nat /\ cursor[fd] < msg_size /\ n \in Nat /\ n >= 1
      /\ cursor[fd] + n <= msg_size
  BY ThreadsSizes DEF ThreadsTypeOK
<1> DEFINE m == IF cursor[fd] + n = msg_size THEN 0 ELSE cursor[fd] + n
           p == IF cursor[fd] + n = msg_size THEN then ELSE hpc[fd]
<1>2. cursor' = [cursor EXCEPT ![fd] = m] /\ hpc' = [hpc EXCEPT ![fd] = p]
      /\ UNCHANGED <<backlog, sock, exited>>
  BY DEF Moves
<1>3. m \in 0 .. msg_size - 1 /\ p \in {"none", "read", "write", "done"}
  BY <1>1, ThreadsSizes
<1>4. \/ cursor[fd] + n < msg_size /\ m = cursor[fd] + n /\ p = here
      \/ cursor[fd] + n = msg_size /\ m = 0 /\ p = then
  BY <1>1, ThreadsSizes
<1> HIDE DEF m, p
<1> QED
  BY <1>1, <1>2, <1>3, <1>4

LEMMA ReadKeeps == ASSUME ThreadsInv, NEW fd \in Fd, Read(fd) PROVE ThreadsInv'
<1> DEFINE c == sock[fd]
<1>1. /\ hpc[fd] = "read" /\ UNCHANGED <<cst, csent, echo>> /\ ThreadsTypeOK
  BY DEF Read, ThreadsInv
<1>2. /\ sock \in [Fd -> Client \cup {NULL}] /\ sread \in [Client -> Nat] /\ echo \in [Client -> Nat]
      /\ csent \in [Client -> Nat] /\ cursor \in [Fd -> 0 .. msg_size - 1]
      /\ hpc \in [Fd -> {"none", "read", "write", "done"}]
  BY DEF ThreadsInv, ThreadsTypeOK
<1>3. c \in Client /\ c # NULL
  BY <1>1, <1>2, ThreadsSizes DEF ThreadsInv, ClientsInv
<1>4. \A gd \in Fd : gd # fd => sock[gd] # c
  BY <1>3 DEF ThreadsInv, OneThread
<1>5. /\ sread[c] = echo[c] + cursor[fd] /\ echo[c] <= sread[c] /\ sread[c] <= csent[c]
  BY <1>1, <1>3 DEF ThreadsInv, Echoes, Owed
<1> HIDE DEF c
<1>6. ASSUME NEW n \in 1 .. msg_size - cursor[fd], n <= csent[c] - sread[c], Moves(fd, n, "write"),
             sread' = [sread EXCEPT ![c] = sread[c] + n]
      PROVE  ThreadsInv'
  <2>1. /\ UNCHANGED <<backlog, sock, exited>>
        /\ cursor' \in [Fd -> 0 .. msg_size - 1] /\ hpc' \in [Fd -> {"none", "read", "write", "done"}]
        /\ \A gd \in Fd : gd # fd => cursor'[gd] = cursor[gd] /\ hpc'[gd] = hpc[gd]
        /\ n \in Nat /\ cursor[fd] \in Nat /\ cursor[fd] < msg_size
        /\ \/ cursor[fd] + n < msg_size /\ cursor'[fd] = cursor[fd] + n /\ hpc'[fd] = "read"
           \/ cursor[fd] + n = msg_size /\ cursor'[fd] = 0 /\ hpc'[fd] = "write"
    BY <1>1, <1>6, MovesOf
  <2>2. /\ sread' \in [Client -> Nat] /\ sread'[c] = sread[c] + n
        /\ \A d \in Client : d # c => sread'[d] = sread[d]
    BY <1>2, <1>3, <1>6, <2>1
  <2>3. ThreadsTypeOK'
    BY <1>1, <2>1, <2>2 DEF ThreadsTypeOK
  <2>4. \A w \in Id : c \notin backlog[w]
    BY <1>1, <1>3 DEF ThreadsInv, OneThread, c
  <2>5. ClientsInv'
    <3>1. \A w \in Id : \A d \in backlog'[w] : sread'[d] = 0
      <4>1. \A w \in Id : \A d \in backlog[w] : d \in Client /\ d # c /\ sread[d] = 0
        BY <2>4 DEF ThreadsInv, ThreadsTypeOK, ClientsInv
      <4> QED
        BY <2>1, <2>2, <4>1
    <3>2. \A gd \in Fd : hpc'[gd] = "none" <=> sock'[gd] = NULL
      BY <1>1, <1>3, <2>1 DEF ThreadsInv, ClientsInv, c
    <3> QED
      BY <1>1, <2>1, <3>1, <3>2 DEF ThreadsInv, ClientsInv
  <2>6. OneThread'
    BY <2>1 DEF ThreadsInv, OneThread
  <2>7. Echoes'
    <3>1. Owed(fd)' = cursor[fd] + n
      BY <2>1, ThreadsSizes DEF Owed
    <3>2. sread'[c] = echo'[c] + Owed(fd)' /\ echo'[c] <= sread'[c] /\ sread'[c] <= csent'[c]
      <4>1. /\ echo[c] \in Nat /\ sread[c] \in Nat /\ csent[c] \in Nat
        BY <1>2, <1>3
      <4> QED
        BY <1>1, <1>5, <1>6, <2>1, <2>2, <3>1, <4>1
    <3>3. \A d \in Client : echo'[d] <= sread'[d] /\ sread'[d] <= csent'[d]
      BY <1>1, <2>2, <3>2 DEF ThreadsInv, Echoes
    <3>4. ASSUME NEW gd \in Fd, gd # fd
          PROVE  /\ sock'[gd] \in Client => sread'[sock'[gd]] = echo'[sock'[gd]] + Owed(gd)'
                 /\ hpc'[gd] \in {"none", "done"} => cursor'[gd] = 0
      <4>1. Owed(gd)' = Owed(gd) /\ sock'[gd] = sock[gd] /\ sock[gd] # c
        BY <1>4, <2>1, <3>4 DEF Owed
      <4> QED
        BY <1>1, <2>1, <2>2, <3>4, <4>1 DEF ThreadsInv, Echoes
    <3>5. sock'[fd] = c /\ hpc'[fd] \notin {"none", "done"}
      BY <2>1 DEF c
    <3> QED
      BY <3>2, <3>3, <3>4, <3>5 DEF Echoes
  <2> QED
    BY <2>3, <2>5, <2>6, <2>7 DEF ThreadsInv
<1>7. CASE csent[c] = sread[c] /\ cst[c] = "shut" /\ AtEnd(fd) /\ UNCHANGED sread
  <2>1. hpc' = [hpc EXCEPT ![fd] = "done"] /\ UNCHANGED <<backlog, sock, cursor, exited, sread>>
    BY <1>7 DEF AtEnd
  <2>2. \A gd \in Fd : hpc'[gd] = IF gd = fd THEN "done" ELSE hpc[gd]
    BY <1>2, <2>1
  <2>3. cursor[fd] = 0
    <3>1. echo[c] = csent[c]
      BY <1>3, <1>7 DEF ThreadsInv, ClientsInv
    <3>2. echo[c] \in Nat /\ cursor[fd] \in Int
      BY <1>2, <1>3
    <3> QED
      BY <1>5, <1>7, <3>1, <3>2
  <2>4. ThreadsTypeOK'
    BY <1>1, <1>2, <2>1 DEF ThreadsTypeOK
  <2>5. ClientsInv' /\ OneThread'
    BY <1>1, <1>3, <2>1, <2>2 DEF ThreadsInv, ClientsInv, OneThread, c
  <2>6. \A gd \in Fd : Owed(gd)' = Owed(gd)
    BY <1>1, <2>1, <2>2, <2>3 DEF Owed
  <2>7. Echoes'
    BY <1>1, <2>1, <2>2, <2>3, <2>6 DEF ThreadsInv, Echoes
  <2> QED
    BY <2>4, <2>5, <2>7 DEF ThreadsInv
<1>8. CASE Fails /\ UNCHANGED sread
  BY <1>1, <1>8, ExitKeeps DEF client
<1> QED
  BY <1>6, <1>7, <1>8 DEF Read, c

LEMMA WriteKeeps == ASSUME ThreadsInv, NEW fd \in Fd, Write(fd) PROVE ThreadsInv'
<1> DEFINE c == sock[fd]
<1>1. /\ hpc[fd] = "write" /\ UNCHANGED <<cst, csent, sread>> /\ ThreadsTypeOK
  BY DEF Write, ThreadsInv
<1>2. /\ sock \in [Fd -> Client \cup {NULL}] /\ sread \in [Client -> Nat] /\ echo \in [Client -> Nat]
      /\ csent \in [Client -> Nat] /\ cursor \in [Fd -> 0 .. msg_size - 1]
      /\ hpc \in [Fd -> {"none", "read", "write", "done"}]
  BY DEF ThreadsInv, ThreadsTypeOK
<1>3. c \in Client /\ c # NULL
  BY <1>1, <1>2, ThreadsSizes DEF ThreadsInv, ClientsInv
<1>4. \A gd \in Fd : gd # fd => sock[gd] # c
  BY <1>3 DEF ThreadsInv, OneThread
<1>5. /\ sread[c] = echo[c] + (msg_size - cursor[fd]) /\ echo[c] <= sread[c] /\ sread[c] <= csent[c]
  BY <1>1, <1>3 DEF ThreadsInv, Echoes, Owed
<1> HIDE DEF c
<1>6. ASSUME NEW n \in 1 .. msg_size - cursor[fd], Moves(fd, n, "read"),
             echo' = [echo EXCEPT ![c] = echo[c] + n]
      PROVE  ThreadsInv'
  <2>1. /\ UNCHANGED <<backlog, sock, exited>>
        /\ cursor' \in [Fd -> 0 .. msg_size - 1] /\ hpc' \in [Fd -> {"none", "read", "write", "done"}]
        /\ \A gd \in Fd : gd # fd => cursor'[gd] = cursor[gd] /\ hpc'[gd] = hpc[gd]
        /\ n \in Nat /\ cursor[fd] \in Nat /\ cursor[fd] < msg_size
        /\ \/ cursor[fd] + n < msg_size /\ cursor'[fd] = cursor[fd] + n /\ hpc'[fd] = "write"
           \/ cursor[fd] + n = msg_size /\ cursor'[fd] = 0 /\ hpc'[fd] = "read"
    BY <1>1, <1>6, MovesOf
  <2>2. /\ echo' \in [Client -> Nat] /\ echo'[c] = echo[c] + n
        /\ \A d \in Client : d # c => echo'[d] = echo[d]
    BY <1>2, <1>3, <1>6, <2>1
  <2>3. ThreadsTypeOK'
    BY <1>1, <2>1, <2>2 DEF ThreadsTypeOK
  <2>4. /\ echo[c] \in Nat /\ sread[c] \in Nat /\ csent[c] \in Nat /\ msg_size \in Nat
    BY <1>2, <1>3, ThreadsSizes
  <2>5. ClientsInv'
    <3>1. cst[c] # "shut"
      <4>1. cst[c] = "shut" => echo[c] = csent[c]
        BY <1>3 DEF ThreadsInv, ClientsInv
      <4> QED
        BY <1>5, <2>1, <2>4, <4>1
    <3>2. \A gd \in Fd : hpc'[gd] = "none" <=> sock'[gd] = NULL
      BY <1>1, <1>3, <2>1 DEF ThreadsInv, ClientsInv, c
    <3> QED
      BY <1>1, <2>1, <2>2, <3>1, <3>2 DEF ThreadsInv, ClientsInv
  <2>6. OneThread'
    BY <2>1 DEF ThreadsInv, OneThread
  <2>7. Echoes'
    <3>1. \/ Owed(fd)' = msg_size - (cursor[fd] + n)
          \/ Owed(fd)' = 0 /\ cursor[fd] + n = msg_size
      BY <2>1, ThreadsSizes DEF Owed
    <3>2. sread'[c] = echo'[c] + Owed(fd)' /\ echo'[c] <= sread'[c] /\ sread'[c] <= csent'[c]
      BY <1>1, <1>5, <2>1, <2>2, <2>4, <3>1
    <3>3. \A d \in Client : echo'[d] <= sread'[d] /\ sread'[d] <= csent'[d]
      BY <1>1, <2>2, <3>2 DEF ThreadsInv, Echoes
    <3>4. ASSUME NEW gd \in Fd, gd # fd
          PROVE  /\ sock'[gd] \in Client => sread'[sock'[gd]] = echo'[sock'[gd]] + Owed(gd)'
                 /\ hpc'[gd] \in {"none", "done"} => cursor'[gd] = 0
      <4>1. Owed(gd)' = Owed(gd) /\ sock'[gd] = sock[gd] /\ sock[gd] # c
        BY <1>4, <2>1, <3>4 DEF Owed
      <4> QED
        BY <1>1, <2>1, <2>2, <3>4, <4>1 DEF ThreadsInv, Echoes
    <3>5. sock'[fd] = c /\ hpc'[fd] \notin {"none", "done"}
      BY <2>1 DEF c
    <3> QED
      BY <3>2, <3>3, <3>4, <3>5 DEF Echoes
  <2> QED
    BY <2>3, <2>5, <2>6, <2>7 DEF ThreadsInv
<1>7. CASE Fails /\ UNCHANGED echo
  BY <1>1, <1>7, ExitKeeps DEF client
<1> QED
  BY <1>6, <1>7 DEF Write, c

LEMMA FinishKeeps == ASSUME ThreadsInv, NEW fd \in Fd, Finish(fd) PROVE ThreadsInv'
<1>1. /\ hpc[fd] = "done" /\ sock' = [sock EXCEPT ![fd] = NULL] /\ hpc' = [hpc EXCEPT ![fd] = "none"]
      /\ UNCHANGED <<backlog, cursor, exited, cst, csent, sread, echo>>
  BY DEF Finish, Close, client
<1>2. sock \in [Fd -> Client \cup {NULL}] /\ hpc \in [Fd -> {"none", "read", "write", "done"}]
  BY DEF ThreadsInv, ThreadsTypeOK
<1>3. \A gd \in Fd : /\ sock'[gd] = IF gd = fd THEN NULL ELSE sock[gd]
                     /\ hpc'[gd] = IF gd = fd THEN "none" ELSE hpc[gd]
  BY <1>1, <1>2
<1>4. ThreadsTypeOK'
  BY <1>1, <1>2 DEF ThreadsInv, ThreadsTypeOK
<1>5. ClientsInv'
  BY <1>1, <1>3, ThreadsSizes DEF ThreadsInv, ClientsInv
<1>6. OneThread'
  <2>1. \A w \in Id : backlog[w] \subseteq Client
    BY DEF ThreadsInv, ThreadsTypeOK
  <2> QED
    BY <1>1, <1>3, <2>1, ThreadsSizes DEF ThreadsInv, OneThread
<1>7. Echoes'
  <2>1. \A gd \in Fd : /\ gd # fd => Owed(gd)' = Owed(gd)
                       /\ gd = fd => sock'[gd] \notin Client /\ cursor[gd] = 0
    BY <1>1, <1>3, ThreadsSizes DEF ThreadsInv, Echoes, Owed
  <2> QED
    BY <1>1, <1>3, <2>1 DEF ThreadsInv, Echoes
<1> QED
  BY <1>4, <1>5, <1>6, <1>7 DEF ThreadsInv

LEMMA ThreadsStep == ThreadsInv /\ [ServerNext]_svars => ThreadsInv'
<1> SUFFICES ASSUME ThreadsInv, [ServerNext]_svars PROVE ThreadsInv'
  OBVIOUS
<1>1. CASE UNCHANGED <<server, client>>
  <2>1. UNCHANGED <<backlog, sock, hpc, cursor, exited, cst, csent, sread, echo>>
    BY <1>1 DEF server, client
  <2> QED
    BY <2>1 DEF ThreadsInv, ThreadsTypeOK, ClientsInv, OneThread, Echoes, Owed
<1>2. ASSUME NEW w \in Id, Accept(w) \/ \E c \in Client : Connect(c, w) PROVE ThreadsInv'
  BY <1>2, AcceptKeeps, ConnectKeeps
<1>3. ASSUME NEW fd \in Fd, conn_handler(fd) PROVE ThreadsInv'
  BY <1>3, ReadKeeps, WriteKeeps, FinishKeeps DEF conn_handler
<1>4. ASSUME NEW c \in Client, Send(c) \/ Leave(c) PROVE ThreadsInv'
  BY <1>4, SendKeeps, LeaveKeeps
<1>5. CASE UNCHANGED svars
  BY <1>1, <1>5 DEF svars
<1> QED
  BY <1>1, <1>2, <1>3, <1>4, <1>5 DEF ServerNext, Alive

\* The variables of the thread-per-connection server have their types: a cursor
\* never reaches msg_size.
THEOREM ThreadsTypeCorrect == ServerSpec => []ThreadsTypeOK
<1>1. ThreadsInv => ThreadsTypeOK
  BY DEF ThreadsInv
<1> QED
  BY <1>1, ThreadsInitial, ThreadsStep, PTL DEF ServerSpec

\* A connection has one thread, and a thread writes to its client what it read
\* from that client and no more (conn_handler, threads.c:35-85).
THEOREM ThreadsEchoBack == ServerSpec => [](OneThread /\ Echoes)
<1>1. ThreadsInv => OneThread /\ Echoes
  BY DEF ThreadsInv
<1> QED
  BY <1>1, ThreadsInitial, ThreadsStep, PTL DEF ServerSpec

=============================================================================
