-------------------------- MODULE UpcallEcho_proofs ---------------------------
(***************************************************************************)
(* The echo server on libupcall serves each connection by one worker and   *)
(* one request at a time, stays inside the buffers, and gives every client *)
(* back what it sent, for any workers, clients, descriptors and messages.  *)
(***************************************************************************)
EXTENDS UpcallEcho, FiniteSetTheorems, WellFoundedInduction, TLAPS

-----------------------------------------------------------------------------
(* Arithmetic *)

LEMMA Sizes ==
    /\ NFd \in Nat /\ NFd >= 1 /\ msg_size \in Nat /\ msg_size >= 1
    /\ NULL \notin Client /\ NULL \notin ConnType
BY EchoAssumption, NullAssumption

\* A set of naturals has a least element: the descriptor accept4 takes.
LEMMA LeastElement ==
    ASSUME NEW S \in SUBSET Nat, S # {}
    PROVE  Min(S) \in S
<1> DEFINE less == OpToRel(<, Nat)
<1>1. IsWellFoundedOn(less, Nat)
  BY NatLessThanWellFounded
<1>2. \A i, j \in Nat : i < j => <<i, j>> \in less
  BY DEF OpToRel
<1> HIDE DEF less
<1>3. PICK x \in S : \A y \in S : ~(<<y, x>> \in less)
  <2>1. S \subseteq Nat /\ S # {}
    OBVIOUS
  <2> QED
    BY <1>1, <2>1, WFMin, Zenon
<1>4. ASSUME NEW y \in S PROVE x =< y
  <2>1. x \in Nat /\ y \in Nat
    OBVIOUS
  <2>2. ~(y < x)
    BY <1>2, <1>3, <2>1, Zenon
  <2> QED
    BY <2>1, <2>2
<1> QED
  BY <1>4 DEF Min

\* What whole messages add up to.
Messages == { msg_size * m : m \in Nat }

LEMMA MessagesAdd ==
    /\ 0 \in Messages /\ Messages \subseteq Nat
    /\ \A base \in Messages : base + msg_size \in Messages
<1>1. 0 \in Messages
  <2>1. msg_size * 0 = 0
    BY Sizes
  <2> QED
    BY <2>1 DEF Messages
<1>2. Messages \subseteq Nat
  BY Sizes DEF Messages
<1>3. ASSUME NEW m \in Nat
      PROVE  msg_size * m + msg_size = msg_size * (m + 1) /\ m + 1 \in Nat
  BY Sizes
<1> QED
  BY <1>1, <1>2, <1>3 DEF Messages

\* How far a client may send that got all of the messages before, and a part of
\* the next one.
LEMMA SendBound ==
    ASSUME NEW base \in Messages, NEW r \in 0 .. msg_size - 1
    PROVE  msg_size * (1 + (base + r) \div msg_size) = base + msg_size
<1>1. PICK m \in Nat : base = msg_size * m
  BY DEF Messages
<1>2. PICK p \in Int : p = (base + r) \div msg_size
  BY <1>1, Sizes
<1>3. PICK k \in 0 .. msg_size - 1 : k = (base + r) % msg_size
  BY <1>1, Sizes
<1>4. base + r = msg_size * p + k
  BY <1>1, <1>2, <1>3, Sizes
<1>5. msg_size * (m - p) = k - r
  BY <1>1, <1>4, Sizes
<1>6. m - p >= 1 => msg_size * (m - p) >= msg_size
  BY Sizes
<1>7. m - p <= -1 => msg_size * (m - p) <= -msg_size
  BY Sizes
<1>8. p = m
  BY <1>5, <1>6, <1>7, Sizes
<1>9. msg_size * (1 + m) = msg_size * m + msg_size
  BY Sizes
<1> QED
  BY <1>1, <1>2, <1>8, <1>9

-----------------------------------------------------------------------------
(* The inductive invariant *)

\* A handler finds the connection of its descriptor in conns[], nobody else uses
\* that descriptor, and a connection is being closed by one worker, for which
\* nothing is in flight: conn->fd is -1 then, or conns[] has no entry.
RequestsOwn == \A q \in armed : q.type # "accept" =>
    q.fd \in Fd /\ conns[q.fd] # NULL /\ conns[q.fd].fd = q.fd
EventsOwn == \A e \in events :
    /\ e.type # "accept" => e.fd \in Fd /\ conns[e.fd] # NULL /\ conns[e.fd].fd = e.fd
    /\ e.type = "accept" /\ e.result # -1 =>
         /\ e.result \in Fd /\ sock[e.result] # NULL /\ conns[e.result] = NULL
         /\ \A w \in Worker : closing[w].fd # e.result
OneInFlight ==
    /\ \A p, q \in armed : p.type # "accept" /\ q.type # "accept" /\ p.fd = q.fd => p = q
    /\ \A d, e \in events : d.type # "accept" /\ e.type # "accept" /\ d.fd = e.fd => d = e
    /\ \A q \in armed, e \in events : q.type # "accept" /\ e.type # "accept" => q.fd # e.fd
    /\ \A d, e \in events : d.type = "accept" /\ e.type = "accept" /\ d.result = e.result
                              /\ d.result \in Fd => d = e
SocketsOwn == \A fd \in Fd : conns[fd] # NULL => sock[fd] # NULL
ClosersOwn == \A w \in Worker :
    /\ closing[w] # Idle =>
         /\ closing[w].fd \in Fd /\ sock[closing[w].fd] # NULL
         /\ closing[w].step = "clear" => conns[closing[w].fd] # NULL
                                           /\ conns[closing[w].fd].fd = -1
         /\ closing[w].step # "clear" => conns[closing[w].fd] = NULL
    /\ \A v \in Worker \ {w} : closing[w] # Idle => closing[w].fd # closing[v].fd

OwnInv == RequestsOwn /\ EventsOwn /\ OneInFlight /\ SocketsOwn /\ ClosersOwn

\* A client has one connection in its life: not yet, in one backlog, or behind
\* one descriptor.
OnePlace == \A c \in Client :
    /\ cst[c] = "idle" => /\ \A w \in Worker : c \notin backlog[w]
                          /\ \A fd \in Fd : sock[fd] # c
    /\ \A w \in Worker : c \in backlog[w] =>
         /\ \A v \in Worker : c \in backlog[v] => v = w
         /\ \A fd \in Fd : sock[fd] # c
    /\ \A fd, gd \in Fd : sock[fd] = c /\ sock[gd] = c => fd = gd

\* Where a connection is in its stream: the messages before this one add up to
\* base, its client sent sent_ bytes, of which read_ were read, and got back what
\* was written until it left (st).
Holds(conn, base, n) == \A i \in 1 .. n : conn.buffer[i] = base + i
Fresh(sent_, read_, back) == sent_ <= msg_size /\ read_ = 0 /\ back = <<>>
Reading(conn, sent_, read_, st, back) ==
    /\ conn.cursor < msg_size
    /\ \E base \in Messages :
         /\ read_ = base + conn.cursor /\ sent_ <= base + msg_size
         /\ st = "open" => Len(back) = base /\ Holds(conn, base, conn.cursor)
HasRead(conn, data, sent_, read_, st, back) ==
    /\ conn.cursor < msg_size
    /\ \E base \in Messages :
         /\ read_ = base + conn.cursor + Len(data) /\ sent_ <= base + msg_size
         /\ st = "open" =>
              /\ Len(back) = base /\ Holds(conn, base, conn.cursor)
              /\ \A i \in 1 .. Len(data) : data[i] = base + conn.cursor + i
Writing(conn, from, sent_, read_, st, back) ==
    /\ conn.cursor = from /\ from < msg_size
    /\ \E base \in Messages :
         /\ read_ = base + msg_size /\ sent_ <= base + msg_size
         /\ st = "open" => Len(back) = base + from /\ Holds(conn, base, msg_size)
HasWritten(conn, n, sent_, read_, st, back) ==
    /\ conn.cursor + n <= msg_size
    /\ \E base \in Messages :
         /\ read_ = base + msg_size
         /\ sent_ <= base + msg_size + (IF conn.cursor + n < msg_size THEN 0 ELSE msg_size)
         /\ st = "open" => Len(back) = base + conn.cursor + n /\ Holds(conn, base, msg_size)

RequestAt(q, c) ==
    /\ q.type = "read" => Reading(conns[q.fd], csent[c], sread[c], cst[c], echo[c])
    /\ q.type = "write" => Writing(conns[q.fd], q.from, csent[c], sread[c], cst[c], echo[c])
EventAt(e, c) ==
    /\ e.type = "read" => Len(e.data) = e.result \/ e.result = -1
    /\ e.type = "read" /\ e.result > 0 =>
         HasRead(conns[e.fd], e.data, csent[c], sread[c], cst[c], echo[c])
    /\ e.type = "write" /\ e.result > 0 =>
         HasWritten(conns[e.fd], e.result, csent[c], sread[c], cst[c], echo[c])
RequestsAt == \A q \in armed : q.type # "accept" => RequestAt(q, sock[q.fd])
EventsAt   == \A e \in events : e.type # "accept" => EventAt(e, sock[e.fd])
NewAt ==
    /\ \A c \in Client : cst[c] = "idle" => Fresh(csent[c], sread[c], echo[c])
    /\ \A w \in Worker : \A c \in backlog[w] : Fresh(csent[c], sread[c], echo[c])
    /\ \A e \in events : e.type = "accept" /\ e.result # -1 =>
         Fresh(csent[sock[e.result]], sread[sock[e.result]], echo[sock[e.result]])
Buffers == \A fd \in Fd : conns[fd] # NULL => Len(conns[fd].buffer) = msg_size
Streams == EchoPrefix /\ \A c \in Client : sread[c] <= csent[c]

DataInv == OnePlace /\ RequestsAt /\ EventsAt /\ NewAt /\ Buffers /\ Streams
EchoInv == TypeOK /\ OwnInv /\ DataInv

-----------------------------------------------------------------------------
(* The connection *)

LEMMA PartIs ==
    ASSUME NEW s \in Seq(Nat), NEW j \in 1 .. Len(s) + 1, NEW k \in j - 1 .. Len(s)
    PROVE  /\ SubSeq(s, j, k) \in Seq(Nat) /\ Len(SubSeq(s, j, k)) = k + 1 - j
           /\ \A i \in 1 .. k + 1 - j : SubSeq(s, j, k)[i] = s[j + i - 1]
OBVIOUS

LEMMA JoinIs ==
    ASSUME NEW s \in Seq(Nat), NEW t \in Seq(Nat)
    PROVE  /\ s \o t \in Seq(Nat) /\ Len(s \o t) = Len(s) + Len(t)
           /\ \A i \in 1 .. Len(s) : (s \o t)[i] = s[i]
           /\ \A i \in 1 .. Len(t) : (s \o t)[Len(s) + i] = t[i]
OBVIOUS

\* memcpy of my_read replaces the bytes after the cursor, and no others.
LEMMA CopiedIs ==
    ASSUME NEW conn \in ConnType, NEW data \in Seq(Nat),
           Len(conn.buffer) = msg_size, conn.cursor + Len(data) <= msg_size
    PROVE  /\ Copied(conn, data).fd = conn.fd
           /\ Copied(conn, data).cursor = conn.cursor + Len(data)
           /\ Copied(conn, data) \in ConnType
           /\ Len(Copied(conn, data).buffer) = msg_size
           /\ \A i \in 1 .. conn.cursor : Copied(conn, data).buffer[i] = conn.buffer[i]
           /\ \A i \in 1 .. Len(data) :
                Copied(conn, data).buffer[conn.cursor + i] = data[i]
<1> DEFINE buf == conn.buffer
           k   == conn.cursor
           n   == Len(data)
           a   == SubSeq(buf, 1, k)
           b   == SubSeq(buf, k + n + 1, Len(buf))
           new == a \o data \o b
<1>1. /\ buf \in Seq(Nat) /\ k \in Nat /\ n \in Nat /\ Len(buf) = msg_size
      /\ k + n <= msg_size /\ msg_size \in Nat /\ data \in Seq(Nat)
  BY Sizes DEF ConnType
<1>2. Copied(conn, data) = [conn EXCEPT !.buffer = new, !.cursor = k + n]
  BY DEF Copied
<1> HIDE DEF buf, k, n
<1>3. a \in Seq(Nat) /\ Len(a) = k /\ \A i \in 1 .. k : a[i] = buf[i]
  <2>1. 1 \in 1 .. Len(buf) + 1 /\ k \in 1 - 1 .. Len(buf)
    BY <1>1
  <2>2. /\ a \in Seq(Nat) /\ Len(a) = k + 1 - 1
        /\ \A i \in 1 .. k + 1 - 1 : a[i] = buf[1 + i - 1]
    BY <1>1, <2>1, PartIs
  <2> HIDE DEF a
  <2>3. k + 1 - 1 = k /\ \A i \in 1 .. k : 1 + i - 1 = i
    BY <1>1
  <2> QED
    BY <2>2, <2>3
<1>4. b \in Seq(Nat) /\ Len(b) = msg_size - (k + n)
  <2>1. k + n + 1 \in 1 .. Len(buf) + 1 /\ Len(buf) \in k + n + 1 - 1 .. Len(buf)
    BY <1>1
  <2> QED
    BY <1>1, <2>1, PartIs
<1> HIDE DEF a, b
<1> DEFINE ad == a \o data
<1>5. ad \in Seq(Nat) /\ Len(ad) = k + n
  BY <1>1, <1>3, JoinIs DEF n
<1>6. /\ \A i \in 1 .. k : ad[i] = buf[i]
      /\ \A i \in 1 .. n : ad[k + i] = data[i]
  BY <1>1, <1>3, JoinIs DEF n
<1>7. new = ad \o b
  BY <1>1, <1>3, <1>4
<1> HIDE DEF ad, new
<1>8. /\ new \in Seq(Nat) /\ Len(new) = msg_size
      /\ \A i \in 1 .. k + n : new[i] = ad[i]
  <2>1. /\ ad \o b \in Seq(Nat) /\ Len(ad \o b) = Len(ad) + Len(b)
        /\ \A i \in 1 .. Len(ad) : (ad \o b)[i] = ad[i]
    BY <1>4, <1>5, JoinIs
  <2>2. Len(ad) + Len(b) = msg_size
    BY <1>1, <1>4, <1>5
  <2> QED
    BY <1>5, <1>7, <2>1, <2>2
<1>9. /\ \A i \in 1 .. k : new[i] = buf[i]
      /\ \A i \in 1 .. n : new[k + i] = data[i]
  BY <1>1, <1>6, <1>8
<1>10. /\ Copied(conn, data).fd = conn.fd
       /\ Copied(conn, data).cursor = k + n
       /\ Copied(conn, data).buffer = new
       /\ Copied(conn, data) \in ConnType
  <2>1. k + n \in 0 .. msg_size
    BY <1>1
  <2> QED
    BY <1>2, <1>8, <2>1 DEF ConnType
<1> QED
  BY <1>8, <1>9, <1>10 DEF buf, k, n

-----------------------------------------------------------------------------
(* What the kernel's answers and the handlers do *)

LEMMA MinOfTwo ==
    ASSUME NEW a \in Int, NEW b \in Int
    PROVE  Min({a, b}) = IF a <= b THEN a ELSE b
BY DEF Min

LEMMA EchoSteps ==
    ASSUME Next
    PROVE  \/ \E c \in Client, w \in Worker : Connect(c, w)
           \/ \E c \in Client : Send(c) \/ Shut(c)
           \/ \E q \in armed : Accepted(q) \/ ReadDone(q) \/ WriteDone(q) \/ Failed(q)
           \/ \E e \in events : my_accept(e) \/ my_read(e) \/ my_write(e)
           \/ \E w \in Worker : OnCloseStep(w)
BY EchoAssumption DEF Next, Kernel, Handler

\* A request that is not an accept is of a connection, and so is its answer.
LEMMA WhoseRequest ==
    ASSUME EchoInv, NEW q \in armed
    PROVE  /\ q.w \in Worker /\ q.type \in Types /\ q.from \in 0 .. msg_size - 1
           /\ q.type # "accept" =>
                /\ q.fd \in Fd /\ sock[q.fd] \in Client
                /\ conns[q.fd] \in ConnType /\ conns[q.fd].fd = q.fd
                /\ Len(conns[q.fd].buffer) = msg_size
<1>1. q \in RequestType
  BY DEF EchoInv, TypeOK
<1>2. ASSUME q.type # "accept"
      PROVE  q.fd \in Fd /\ conns[q.fd] # NULL /\ conns[q.fd].fd = q.fd
  BY <1>2 DEF EchoInv, OwnInv, RequestsOwn
<1>3. ASSUME q.type # "accept"
      PROVE  sock[q.fd] # NULL /\ Len(conns[q.fd].buffer) = msg_size
  BY <1>2, <1>3 DEF EchoInv, OwnInv, SocketsOwn, DataInv, Buffers
<1> QED
  BY <1>1, <1>2, <1>3 DEF RequestType, EchoInv, TypeOK

LEMMA WhoseEvent ==
    ASSUME EchoInv, NEW e \in events
    PROVE  /\ e \in EventType
           /\ e.type # "accept" =>
                /\ e.fd \in Fd /\ sock[e.fd] \in Client
                /\ conns[e.fd] \in ConnType /\ conns[e.fd].fd = e.fd
                /\ Len(conns[e.fd].buffer) = msg_size
<1>1. e \in EventType
  BY DEF EchoInv, TypeOK
<1>2. ASSUME e.type # "accept"
      PROVE  e.fd \in Fd /\ conns[e.fd] # NULL /\ conns[e.fd].fd = e.fd
  BY <1>2 DEF EchoInv, OwnInv, EventsOwn
<1>3. ASSUME e.type # "accept"
      PROVE  sock[e.fd] # NULL /\ Len(conns[e.fd].buffer) = msg_size
  BY <1>2, <1>3 DEF EchoInv, OwnInv, SocketsOwn, DataInv, Buffers
<1> QED
  BY <1>1, <1>2, <1>3 DEF EchoInv, TypeOK

\* The answer ev to request q is an event of the same connection, at the place
\* its stream then has, and nobody else's stream moves.
Stream(sent_, read_, back) ==
    /\ read_ \in Nat /\ back \in Seq(Nat)
    /\ read_ <= sent_ /\ Len(back) <= sent_ /\ \A i \in 1 .. Len(back) : back[i] = i
Answers(q, ev) ==
    /\ ev \in EventType /\ ev.w = q.w /\ ev.type = q.type /\ ev.fd = q.fd
    /\ armed' = armed \ {q} /\ events' = events \cup {ev}
    /\ UNCHANGED <<conns, closing, sock, backlog, cst, csent>>
    /\ q.type = "accept" => ev.result = -1 /\ UNCHANGED <<sread, echo>>
    /\ q.type # "accept" =>
         /\ \A d \in Client : d # sock[q.fd] => sread'[d] = sread[d] /\ echo'[d] = echo[d]
         /\ Stream(csent[sock[q.fd]], sread'[sock[q.fd]], echo'[sock[q.fd]])
         /\ EventAt(ev, sock[q.fd])'
    /\ failed' \subseteq Client \cup {Listen}
    /\ sread' = [d \in Client |-> sread'[d]] /\ echo' = [d \in Client |-> echo'[d]]

LEMMA FailedIs ==
    ASSUME EchoInv, NEW q \in armed, Failed(q)
    PROVE  \E ev : Answers(q, ev)
<1> DEFINE ev == Event(q, -1, <<>>)
           c  == sock[q.fd]
<1>1. /\ armed' = armed \ {q} /\ events' = events \cup {ev}
      /\ UNCHANGED <<conns, closing, sock, backlog, cst, csent, sread, echo>>
      /\ failed' = failed \cup {IF q.type = "accept" THEN Listen ELSE c}
  BY DEF Failed, Answered
<1>2. ev \in EventType /\ ev.w = q.w /\ ev.type = q.type /\ ev.fd = q.fd /\ ev.result = -1
  <2>1. q \in RequestType /\ <<>> \in Seq(Nat)
    BY DEF EchoInv, TypeOK
  <2> QED
    BY <2>1 DEF RequestType, EventType, Event
<1>3. failed' \subseteq Client \cup {Listen}
  BY <1>1, WhoseRequest DEF EchoInv, TypeOK
<1>4. sread \in [Client -> Nat] /\ echo \in [Client -> Seq(Nat)]
  BY DEF EchoInv, TypeOK
<1>5. ASSUME q.type # "accept" PROVE Stream(csent[c], sread[c], echo[c])
  <2>1. c \in Client
    BY <1>5, WhoseRequest
  <2>2. DOMAIN echo[c] = 1 .. Len(echo[c])
    BY <1>4, <2>1
  <2> QED
    BY <1>4, <2>1, <2>2 DEF EchoInv, DataInv, Streams, EchoPrefix, Stream
<1> HIDE DEF ev
<1>6. EventAt(ev, c)'
  BY <1>2 DEF EventAt
<1>7. Answers(q, ev)
  BY <1>1, <1>2, <1>3, <1>4, <1>5, <1>6 DEF Answers
<1> QED
  BY <1>7

LEMMA ReadDoneIs ==
    ASSUME EchoInv, NEW q \in armed, ReadDone(q)
    PROVE  \E ev : Answers(q, ev)
<1> DEFINE c == sock[q.fd]
<1>a. PICK n : n = Min({csent[c] - sread[c], msg_size})
  OBVIOUS
<1>b. PICK data : data = [i \in 1 .. n |-> sread[c] + i]
  OBVIOUS
<1>c. PICK ev : ev = Event(q, n, data)
  OBVIOUS
<1>1. /\ armed' = armed \ {q} /\ events' = events \cup {ev} /\ q.type = "read"
      /\ sread' = [sread EXCEPT ![c] = @ + n]
      /\ UNCHANGED <<conns, closing, sock, backlog, cst, csent, echo, failed>>
  BY <1>a, <1>b, <1>c DEF ReadDone, Answered
<1>2. c \in Client /\ conns[q.fd] \in ConnType
  BY <1>1, WhoseRequest
<1>3. /\ csent \in [Client -> Nat] /\ sread \in [Client -> Nat]
      /\ echo \in [Client -> Seq(Nat)] /\ failed \subseteq Client \cup {Listen}
  BY DEF EchoInv, TypeOK
<1>4. /\ sread[c] <= csent[c] /\ Len(echo[c]) <= csent[c]
      /\ \A i \in DOMAIN echo[c] : echo[c][i] = i
  BY <1>2 DEF EchoInv, DataInv, Streams, EchoPrefix
<1>5. n \in Nat /\ n <= csent[c] - sread[c]
  <2>1. csent[c] - sread[c] \in Nat /\ msg_size \in Nat
    BY <1>2, <1>3, <1>4, Sizes
  <2>2. n = IF csent[c] - sread[c] <= msg_size THEN csent[c] - sread[c] ELSE msg_size
    BY <1>a, <2>1, MinOfTwo
  <2> QED
    BY <2>1, <2>2
<1>6. /\ data \in Seq(Nat) /\ Len(data) = n
      /\ \A i \in 1 .. n : data[i] = sread[c] + i
  BY <1>b, <1>2, <1>3, <1>5
<1>7. /\ ev \in EventType /\ ev.w = q.w /\ ev.type = q.type /\ ev.fd = q.fd
      /\ ev.result = n /\ ev.data = data
  <2>1. q \in RequestType
    BY DEF EchoInv, TypeOK
  <2> QED
    BY <1>c, <1>5, <1>6, <2>1 DEF RequestType, EventType, Event
<1>8. Stream(csent[c], sread'[c], echo[c])
  <2>1. DOMAIN echo[c] = 1 .. Len(echo[c])
    BY <1>2, <1>3
  <2>2. sread'[c] \in Nat /\ sread'[c] <= csent[c]
    <3>1. sread'[c] = sread[c] + n
      BY <1>1, <1>2, <1>3
    <3>2. sread[c] \in Nat /\ csent[c] \in Nat
      BY <1>2, <1>3
    <3> QED
      BY <1>5, <3>1, <3>2
  <2>3. echo[c] \in Seq(Nat)
    BY <1>2, <1>3
  <2> QED
    BY <1>4, <2>1, <2>2, <2>3 DEF Stream
<1>9. EventAt(ev, c)'
  <2>1. Reading(conns[q.fd], csent[c], sread[c], cst[c], echo[c])
    BY <1>1 DEF EchoInv, DataInv, RequestsAt, RequestAt
  <2>2. PICK base \in Messages :
          /\ sread[c] = base + conns[q.fd].cursor /\ csent[c] <= base + msg_size
          /\ cst[c] = "open" => /\ Len(echo[c]) = base
                                /\ Holds(conns[q.fd], base, conns[q.fd].cursor)
    BY <2>1 DEF Reading
  <2>3. conns[q.fd].cursor \in Nat /\ base \in Nat /\ conns[q.fd].cursor < msg_size
    <3>1. conns[q.fd].cursor \in 0 .. msg_size
      BY <1>2 DEF ConnType
    <3>2. base \in Nat
      BY MessagesAdd
    <3> QED
      BY <2>1, <3>1, <3>2, Sizes DEF Reading
  <2>4. sread'[c] = base + conns[q.fd].cursor + n
    BY <1>1, <1>2, <1>3, <2>2
  <2>5. \A i \in 1 .. n : data[i] = base + conns[q.fd].cursor + i
    BY <1>6, <2>2
  <2>6. HasRead(conns[q.fd], data, csent[c], sread'[c], cst[c], echo[c])
    BY <1>6, <2>2, <2>3, <2>4, <2>5 DEF HasRead
  <2> QED
    BY <1>1, <1>6, <1>7, <2>6 DEF EventAt
<1>10. Answers(q, ev)
  BY <1>1, <1>2, <1>3, <1>7, <1>8, <1>9 DEF Answers
<1> QED
  BY <1>10

LEMMA WriteDoneIs ==
    ASSUME EchoInv, NEW q \in armed, WriteDone(q)
    PROVE  \E ev : Answers(q, ev)
<1> DEFINE c    == sock[q.fd]
           conn == conns[q.fd]
<1>0. PICK n \in 0 .. msg_size - q.from :
        /\ Answered(q, n, <<>>)
        /\ echo' = [echo EXCEPT ![c] =
                      IF cst[c] = "open" THEN @ \o SubSeq(conn.buffer, q.from + 1, q.from + n)
                                         ELSE @]
  BY DEF WriteDone
<1> DEFINE ev   == Event(q, n, <<>>)
           part == SubSeq(conn.buffer, q.from + 1, q.from + n)
<1>1. /\ armed' = armed \ {q} /\ events' = events \cup {ev} /\ q.type = "write"
      /\ UNCHANGED <<conns, closing, sock, backlog, cst, csent, sread, failed>>
  BY <1>0 DEF WriteDone, Answered
<1>2. c \in Client /\ conn \in ConnType /\ Len(conn.buffer) = msg_size
  BY <1>1, WhoseRequest
<1>3. /\ csent \in [Client -> Nat] /\ sread \in [Client -> Nat]
      /\ echo \in [Client -> Seq(Nat)] /\ failed \subseteq Client \cup {Listen}
  BY DEF EchoInv, TypeOK
<1>4. /\ sread[c] <= csent[c] /\ Len(echo[c]) <= csent[c]
      /\ \A i \in 1 .. Len(echo[c]) : echo[c][i] = i
  <2>1. DOMAIN echo[c] = 1 .. Len(echo[c])
    BY <1>2, <1>3
  <2> QED
    BY <1>2, <2>1 DEF EchoInv, DataInv, Streams, EchoPrefix
<1>5. Writing(conn, q.from, csent[c], sread[c], cst[c], echo[c])
  BY <1>1 DEF EchoInv, DataInv, RequestsAt, RequestAt
<1>6. PICK base \in Messages :
        /\ sread[c] = base + msg_size /\ csent[c] <= base + msg_size
        /\ cst[c] = "open" => Len(echo[c]) = base + q.from /\ Holds(conn, base, msg_size)
  BY <1>5 DEF Writing
<1>7. /\ q.from \in Nat /\ conn.cursor = q.from /\ n \in Nat /\ q.from + n <= msg_size
      /\ base \in Nat
  <2>1. q.from \in 0 .. msg_size - 1
    BY WhoseRequest
  <2> QED
    <3>1. conn.cursor = q.from
      BY <1>5 DEF Writing
    <3>2. base \in Nat
      BY MessagesAdd
    <3> QED
      BY <1>0, <2>1, <3>1, <3>2, Sizes
<1>8. /\ ev \in EventType /\ ev.w = q.w /\ ev.type = q.type /\ ev.fd = q.fd
      /\ ev.result = n
  <2>1. q \in RequestType /\ <<>> \in Seq(Nat)
    BY DEF EchoInv, TypeOK
  <2> QED
    BY <1>7, <2>1 DEF RequestType, EventType, Event
<1> HIDE DEF ev
<1>9. /\ part \in Seq(Nat) /\ Len(part) = n
      /\ \A i \in 1 .. n : part[i] = conn.buffer[q.from + i]
  <2>1. conn.buffer \in Seq(Nat)
    BY <1>2 DEF ConnType
  <2>2. /\ q.from + 1 \in 1 .. Len(conn.buffer) + 1
        /\ q.from + n \in (q.from + 1) - 1 .. Len(conn.buffer)
    BY <1>2, <1>7, Sizes
  <2>3. /\ part \in Seq(Nat) /\ Len(part) = q.from + n + 1 - (q.from + 1)
        /\ \A i \in 1 .. q.from + n + 1 - (q.from + 1) :
             part[i] = conn.buffer[q.from + 1 + i - 1]
    BY <2>1, <2>2, PartIs
  <2>4. q.from + n + 1 - (q.from + 1) = n /\ \A i \in 1 .. n : q.from + 1 + i - 1 = q.from + i
    BY <1>7
  <2> HIDE DEF part
  <2>5. part \in Seq(Nat) /\ Len(part) = n
    BY <2>3, <2>4
  <2>6. \A i \in 1 .. n : part[i] = conn.buffer[q.from + 1 + i - 1]
    BY <2>3, <2>4
  <2> QED
    BY <2>4, <2>5, <2>6
<1> HIDE DEF part
<1>10. /\ \A d \in Client : d # c => echo'[d] = echo[d]
       /\ echo' = [d \in Client |-> echo'[d]]
       /\ echo'[c] = IF cst[c] = "open" THEN echo[c] \o part ELSE echo[c]
  BY <1>0, <1>2, <1>3 DEF part
<1>11. /\ Stream(csent[c], sread[c], echo'[c])
       /\ cst[c] = "open" => Len(echo'[c]) = base + q.from + n
  <2>1. CASE cst[c] # "open"
    BY <1>2, <1>3, <1>4, <1>10, <2>1 DEF Stream
  <2>2. CASE cst[c] = "open"
    <3>1. echo'[c] = echo[c] \o part /\ Len(echo[c]) = base + q.from
      BY <1>6, <1>10, <2>2
    <3>2. /\ echo'[c] \in Seq(Nat) /\ Len(echo'[c]) = base + q.from + n
          /\ \A i \in 1 .. base + q.from : echo'[c][i] = echo[c][i]
          /\ \A i \in 1 .. n : echo'[c][base + q.from + i] = part[i]
      <4>1. echo[c] \in Seq(Nat)
        BY <1>2, <1>3
      <4>2. PICK s \in Seq(Nat) : s = echo[c]
        BY <4>1
      <4>3. PICK new : new = echo'[c]
        OBVIOUS
      <4>4. new = s \o part /\ Len(s) = base + q.from
        BY <3>1, <4>2, <4>3
      <4>5. /\ new \in Seq(Nat) /\ Len(new) = Len(s) + n
            /\ \A i \in 1 .. Len(s) : new[i] = s[i]
            /\ \A i \in 1 .. n : new[Len(s) + i] = part[i]
        BY <1>9, <4>4, JoinIs
      <4> QED
        BY <4>2, <4>3, <4>4, <4>5
    <3>3. \A i \in 1 .. base + q.from : echo'[c][i] = i
      BY <1>4, <3>1, <3>2
    <3>4. ASSUME NEW i \in 1 .. n PROVE part[i] = base + q.from + i
      <4>1. q.from + i \in 1 .. msg_size
        BY <1>7, Sizes
      <4>2. part[i] = conn.buffer[q.from + i]
        BY <1>9
      <4>3. conn.buffer[q.from + i] = base + (q.from + i)
        BY <1>6, <2>2, <4>1 DEF Holds
      <4> QED
        BY <1>7, <4>2, <4>3
    <3>5. ASSUME NEW i \in 1 .. Len(echo'[c]) PROVE echo'[c][i] = i
      <4>1. CASE i <= base + q.from
        BY <1>7, <3>3, <4>1
      <4>2. CASE i > base + q.from
        <5>1. PICK k \in 1 .. n : i = base + q.from + k
          <6>1. PICK l \in Nat : l = base + q.from
            BY <1>7
          <6>2. Len(echo'[c]) = l + n /\ n \in Nat
            BY <1>7, <3>2, <6>1
          <6>3. i \in Nat /\ i > l /\ i <= l + n
            BY <4>2, <6>1, <6>2
          <6>4. i - l \in 1 .. n /\ i = l + (i - l)
            BY <6>2, <6>3
          <6> QED
            BY <6>1, <6>4
        <5> QED
          BY <3>2, <3>4, <5>1
      <4> QED
        BY <1>7, <4>1, <4>2
    <3>6. Len(echo'[c]) <= csent[c]
      <4>1. sread[c] = base + msg_size /\ sread[c] <= csent[c] /\ csent[c] \in Nat
        BY <1>2, <1>3, <1>4, <1>6
      <4>2. PICK m \in Nat : m = msg_size /\ q.from + n <= m
        BY <1>7, Sizes
      <4>3. PICK k \in Nat : k = q.from + n
        BY <1>7
      <4>4. base + q.from + n = base + k /\ base + k <= base + m
        BY <1>7, <4>2, <4>3
      <4>5. PICK have \in Nat : have = csent[c]
        BY <4>1
      <4>6. base + m <= have
        BY <4>1, <4>2, <4>5
      <4> QED
        BY <1>7, <3>2, <4>4, <4>5, <4>6
    <3> QED
      BY <1>2, <1>3, <1>4, <3>2, <3>5, <3>6 DEF Stream
  <2> QED
    BY <2>1, <2>2
<1>12. EventAt(ev, c)'
  <2>1. HasWritten(conn, n, csent[c], sread[c], cst[c], echo'[c])
    <3>1. csent[c] <= base + msg_size + (IF conn.cursor + n < msg_size THEN 0 ELSE msg_size)
      <4>1. PICK x \in Nat : x = (IF conn.cursor + n < msg_size THEN 0 ELSE msg_size)
        BY Sizes
      <4>2. csent[c] \in Nat /\ base + msg_size \in Nat /\ csent[c] <= base + msg_size
        BY <1>2, <1>3, <1>6, <1>7, Sizes
      <4> QED
        BY <4>1, <4>2
    <3> QED
      BY <1>6, <1>7, <1>11, <3>1 DEF HasWritten
  <2> QED
    BY <1>1, <1>8, <2>1 DEF EventAt
<1>13. Answers(q, ev)
  BY <1>1, <1>2, <1>3, <1>8, <1>10, <1>11, <1>12 DEF Answers
<1> QED
  BY <1>13

\* The handler of e is done with the connection for now, closes it, or leaves it
\* as conn with the next request, of type t from the byte from on.
Drops  == UNCHANGED <<conns, armed, closing>>
Closes(e) ==
    /\ conns' = [conns EXCEPT ![e.fd].fd = -1]
    /\ closing' = [closing EXCEPT ![e.w] = [step |-> "clear", fd |-> e.fd]]
    /\ UNCHANGED armed
Serves(e, conn, t, from) ==
    /\ conn \in ConnType /\ conn.fd = e.fd /\ Len(conn.buffer) = msg_size
    /\ t \in {"read", "write"} /\ from \in 0 .. msg_size - 1
    /\ conns' = [conns EXCEPT ![e.fd] = conn]
    /\ armed' = armed \cup {Request(e.w, t, e.fd, from)}
    /\ UNCHANGED closing
    /\ LET c == sock[e.fd]
       IN /\ t = "read" => Reading(conn, csent[c], sread[c], cst[c], echo[c])
          /\ t = "write" => Writing(conn, from, csent[c], sread[c], cst[c], echo[c])
Serving(e) ==
    /\ e.type # "accept"
    /\ closing[e.w] = Idle /\ events' = events \ {e} /\ UNCHANGED net
    /\ \/ Drops \/ Closes(e)
       \/ \E conn, t, from : Serves(e, conn, t, from)

LEMMA ReadIs ==
    ASSUME EchoInv, NEW e \in events, my_read(e)
    PROVE  Serving(e)
<1> DEFINE c    == sock[e.fd]
           conn == conns[e.fd]
<1>1. /\ e.type = "read" /\ closing[e.w] = Idle /\ events' = events \ {e} /\ UNCHANGED net
  BY DEF my_read, Handles
<1>2. /\ e \in EventType /\ e.fd \in Fd /\ c \in Client /\ conn \in ConnType
      /\ conn.fd = e.fd /\ Len(conn.buffer) = msg_size
  BY <1>1, WhoseEvent
<1>3. PICK got : got = Copied(conn, e.data)
  OBVIOUS
<1>4. \/ Drops \/ Closes(e)
      \/ /\ e.result > 0 /\ UNCHANGED closing
         /\ \/ /\ got.cursor < msg_size
               /\ conns' = [conns EXCEPT ![e.fd] = got]
               /\ armed' = armed \cup {Request(e.w, "read", e.fd, 0)}
            \/ /\ got.cursor >= msg_size
               /\ conns' = [conns EXCEPT ![e.fd] = Rewound(got)]
               /\ armed' = armed \cup {Request(e.w, "write", e.fd, 0)}
  BY <1>2, <1>3 DEF my_read, on_close, Arm, Drops, Closes
<1>6. ASSUME e.result > 0
      PROVE  /\ got \in ConnType /\ got.fd = e.fd /\ Len(got.buffer) = msg_size
             /\ got.cursor <= msg_size
             /\ \E base \in Messages :
                  /\ sread[c] = base + got.cursor /\ csent[c] <= base + msg_size
                  /\ cst[c] = "open" => Len(echo[c]) = base /\ Holds(got, base, got.cursor)
  <2>1. /\ Len(e.data) = e.result /\ e.data \in Seq(Nat)
        /\ HasRead(conn, e.data, csent[c], sread[c], cst[c], echo[c])
    BY <1>1, <1>2, <1>6 DEF EchoInv, DataInv, EventsAt, EventAt, EventType
  <2>2. PICK base \in Messages :
          /\ sread[c] = base + conn.cursor + Len(e.data) /\ csent[c] <= base + msg_size
          /\ cst[c] = "open" =>
               /\ Len(echo[c]) = base /\ Holds(conn, base, conn.cursor)
               /\ \A i \in 1 .. Len(e.data) : e.data[i] = base + conn.cursor + i
    BY <2>1 DEF HasRead
  <2>3. base \in Nat
    BY MessagesAdd
  <2>4. PICK k \in 0 .. msg_size : k = conn.cursor
    BY <1>2 DEF ConnType
  <2>5. PICK n \in Nat : n = Len(e.data)
    BY <2>1
  <2>6. sread[c] <= csent[c] /\ sread[c] \in Nat /\ csent[c] \in Nat
    BY <1>2 DEF EchoInv, DataInv, Streams, TypeOK
  <2>7. k + n <= msg_size
    <3>1. PICK r, m \in Nat : r = sread[c] /\ m = msg_size
      BY <2>6, Sizes
    <3>2. r = base + k + n
      BY <2>2, <2>4, <2>5, <3>1
    <3>3. r <= base + m
      BY <2>2, <2>3, <2>6, <3>1
    <3> QED
      BY <2>3, <3>1, <3>2, <3>3
  <2>8. conn.cursor + Len(e.data) <= msg_size
    BY <2>4, <2>5, <2>7
  <2>9. /\ got.fd = conn.fd /\ got.cursor = k + n /\ got \in ConnType
        /\ Len(got.buffer) = msg_size
        /\ \A i \in 1 .. k : got.buffer[i] = conn.buffer[i]
        /\ \A i \in 1 .. n : got.buffer[k + i] = e.data[i]
    BY <1>2, <1>3, <2>1, <2>4, <2>5, <2>8, CopiedIs
  <2>10. ASSUME cst[c] = "open" PROVE Holds(got, base, got.cursor)
    <3>1. ASSUME NEW i \in 1 .. k + n PROVE got.buffer[i] = base + i
      <4>1. CASE i <= k
        <5>1. i \in 1 .. k /\ i \in 1 .. conn.cursor
          BY <2>4, <4>1
        <5>2. got.buffer[i] = conn.buffer[i]
          BY <2>9, <5>1
        <5> QED
          BY <2>2, <2>10, <5>1, <5>2 DEF Holds
      <4>2. CASE i > k
        <5>1. PICK j \in 1 .. n : i = k + j
          <6>1. i - k \in 1 .. n
            BY <4>2
          <6> QED
            BY <6>1
        <5>2. e.data[j] = base + k + j
          BY <2>2, <2>4, <2>5, <2>10
        <5>3. got.buffer[k + j] = e.data[j]
          BY <2>9
        <5> QED
          BY <2>3, <5>1, <5>2, <5>3
      <4>3. i <= k \/ i > k
        OBVIOUS
      <4> QED
        BY <4>1, <4>2, <4>3
    <3> QED
      BY <2>9, <3>1 DEF Holds
  <2>11. sread[c] = base + got.cursor
    BY <2>2, <2>3, <2>4, <2>5, <2>9
  <2> QED
    BY <1>2, <2>2, <2>7, <2>9, <2>10, <2>11
<1>7. ASSUME e.result > 0, UNCHANGED closing,
             got.cursor < msg_size,
             conns' = [conns EXCEPT ![e.fd] = got],
             armed' = armed \cup {Request(e.w, "read", e.fd, 0)}
      PROVE  Serves(e, got, "read", 0)
  <2>1. Reading(got, csent[c], sread[c], cst[c], echo[c])
    BY <1>6, <1>7 DEF Reading
  <2>2. 0 \in 0 .. msg_size - 1
    BY Sizes
  <2> QED
    BY <1>6, <1>7, <2>1, <2>2 DEF Serves
<1>8. ASSUME e.result > 0, UNCHANGED closing,
             got.cursor >= msg_size,
             conns' = [conns EXCEPT ![e.fd] = Rewound(got)],
             armed' = armed \cup {Request(e.w, "write", e.fd, 0)}
      PROVE  Serves(e, Rewound(got), "write", 0)
  <2>1. got.cursor = msg_size
    BY <1>6, <1>8, Sizes DEF ConnType
  <2>2. /\ Rewound(got) \in ConnType /\ Rewound(got).fd = e.fd
        /\ Rewound(got).cursor = 0 /\ Rewound(got).buffer = got.buffer
    BY <1>6, <1>8, Sizes DEF ConnType, Rewound
  <2>3. PICK base \in Messages :
          /\ sread[c] = base + got.cursor /\ csent[c] <= base + msg_size
          /\ cst[c] = "open" => Len(echo[c]) = base /\ Holds(got, base, got.cursor)
    BY <1>6, <1>8
  <2>4. base + 0 = base /\ 0 \in 0 .. msg_size - 1 /\ 0 < msg_size
    BY MessagesAdd, Sizes
  <2>5. Writing(Rewound(got), 0, csent[c], sread[c], cst[c], echo[c])
    BY <2>1, <2>2, <2>3, <2>4 DEF Writing, Holds
  <2> QED
    BY <1>6, <1>8, <2>2, <2>4, <2>5 DEF Serves
<1> QED
  BY <1>1, <1>4, <1>7, <1>8 DEF Serving

LEMMA WriteIs ==
    ASSUME EchoInv, NEW e \in events, my_write(e)
    PROVE  Serving(e)
<1> DEFINE c    == sock[e.fd]
           conn == conns[e.fd]
           done == conn.cursor + e.result
<1>1. /\ e.type = "write" /\ closing[e.w] = Idle /\ events' = events \ {e} /\ UNCHANGED net
  BY DEF my_write, Handles
<1>2. /\ e \in EventType /\ e.fd \in Fd /\ c \in Client /\ conn \in ConnType
      /\ conn.fd = e.fd /\ Len(conn.buffer) = msg_size
  BY <1>1, WhoseEvent
<1>3. \/ Drops \/ Closes(e)
      \/ /\ e.result > 0 /\ UNCHANGED closing
         /\ \/ /\ done < msg_size
               /\ conns' = [conns EXCEPT ![e.fd].cursor = done]
               /\ armed' = armed \cup {Request(e.w, "write", e.fd, done)}
            \/ /\ done >= msg_size
               /\ conns' = [conns EXCEPT ![e.fd] = Rewound(conn)]
               /\ armed' = armed \cup {Request(e.w, "read", e.fd, 0)}
  BY <1>2 DEF my_write, on_close, Arm, Drops, Closes
<1>4. ASSUME e.result > 0
      PROVE  HasWritten(conn, e.result, csent[c], sread[c], cst[c], echo[c])
  BY <1>1, <1>4 DEF EchoInv, DataInv, EventsAt, EventAt
<1>5. conn.cursor \in Nat /\ e.result \in Int /\ csent[c] \in Nat
  BY <1>2, Sizes DEF ConnType, EventType, EchoInv, TypeOK
<1>6. ASSUME e.result > 0, UNCHANGED closing, done < msg_size,
             conns' = [conns EXCEPT ![e.fd].cursor = done],
             armed' = armed \cup {Request(e.w, "write", e.fd, done)}
      PROVE  \E new, t, from : Serves(e, new, t, from)
  <2>1. PICK to : to = done
    OBVIOUS
  <2>2. to \in 0 .. msg_size - 1 /\ to \in 0 .. msg_size
    BY <1>5, <1>6, <2>1, Sizes
  <2>3. PICK new : new = [conn EXCEPT !.cursor = to]
    OBVIOUS
  <2>4. /\ new \in ConnType /\ new.fd = e.fd /\ Len(new.buffer) = msg_size
        /\ new.cursor = to /\ new.buffer = conn.buffer
    BY <1>2, <2>2, <2>3 DEF ConnType
  <2>5. conns' = [conns EXCEPT ![e.fd] = new]
    BY <1>6, <2>1, <2>3
  <2>6. PICK base \in Messages :
          /\ sread[c] = base + msg_size /\ csent[c] <= base + msg_size + 0
          /\ cst[c] = "open" => Len(echo[c]) = base + conn.cursor + e.result
                                  /\ Holds(conn, base, msg_size)
    BY <1>4, <1>6 DEF HasWritten
  <2>7. base \in Nat
    BY MessagesAdd
  <2>8. base + msg_size + 0 = base + msg_size /\ base + conn.cursor + e.result = base + to
    BY <1>5, <2>1, <2>7, Sizes
  <2>9. Holds(new, base, msg_size) <=> Holds(conn, base, msg_size)
    BY <2>4 DEF Holds
  <2>10. Writing(new, to, csent[c], sread[c], cst[c], echo[c])
    BY <1>6, <2>1, <2>4, <2>6, <2>8, <2>9 DEF Writing
  <2>11. Serves(e, new, "write", to)
    BY <1>6, <2>1, <2>2, <2>4, <2>5, <2>10 DEF Serves
  <2> QED
    BY <2>11
<1>7. ASSUME e.result > 0, UNCHANGED closing, done >= msg_size,
             conns' = [conns EXCEPT ![e.fd] = Rewound(conn)],
             armed' = armed \cup {Request(e.w, "read", e.fd, 0)}
      PROVE  \E new, t, from : Serves(e, new, t, from)
  <2>1. done = msg_size
    BY <1>4, <1>5, <1>7, Sizes DEF HasWritten
  <2>2. PICK new : new = Rewound(conn)
    OBVIOUS
  <2>3. /\ new \in ConnType /\ new.fd = e.fd /\ Len(new.buffer) = msg_size /\ new.cursor = 0
    BY <1>2, <2>2, Sizes DEF ConnType, Rewound
  <2>4. PICK base \in Messages :
          /\ sread[c] = base + msg_size /\ csent[c] <= base + msg_size + msg_size
          /\ cst[c] = "open" => Len(echo[c]) = base + conn.cursor + e.result
    <3>1. (IF done < msg_size THEN 0 ELSE msg_size) = msg_size
      BY <2>1, Sizes
    <3> QED
      BY <1>4, <1>7, <3>1 DEF HasWritten
  <2>5. PICK next \in Messages : next = base + msg_size
    BY MessagesAdd
  <2>6. base \in Nat /\ next \in Nat
    BY MessagesAdd
  <2>7. base + conn.cursor + e.result = next /\ next + 0 = next
    BY <1>5, <2>1, <2>5, <2>6, Sizes
  <2>8. Holds(new, next, 0)
    BY DEF Holds
  <2>9. 0 < msg_size /\ 0 \in 0 .. msg_size - 1
    BY Sizes
  <2>10. Reading(new, csent[c], sread[c], cst[c], echo[c])
    BY <2>3, <2>4, <2>5, <2>7, <2>8, <2>9 DEF Reading
  <2>11. Serves(e, new, "read", 0)
    BY <1>7, <2>2, <2>3, <2>9, <2>10 DEF Serves
  <2> QED
    BY <2>11
<1> QED
  BY <1>1, <1>3, <1>6, <1>7 DEF Serving

\* A new connection is read first, and its worker accepts the next one.
LEMMA NewConnIs ==
    ASSUME NEW fd \in Fd
    PROVE  /\ NewConn(fd) \in ConnType /\ NewConn(fd).fd = fd
           /\ NewConn(fd).cursor = 0 /\ Len(NewConn(fd).buffer) = msg_size
<1> DEFINE buf == [i \in 1 .. msg_size |-> 0]
<1>1. buf \in Seq(Nat) /\ Len(buf) = msg_size
  BY Sizes
<1>2. NewConn(fd) = [fd |-> fd, cursor |-> 0, buffer |-> buf]
  BY DEF NewConn
<1> HIDE DEF buf
<1> QED
  BY <1>1, <1>2, Sizes DEF ConnType

NewServed(e) ==
    /\ e.type = "accept" /\ closing[e.w] = Idle
    /\ events' = events \ {e} /\ UNCHANGED net /\ UNCHANGED closing
    /\ \/ /\ e.result = -1 /\ UNCHANGED conns
          /\ armed' = armed \cup {Request(e.w, "accept", Listen, 0)}
       \/ /\ e.result \in Fd
          /\ conns' = [conns EXCEPT ![e.result] = NewConn(e.result)]
          /\ armed' = armed \cup {Request(e.w, "read", e.result, 0),
                                  Request(e.w, "accept", Listen, 0)}

LEMMA AcceptIs ==
    ASSUME EchoInv, NEW e \in events, my_accept(e)
    PROVE  NewServed(e)
<1>1. e.type = "accept" /\ (e.result = -1 \/ e.result \in Fd)
  BY DEF my_accept, EchoInv, OwnInv, EventsOwn
<1>2. (e.result < 0 <=> e.result = -1) /\ (e.result \in Fd => ~(e.result < 0))
  BY <1>1, Sizes DEF Fd
<1> QED
  BY <1>1, <1>2 DEF my_accept, Handles, Arm, NewServed

\* accept4 takes a descriptor that is free.
Accepts(q, c, fd) ==
    /\ q.type = "accept" /\ c \in backlog[q.w] /\ fd \in Fd /\ sock[fd] = NULL
    /\ sock' = [sock EXCEPT ![fd] = c]
    /\ backlog' = [backlog EXCEPT ![q.w] = @ \ {c}]
    /\ armed' = armed \ {q} /\ events' = events \cup {Event(q, fd, <<>>)}
    /\ UNCHANGED <<conns, closing, cst, csent, sread, echo, failed>>

LEMMA AcceptedIs ==
    ASSUME NEW q \in armed, Accepted(q)
    PROVE  \E c, fd : Accepts(q, c, fd)
<1>1. FreeFds \in SUBSET Nat /\ FreeFds # {}
  BY Sizes DEF Accepted, FreeFds, Fd
<1>2. Min(FreeFds) \in FreeFds
  BY <1>1, LeastElement
<1>3. PICK fd : fd = Min(FreeFds)
  OBVIOUS
<1>4. fd \in Fd /\ sock[fd] = NULL
  BY <1>2, <1>3 DEF FreeFds
<1>5. PICK c \in backlog[q.w] : /\ sock' = [sock EXCEPT ![fd] = c]
                               /\ backlog' = [backlog EXCEPT ![q.w] = @ \ {c}]
  BY <1>3 DEF Accepted
<1>6. Accepts(q, c, fd)
  BY <1>3, <1>4, <1>5 DEF Accepted, Answered, Accepts
<1> QED
  BY <1>6

\* The two steps of on_close after the first.
Clears(w) ==
    /\ closing[w].step = "clear"
    /\ conns' = [conns EXCEPT ![closing[w].fd] = NULL]
    /\ closing' = [closing EXCEPT ![w].step = "close"]
    /\ UNCHANGED <<armed, events, net>>
Frees(w) ==
    /\ closing[w].step = "close"
    /\ sock' = [sock EXCEPT ![closing[w].fd] = NULL]
    /\ closing' = [closing EXCEPT ![w] = Idle]
    /\ UNCHANGED <<conns, armed, events, backlog, cst, csent, sread, echo, failed>>

\* A step, by what it does.
LEMMA StepKinds ==
    ASSUME EchoInv, [Next]_vars
    PROVE  \/ UNCHANGED vars
           \/ \E c \in Client, w \in Worker : Connect(c, w)
           \/ \E c \in Client : Send(c) \/ Shut(c)
           \/ \E q \in armed : \E c, fd : Accepts(q, c, fd)
           \/ \E q \in armed : \E ev : Answers(q, ev)
           \/ \E e \in events : NewServed(e) \/ Serving(e)
           \/ \E w \in Worker : Clears(w) \/ Frees(w)
<1>1. \A w \in Worker : OnCloseStep(w) => Clears(w) \/ Frees(w)
  BY DEF OnCloseStep, Clears, Frees, net
<1>2. \A q \in armed : /\ Accepted(q) => \E c, fd : Accepts(q, c, fd)
                       /\ ReadDone(q) \/ WriteDone(q) \/ Failed(q) => \E ev : Answers(q, ev)
  BY AcceptedIs, ReadDoneIs, WriteDoneIs, FailedIs
<1>3. \A e \in events : /\ my_accept(e) => NewServed(e)
                        /\ my_read(e) \/ my_write(e) => Serving(e)
  BY AcceptIs, ReadIs, WriteIs
<1> QED
  BY <1>1, <1>2, <1>3, EchoSteps

-----------------------------------------------------------------------------
(* The types *)

LEMMA TypeInit == Init => TypeOK
<1> SUFFICES ASSUME Init PROVE TypeOK
  OBVIOUS
<1>1. conns \in [Fd -> ConnType \cup {NULL}] /\ sock \in [Fd -> Client \cup {NULL}]
  BY DEF Init
<1>2. armed \subseteq RequestType /\ events \subseteq EventType
  BY Sizes DEF Init, RequestType, EventType, Request, Types
<1>3. closing \in [Worker -> [step : {"none", "clear", "close"}, fd : Fd \cup {Listen}]]
  BY DEF Init, Idle
<1>4. /\ backlog \in [Worker -> SUBSET Client]
      /\ cst \in [Client -> {"idle", "open", "shut"}]
      /\ csent \in [Client -> Nat] /\ sread \in [Client -> Nat]
      /\ echo \in [Client -> Seq(Nat)] /\ failed \subseteq Client \cup {Listen}
  BY DEF Init
<1> QED
  BY <1>1, <1>2, <1>3, <1>4 DEF TypeOK

LEMMA TypeStep ==
    ASSUME EchoInv, [Next]_vars
    PROVE  TypeOK'
<1> USE DEF TypeOK
<1>0. TypeOK
  BY DEF EchoInv
<1>1. CASE UNCHANGED vars
  BY <1>0, <1>1 DEF vars
<1>2. ASSUME NEW c \in Client, NEW w \in Worker, Connect(c, w) PROVE TypeOK'
  BY <1>0, <1>2 DEF Connect, server
<1>3. ASSUME NEW c \in Client, Send(c) \/ Shut(c) PROVE TypeOK'
  <2>1. CASE Shut(c)
    BY <1>0, <2>1 DEF Shut, server
  <2>2. CASE Send(c)
    <3>1. csent' = [csent EXCEPT ![c] = @ + 1] /\ csent[c] + 1 \in Nat
      BY <1>0, <2>2 DEF Send
    <3>2. csent' \in [Client -> Nat]
      BY <1>0, <3>1
    <3>3. UNCHANGED <<conns, armed, events, closing, sock, backlog, cst, sread, echo, failed>>
      BY <2>2 DEF Send, server
    <3> QED
      BY <1>0, <3>2, <3>3
  <2> QED
    BY <1>3, <2>1, <2>2
<1>4. ASSUME NEW q \in armed, NEW c, NEW fd, Accepts(q, c, fd) PROVE TypeOK'
  <2>1. q \in RequestType /\ <<>> \in Seq(Nat) /\ fd \in Fd /\ fd \in Int
    BY <1>0, <1>4, Sizes DEF Accepts, Fd
  <2>2. Event(q, fd, <<>>) \in EventType
    BY <2>1 DEF RequestType, EventType, Event
  <2>3. events' \subseteq EventType /\ armed' \subseteq RequestType
    BY <1>0, <1>4, <2>2 DEF Accepts
  <2>4. sock' \in [Fd -> Client \cup {NULL}] /\ backlog' \in [Worker -> SUBSET Client]
    BY <1>0, <1>4, <2>1 DEF Accepts, RequestType
  <2> QED
    BY <1>0, <1>4, <2>3, <2>4 DEF Accepts
<1>5. ASSUME NEW q \in armed, NEW ev, Answers(q, ev) PROVE TypeOK'
  <2>1. events' \subseteq EventType /\ armed' \subseteq RequestType
    BY <1>0, <1>5 DEF Answers
  <2>2. sread' \in [Client -> Nat] /\ echo' \in [Client -> Seq(Nat)]
    <3>1. CASE q.type = "accept"
      BY <1>0, <1>5, <3>1 DEF Answers
    <3>2. CASE q.type # "accept"
      <4>1. \A d \in Client : sread'[d] \in Nat /\ echo'[d] \in Seq(Nat)
        BY <1>0, <1>5, <3>2 DEF Answers, Stream
      <4> QED
        BY <1>5, <4>1 DEF Answers
    <3> QED
      BY <3>1, <3>2
  <2> QED
    BY <1>0, <1>5, <2>1, <2>2 DEF Answers
<1>6. ASSUME NEW e \in events, NewServed(e) PROVE TypeOK'
  <2>1. e.w \in Worker
    BY <1>0 DEF EventType
  <2>2. Request(e.w, "accept", Listen, 0) \in RequestType
    BY <2>1, Sizes DEF Request, RequestType, Types
  <2>3. e.result \in Fd => /\ Request(e.w, "read", e.result, 0) \in RequestType
                           /\ NewConn(e.result) \in ConnType
    BY <2>1, NewConnIs, Sizes DEF Request, RequestType, Types
  <2>4. armed' \subseteq RequestType /\ conns' \in [Fd -> ConnType \cup {NULL}]
    <3>1. armed \subseteq RequestType /\ conns \in [Fd -> ConnType \cup {NULL}]
      BY <1>0
    <3>2. CASE UNCHANGED conns /\ armed' = armed \cup {Request(e.w, "accept", Listen, 0)}
      BY <2>2, <3>1, <3>2
    <3>3. CASE /\ e.result \in Fd /\ conns' = [conns EXCEPT ![e.result] = NewConn(e.result)]
               /\ armed' = armed \cup {Request(e.w, "read", e.result, 0),
                                       Request(e.w, "accept", Listen, 0)}
      BY <2>2, <2>3, <3>1, <3>3
    <3> QED
      BY <1>6, <3>2, <3>3 DEF NewServed
  <2>5. events' \subseteq EventType
    BY <1>0, <1>6 DEF NewServed
  <2> QED
    BY <1>0, <1>6, <2>4, <2>5 DEF NewServed, net
<1>7. ASSUME NEW e \in events, Serving(e) PROVE TypeOK'
  <2>0. events' \subseteq EventType /\ UNCHANGED net
    BY <1>0, <1>7 DEF Serving
  <2>1. e.w \in Worker /\ e.fd \in Fd /\ conns[e.fd] \in ConnType
    BY <1>7, WhoseEvent DEF Serving, EventType
  <2>2. CASE Drops
    BY <1>0, <2>0, <2>2 DEF Drops, net
  <2>3. CASE Closes(e)
    <3>1. [conns[e.fd] EXCEPT !.fd = -1] \in ConnType
      BY <2>1 DEF ConnType
    <3>2. conns' = [conns EXCEPT ![e.fd] = [conns[e.fd] EXCEPT !.fd = -1]]
      BY <1>0, <2>1, <2>3 DEF Closes
    <3>3. conns' \in [Fd -> ConnType \cup {NULL}]
      BY <1>0, <3>1, <3>2
    <3>4. closing' \in [Worker -> [step : {"none", "clear", "close"}, fd : Fd \cup {Listen}]]
      BY <1>0, <2>1, <2>3 DEF Closes
    <3> QED
      BY <1>0, <2>0, <2>3, <3>3, <3>4 DEF Closes, net
  <2>4. ASSUME NEW conn, NEW t, NEW from, Serves(e, conn, t, from) PROVE TypeOK'
    <3>1. Request(e.w, t, e.fd, from) \in RequestType
      BY <2>1, <2>4 DEF Serves, Request, RequestType, Types
    <3>2. conns' \in [Fd -> ConnType \cup {NULL}] /\ armed' \subseteq RequestType
      BY <1>0, <2>4, <3>1 DEF Serves
    <3> QED
      BY <1>0, <2>0, <2>4, <3>2 DEF Serves, net
  <2> QED
    BY <1>7, <2>2, <2>3, <2>4 DEF Serving
<1>8. ASSUME NEW w \in Worker, Clears(w) PROVE TypeOK'
  <2>1. conns' \in [Fd -> ConnType \cup {NULL}]
    BY <1>0, <1>8 DEF Clears
  <2>2. closing' \in [Worker -> [step : {"none", "clear", "close"}, fd : Fd \cup {Listen}]]
    <3>1. closing[w] \in [step : {"none", "clear", "close"}, fd : Fd \cup {Listen}]
      BY <1>0
    <3>2. [closing[w] EXCEPT !.step = "close"]
            \in [step : {"none", "clear", "close"}, fd : Fd \cup {Listen}]
      BY <3>1
    <3>3. closing' = [closing EXCEPT ![w] = [closing[w] EXCEPT !.step = "close"]]
      BY <1>0, <1>8 DEF Clears
    <3> QED
      BY <1>0, <3>2, <3>3
  <2> QED
    BY <1>0, <1>8, <2>1, <2>2 DEF Clears, net
<1>9. ASSUME NEW w \in Worker, Frees(w) PROVE TypeOK'
  BY <1>0, <1>9 DEF Frees, Idle
<1> QED
  BY <1>1, <1>2, <1>3, <1>4, <1>5, <1>6, <1>7, <1>8, <1>9, StepKinds

-----------------------------------------------------------------------------
(* One owner *)

LEMMA OwnInit == Init => OwnInv
<1> SUFFICES ASSUME Init PROVE OwnInv
  OBVIOUS
<1>1. RequestsOwn /\ EventsOwn /\ OneInFlight
  BY DEF Init, Request, RequestsOwn, EventsOwn, OneInFlight
<1>2. SocketsOwn /\ ClosersOwn
  BY DEF Init, SocketsOwn, ClosersOwn
<1> QED
  BY <1>1, <1>2 DEF OwnInv

\* What is neither an accept nor new is of another connection.
LEMMA AcceptsOwn ==
    ASSUME EchoInv, NEW q \in armed, NEW c, NEW fd, Accepts(q, c, fd)
    PROVE  OwnInv'
<1> DEFINE ev == Event(q, fd, <<>>)
<1>0. /\ sock \in [Fd -> Client \cup {NULL}] /\ c # NULL /\ fd \in Fd /\ sock[fd] = NULL
      /\ sock' = [sock EXCEPT ![fd] = c] /\ conns[fd] = NULL
      /\ q.w \in Worker
  BY Sizes, WhoseRequest DEF EchoInv, TypeOK, Accepts, OwnInv, SocketsOwn
<1>1. /\ armed' = armed \ {q} /\ events' = events \cup {ev} /\ UNCHANGED <<conns, closing>>
  BY DEF Accepts
<1>2. ev.type = "accept" /\ ev.result = fd
  BY DEF Event, Accepts
<1> HIDE DEF ev
<1>3. RequestsOwn'
  BY <1>1 DEF EchoInv, OwnInv, RequestsOwn
<1>4. \A w \in Worker : closing[w].fd # fd
  <2> SUFFICES ASSUME NEW w \in Worker, closing[w].fd = fd PROVE FALSE
    OBVIOUS
  <2>1. closing[w] = Idle
    BY <1>0 DEF EchoInv, OwnInv, ClosersOwn
  <2> QED
    BY <1>0, <2>1, Sizes DEF Idle, Fd, Listen
<1>5. EventsOwn'
  <2> SUFFICES ASSUME NEW e \in events'
      PROVE  /\ e.type # "accept" => e.fd \in Fd /\ conns[e.fd] # NULL /\ conns[e.fd].fd = e.fd
             /\ e.type = "accept" /\ e.result # -1 =>
                  /\ e.result \in Fd /\ sock'[e.result] # NULL /\ conns[e.result] = NULL
                  /\ \A w \in Worker : closing[w].fd # e.result
    BY <1>1 DEF EventsOwn
  <2>1. CASE e \in events
    BY <1>0, <2>1 DEF EchoInv, OwnInv, EventsOwn
  <2>2. CASE e = ev
    BY <1>0, <1>2, <1>4, <2>2
  <2> QED
    BY <1>1, <2>1, <2>2
<1>6. OneInFlight'
  <2>1. \A d \in events : d.type = "accept" => d.result # fd
    <3> SUFFICES ASSUME NEW d \in events, d.type = "accept", d.result = fd PROVE FALSE
      OBVIOUS
    <3>1. fd # -1
      BY <1>0, Sizes DEF Fd
    <3> QED
      BY <1>0, <3>1 DEF EchoInv, OwnInv, EventsOwn
  <2> QED
    BY <1>1, <1>2, <2>1 DEF EchoInv, OwnInv, OneInFlight
<1>7. SocketsOwn' /\ ClosersOwn'
  BY <1>0, <1>1 DEF EchoInv, OwnInv, SocketsOwn, ClosersOwn
<1> QED
  BY <1>3, <1>5, <1>6, <1>7 DEF OwnInv

LEMMA AnswersOwn ==
    ASSUME EchoInv, NEW q \in armed, NEW ev, Answers(q, ev)
    PROVE  OwnInv'
<1>1. /\ armed' = armed \ {q} /\ events' = events \cup {ev} /\ ev.type = q.type
      /\ ev.fd = q.fd /\ UNCHANGED <<conns, closing, sock>>
      /\ q.type = "accept" => ev.result = -1
  BY DEF Answers
<1>2. RequestsOwn' /\ SocketsOwn' /\ ClosersOwn'
  BY <1>1 DEF EchoInv, OwnInv, RequestsOwn, SocketsOwn, ClosersOwn
<1>3. EventsOwn'
  BY <1>1 DEF EchoInv, OwnInv, EventsOwn, RequestsOwn
<1>4. OneInFlight'
  <2> USE <1>1 DEF EchoInv, OwnInv, OneInFlight
  <2>1. \A p \in armed' : p.type # "accept" /\ q.type # "accept" => p.fd # q.fd
    OBVIOUS
  <2>2. \A e \in events : e.type # "accept" /\ q.type # "accept" => e.fd # q.fd
    OBVIOUS
  <2>3. \A d, e \in events' : d.type # "accept" /\ e.type # "accept" /\ d.fd = e.fd => d = e
    BY <2>2
  <2>4. \A p \in armed', e \in events' : p.type # "accept" /\ e.type # "accept" => p.fd # e.fd
    BY <2>1
  <2>5. \A d, e \in events' : d.type = "accept" /\ e.type = "accept" /\ d.result = e.result
                                /\ d.result \in Fd => d = e
    BY Sizes DEF Fd
  <2> QED
    BY <2>3, <2>4, <2>5
<1> QED
  BY <1>2, <1>3, <1>4 DEF OwnInv

\* A descriptor whose connection has an event is used by nobody else.
LEMMA NobodyElse ==
    ASSUME EchoInv, NEW e \in events, e.type # "accept"
    PROVE  /\ \A q \in armed : q.type # "accept" => q.fd # e.fd
           /\ \A d \in events \ {e} : d.type # "accept" => d.fd # e.fd
           /\ \A d \in events : d.type = "accept" => d.result # e.fd
           /\ \A w \in Worker : closing[w].fd # e.fd
           /\ e.w \in Worker /\ e.fd \in Fd /\ conns[e.fd].fd = e.fd /\ conns[e.fd] # NULL
           /\ sock[e.fd] # NULL
<1>1. /\ e.w \in Worker /\ e.fd \in Fd /\ conns[e.fd].fd = e.fd /\ conns[e.fd] # NULL
      /\ sock[e.fd] # NULL
  BY WhoseEvent, Sizes DEF EventType
<1>2. \A q \in armed : q.type # "accept" => q.fd # e.fd
  BY DEF EchoInv, OwnInv, OneInFlight
<1>3. \A d \in events \ {e} : d.type # "accept" => d.fd # e.fd
  BY DEF EchoInv, OwnInv, OneInFlight
<1>4. e.fd # -1 /\ e.fd # Listen
  BY <1>1, Sizes DEF Fd, Listen
<1>5. \A d \in events : d.type = "accept" => d.result # e.fd
  BY <1>1, <1>4 DEF EchoInv, OwnInv, EventsOwn
<1>6. ASSUME NEW w \in Worker, closing[w].fd = e.fd PROVE FALSE
  <2>1. CASE closing[w] = Idle
    BY <1>4, <1>6, <2>1 DEF Idle
  <2>2. CASE closing[w] # Idle
    BY <1>1, <1>4, <1>6, <2>2 DEF EchoInv, OwnInv, ClosersOwn
  <2> QED
    BY <2>1, <2>2
<1> QED
  BY <1>1, <1>2, <1>3, <1>5, <1>6

LEMMA ServingOwn ==
    ASSUME EchoInv, NEW e \in events, Serving(e)
    PROVE  OwnInv'
<1>0. /\ e.type # "accept" /\ events' = events \ {e} /\ closing[e.w] = Idle
      /\ UNCHANGED sock
  BY DEF Serving, net
<1>1. /\ conns \in [Fd -> ConnType \cup {NULL}]
      /\ closing \in [Worker -> [step : {"none", "clear", "close"}, fd : Fd \cup {Listen}]]
      /\ conns[e.fd] \in ConnType
  BY <1>0, WhoseEvent DEF EchoInv, TypeOK
<1> USE NobodyElse DEF EchoInv, OwnInv
<1>2. CASE Drops
  BY <1>0, <1>2 DEF Drops, RequestsOwn, EventsOwn, OneInFlight, SocketsOwn, ClosersOwn
<1>3. CASE Closes(e)
  <2>1. /\ armed' = armed
        /\ \A fd \in Fd \ {e.fd} : conns'[fd] = conns[fd]
        /\ conns'[e.fd] # NULL /\ conns'[e.fd].fd = -1
    <3>1. conns' = [conns EXCEPT ![e.fd] = [conns[e.fd] EXCEPT !.fd = -1]]
      BY <1>0, <1>1, <1>3 DEF Closes
    <3>2. [conns[e.fd] EXCEPT !.fd = -1] \in ConnType /\ [conns[e.fd] EXCEPT !.fd = -1].fd = -1
      BY <1>1 DEF ConnType
    <3> QED
      BY <1>0, <1>1, <1>3, <3>1, <3>2, Sizes DEF Closes
  <2>2. /\ \A w \in Worker \ {e.w} : closing'[w] = closing[w]
        /\ closing'[e.w] = [step |-> "clear", fd |-> e.fd]
    BY <1>0, <1>1, <1>3 DEF Closes
  <2>3. RequestsOwn' /\ SocketsOwn'
    BY <1>0, <2>1 DEF RequestsOwn, SocketsOwn
  <2>4. EventsOwn'
    BY <1>0, <2>1, <2>2 DEF EventsOwn
  <2>5. OneInFlight'
    BY <1>0, <2>1 DEF OneInFlight
  <2>6. ClosersOwn'
    <3>1. ASSUME NEW w \in Worker, w # e.w, closing[w] # Idle
          PROVE  /\ closing[w].fd \in Fd /\ closing[w].fd # e.fd
                 /\ conns'[closing[w].fd] = conns[closing[w].fd]
      BY <1>0, <2>1, <3>1 DEF ClosersOwn
    <3>2. closing'[e.w].fd = e.fd /\ closing'[e.w].step = "clear"
      BY <2>2
    <3> QED
      BY <1>0, <2>1, <2>2, <3>1, <3>2 DEF ClosersOwn
  <2> QED
    BY <2>3, <2>4, <2>5, <2>6
<1>4. ASSUME NEW conn, NEW t, NEW from, Serves(e, conn, t, from) PROVE OwnInv'
  <2> DEFINE r == Request(e.w, t, e.fd, from)
  <2>1. /\ armed' = armed \cup {r} /\ UNCHANGED closing
        /\ \A fd \in Fd \ {e.fd} : conns'[fd] = conns[fd]
        /\ conns'[e.fd] # NULL /\ conns'[e.fd].fd = e.fd
    BY <1>0, <1>1, <1>4, Sizes DEF Serves
  <2>2. r.fd = e.fd /\ r.type # "accept"
    BY <1>4 DEF Request, Serves
  <2> HIDE DEF r
  <2>3. RequestsOwn' /\ SocketsOwn'
    BY <1>0, <2>1, <2>2 DEF RequestsOwn, SocketsOwn
  <2>4. EventsOwn'
    BY <1>0, <2>1, <2>2 DEF EventsOwn
  <2>5. OneInFlight'
    BY <1>0, <2>1, <2>2 DEF OneInFlight
  <2>6. ClosersOwn'
    BY <1>0, <2>1 DEF ClosersOwn
  <2> QED
    BY <2>3, <2>4, <2>5, <2>6
<1> QED
  BY <1>2, <1>3, <1>4 DEF Serving

\* The descriptor that accept4 returned is nobody's yet.
LEMMA NewApart ==
    ASSUME EchoInv, NEW e \in events, e.type = "accept", e.result \in Fd
    PROVE  /\ sock[e.result] # NULL /\ conns[e.result] = NULL
           /\ \A w \in Worker : closing[w].fd # e.result
           /\ \A q \in armed : q.type # "accept" => q.fd # e.result
           /\ \A d \in events : d.type # "accept" => d.fd # e.result
           /\ \A d \in events \ {e} : d.type = "accept" => d.result # e.result
<1> USE DEF EchoInv, OwnInv
<1>1. /\ sock[e.result] # NULL /\ conns[e.result] = NULL
      /\ \A w \in Worker : closing[w].fd # e.result
  <2>1. e.result # -1
    BY Sizes DEF Fd
  <2> QED
    BY <2>1 DEF EventsOwn
<1>2. /\ \A q \in armed : q.type # "accept" => q.fd # e.result
      /\ \A d \in events : d.type # "accept" => d.fd # e.result
      /\ \A d \in events \ {e} : d.type = "accept" => d.result # e.result
  BY <1>1 DEF RequestsOwn, EventsOwn, OneInFlight
<1> QED
  BY <1>1, <1>2

LEMMA NewServedOwn ==
    ASSUME EchoInv, NEW e \in events, NewServed(e)
    PROVE  OwnInv'
<1>0. /\ e.type = "accept" /\ events' = events \ {e} /\ UNCHANGED <<sock, closing>>
      /\ conns \in [Fd -> ConnType \cup {NULL}]
  BY DEF NewServed, net, EchoInv, TypeOK
<1> USE DEF EchoInv, OwnInv
<1> DEFINE a == Request(e.w, "accept", Listen, 0)
           r == Request(e.w, "read", e.result, 0)
<1>1. a.type = "accept" /\ r.type # "accept" /\ r.fd = e.result
  BY DEF Request
<1>2. \/ UNCHANGED conns /\ armed' = armed \cup {a}
      \/ /\ e.result \in Fd /\ armed' = armed \cup {r, a}
         /\ conns' = [conns EXCEPT ![e.result] = NewConn(e.result)]
  BY DEF NewServed
<1> HIDE DEF a, r
<1>3. CASE UNCHANGED conns /\ armed' = armed \cup {a}
  BY <1>0, <1>1, <1>3 DEF RequestsOwn, EventsOwn, OneInFlight, SocketsOwn, ClosersOwn
<1>4. CASE /\ e.result \in Fd /\ armed' = armed \cup {r, a}
           /\ conns' = [conns EXCEPT ![e.result] = NewConn(e.result)]
  <2>1. /\ \A fd \in Fd \ {e.result} : conns'[fd] = conns[fd]
        /\ conns'[e.result] # NULL /\ conns'[e.result].fd = e.result
    BY <1>0, <1>4, NewConnIs, Sizes
  <2>2. /\ sock[e.result] # NULL /\ conns[e.result] = NULL
        /\ \A w \in Worker : closing[w].fd # e.result
    BY <1>0, <1>4, NewApart
  <2>3. /\ \A q \in armed : q.type # "accept" => q.fd # e.result
        /\ \A d \in events : d.type # "accept" => d.fd # e.result
        /\ \A d \in events \ {e} : d.type = "accept" => d.result # e.result
    BY <1>0, <1>4, NewApart
  <2>4. RequestsOwn' /\ SocketsOwn'
    BY <1>0, <1>1, <1>4, <2>1, <2>2, <2>3 DEF RequestsOwn, SocketsOwn
  <2>5. EventsOwn'
    BY <1>0, <2>1, <2>3 DEF EventsOwn
  <2>6. OneInFlight'
    BY <1>0, <1>1, <1>4, <2>3 DEF OneInFlight
  <2>7. ClosersOwn'
    BY <1>0, <2>1, <2>2 DEF ClosersOwn
  <2> QED
    BY <2>4, <2>5, <2>6, <2>7
<1> QED
  BY <1>2, <1>3, <1>4

\* While on_close runs, the descriptor it closes is its worker's alone.
LEMMA CloserApart ==
    ASSUME EchoInv, NEW w \in Worker, closing[w] # Idle, NEW fd, fd = closing[w].fd
    PROVE  /\ fd \in Fd /\ sock[fd] # NULL
           /\ \A v \in Worker \ {w} : closing[v].fd # fd
           /\ \A q \in armed : q.type # "accept" => q.fd # fd
           /\ \A e \in events : e.type # "accept" => e.fd # fd
           /\ \A e \in events : e.type = "accept" => e.result # fd
<1> USE DEF EchoInv, OwnInv
<1>1. /\ fd \in Fd /\ sock[fd] # NULL /\ fd # -1
      /\ \A v \in Worker \ {w} : closing[v].fd # fd
  BY Sizes DEF ClosersOwn, Fd
<1>2. closing \in [Worker -> [step : {"none", "clear", "close"}, fd : Fd \cup {Listen}]]
  BY DEF TypeOK
<1>3. conns[fd] = NULL \/ conns[fd].fd # fd
  BY <1>1, <1>2 DEF ClosersOwn
<1>4. /\ \A q \in armed : q.type # "accept" => q.fd # fd
      /\ \A e \in events : e.type # "accept" => e.fd # fd
  BY <1>3 DEF RequestsOwn, EventsOwn
<1>5. \A e \in events : e.type = "accept" => e.result # fd
  BY <1>1 DEF EventsOwn
<1> QED
  BY <1>1, <1>4, <1>5

LEMMA CloserOwn ==
    ASSUME EchoInv, NEW w \in Worker, Clears(w) \/ Frees(w)
    PROVE  OwnInv'
<1> DEFINE fd == closing[w].fd
<1> USE DEF EchoInv, OwnInv
<1>0. /\ UNCHANGED <<armed, events>>
      /\ conns \in [Fd -> ConnType \cup {NULL}] /\ sock \in [Fd -> Client \cup {NULL}]
      /\ closing \in [Worker -> [step : {"none", "clear", "close"}, fd : Fd \cup {Listen}]]
      /\ closing[w] # Idle
  BY DEF Clears, Frees, Idle, TypeOK
<1>1. /\ fd \in Fd /\ sock[fd] # NULL
      /\ \A v \in Worker \ {w} : closing[v].fd # fd
      /\ \A q \in armed : q.type # "accept" => q.fd # fd
      /\ \A e \in events : e.type # "accept" => e.fd # fd
      /\ \A e \in events : e.type = "accept" => e.result # fd
  BY <1>0, CloserApart
<1>2. OneInFlight'
  BY <1>0 DEF OneInFlight
<1>3. CASE Clears(w)
  <2>1. /\ UNCHANGED sock /\ conns'[fd] = NULL
        /\ \A gd \in Fd \ {fd} : conns'[gd] = conns[gd]
    BY <1>0, <1>1, <1>3 DEF Clears, net
  <2>2. /\ \A v \in Worker \ {w} : closing'[v] = closing[v]
        /\ closing'[w].fd = fd /\ closing'[w].step = "close"
    <3>1. closing' = [closing EXCEPT ![w] = [closing[w] EXCEPT !.step = "close"]]
      BY <1>0, <1>3 DEF Clears
    <3>2. /\ [closing[w] EXCEPT !.step = "close"].fd = fd
          /\ [closing[w] EXCEPT !.step = "close"].step = "close"
      BY <1>0
    <3> QED
      BY <1>0, <3>1, <3>2
  <2>3. RequestsOwn' /\ SocketsOwn'
    BY <1>0, <1>1, <2>1 DEF RequestsOwn, SocketsOwn
  <2>4. EventsOwn'
    BY <1>0, <1>1, <2>1, <2>2 DEF EventsOwn
  <2>5. ClosersOwn'
    <3>1. \A v \in Worker \ {w} : closing[v] # Idle =>
            closing[v].fd \in Fd \ {fd} /\ conns'[closing[v].fd] = conns[closing[v].fd]
      BY <1>1, <2>1 DEF ClosersOwn
    <3> QED
      BY <1>0, <1>1, <2>1, <2>2, <3>1 DEF ClosersOwn
  <2> QED
    BY <1>2, <2>3, <2>4, <2>5
<1>4. CASE Frees(w)
  <2>1. /\ UNCHANGED conns /\ conns[fd] = NULL
        /\ \A gd \in Fd \ {fd} : sock'[gd] = sock[gd]
    BY <1>0, <1>1, <1>4 DEF Frees, ClosersOwn
  <2>2. /\ \A v \in Worker \ {w} : closing'[v] = closing[v]
        /\ closing'[w] = Idle /\ Idle.fd = Listen
    BY <1>0, <1>4 DEF Frees, Idle
  <2>3. RequestsOwn' /\ SocketsOwn'
    BY <1>0, <1>1, <2>1 DEF RequestsOwn, SocketsOwn
  <2>4. EventsOwn'
    <3>1. Listen \notin Fd
      BY Sizes DEF Fd, Listen
    <3> QED
      BY <1>0, <1>1, <2>1, <2>2, <3>1 DEF EventsOwn
  <2>5. ClosersOwn'
    <3>1. Listen \notin Fd
      BY Sizes DEF Fd, Listen
    <3>2. \A v \in Worker \ {w} : closing[v] # Idle =>
            closing[v].fd \in Fd \ {fd} /\ sock'[closing[v].fd] = sock[closing[v].fd]
      BY <1>1, <2>1 DEF ClosersOwn
    <3> QED
      BY <1>0, <1>1, <2>1, <2>2, <3>1, <3>2 DEF ClosersOwn
  <2> QED
    BY <1>2, <2>3, <2>4, <2>5
<1> QED
  BY <1>3, <1>4

LEMMA OwnStep ==
    ASSUME EchoInv, [Next]_vars
    PROVE  OwnInv'
<1>1. ASSUME UNCHANGED <<conns, armed, events, closing, sock>> PROVE OwnInv'
  BY <1>1 DEF EchoInv, OwnInv, RequestsOwn, EventsOwn, OneInFlight, SocketsOwn, ClosersOwn
<1>2. \A c \in Client, w \in Worker :
        Connect(c, w) => UNCHANGED <<conns, armed, events, closing, sock>>
  BY DEF Connect, server
<1>3. UNCHANGED vars => UNCHANGED <<conns, armed, events, closing, sock>>
  BY DEF vars
<1>4. \A c \in Client :
        Send(c) \/ Shut(c) => UNCHANGED <<conns, armed, events, closing, sock>>
  BY DEF Send, Shut, server
<1> QED
  BY <1>1, <1>2, <1>3, <1>4, StepKinds, AcceptsOwn, AnswersOwn, ServingOwn, NewServedOwn,
     CloserOwn

\* The invariant in the terms of the property.
LEMMA OwnedByOne == EchoInv => OneOwner
<1> SUFFICES ASSUME EchoInv, NEW fd \in Fd
    PROVE  /\ OnFd(fd) # {} => conns[fd] # NULL /\ conns[fd].fd = fd
           /\ conns[fd] # NULL => sock[fd] # NULL
           /\ Accepting(fd) => sock[fd] # NULL /\ conns[fd] = NULL
           /\ Cardinality(OnFd(fd)) <= 1
           /\ Closing(fd) => OnFd(fd) = {}
           /\ \A v, w \in Worker : v # w /\ closing[v] # Idle => closing[v].fd # closing[w].fd
  BY DEF OneOwner
<1> USE DEF EchoInv, OwnInv
<1>1. OnFd(fd) # {} => conns[fd] # NULL /\ conns[fd].fd = fd
  BY DEF OnFd, InFlight, RequestsOwn, EventsOwn
<1>2. conns[fd] # NULL => sock[fd] # NULL
  BY DEF SocketsOwn
<1>3. fd # -1
  BY Sizes DEF Fd
<1>4. Accepting(fd) => sock[fd] # NULL /\ conns[fd] = NULL
  BY <1>3 DEF Accepting, EventsOwn
<1>5. Cardinality(OnFd(fd)) <= 1
  <2>1. CASE OnFd(fd) = {}
    <3>1. Cardinality({}) = 0
      BY FS_EmptySet
    <3>2. Cardinality(OnFd(fd)) = 0
      BY <2>1, <3>1
    <3> QED
      BY <3>2
  <2>2. CASE OnFd(fd) # {}
    <3>1. PICK x : x \in OnFd(fd)
      BY <2>2
    <3>2. ASSUME NEW y \in OnFd(fd) PROVE y = x
      <4>1. /\ x \in armed \/ x \in events
            /\ y \in armed \/ y \in events
        BY <3>1 DEF OnFd, InFlight
      <4>2. x.type # "accept" /\ y.type # "accept" /\ x.fd = y.fd
        BY <3>1 DEF OnFd
      <4>3. /\ x \in armed /\ y \in armed => x = y
            /\ x \in events /\ y \in events => x = y
            /\ ~(x \in armed /\ y \in events) /\ ~(y \in armed /\ x \in events)
        BY <4>2 DEF OneInFlight
      <4> QED
        BY <4>1, <4>3
    <3>3. OnFd(fd) = {x}
      BY <3>1, <3>2
    <3>4. Cardinality({x}) = 1
      BY FS_Singleton
    <3>5. Cardinality(OnFd(fd)) = 1
      BY <3>3, <3>4
    <3> QED
      BY <3>5
  <2> QED
    BY <2>1, <2>2
<1>6. Closing(fd) => OnFd(fd) = {}
  BY <1>1, <1>3 DEF Closing, ClosersOwn
<1>7. \A v, w \in Worker : v # w /\ closing[v] # Idle => closing[v].fd # closing[w].fd
  BY DEF ClosersOwn
<1> QED
  BY <1>1, <1>2, <1>4, <1>5, <1>6, <1>7

-----------------------------------------------------------------------------
(* The streams *)

LEMMA DataInit == Init => DataInv
<1> SUFFICES ASSUME Init PROVE DataInv
  OBVIOUS
<1>1. OnePlace
  BY Sizes DEF Init, OnePlace
<1>2. RequestsAt /\ EventsAt
  BY DEF Init, Request, RequestsAt, EventsAt
<1>3. NewAt
  BY Sizes DEF Init, NewAt, Fresh
<1>4. Buffers
  BY DEF Init, Buffers
<1>5. Streams
  <2>1. Len(<<>>) = 0 /\ DOMAIN <<>> = {}
    OBVIOUS
  <2> QED
    BY <2>1 DEF Init, Streams, EchoPrefix
<1> QED
  BY <1>1, <1>2, <1>3, <1>4, <1>5 DEF DataInv

\* What is in flight of a connection that does not move stays where it is.
Still(fd) ==
    /\ conns'[fd] = conns[fd] /\ sock'[fd] = sock[fd]
    /\ csent'[sock[fd]] = csent[sock[fd]] /\ sread'[sock[fd]] = sread[sock[fd]]
    /\ cst'[sock[fd]] = cst[sock[fd]] /\ echo'[sock[fd]] = echo[sock[fd]]

LEMMA StillAt ==
    ASSUME EchoInv
    PROVE  /\ \A q \in armed : q.type # "accept" /\ Still(q.fd) => RequestAt(q, sock[q.fd])'
           /\ \A e \in events : e.type # "accept" /\ Still(e.fd) => EventAt(e, sock[e.fd])'
<1>1. ASSUME NEW q \in armed, q.type # "accept", Still(q.fd)
      PROVE  RequestAt(q, sock[q.fd])'
  <2>1. RequestAt(q, sock[q.fd])
    BY <1>1 DEF EchoInv, DataInv, RequestsAt
  <2> QED
    BY <1>1, <2>1 DEF RequestAt, Still
<1>2. ASSUME NEW e \in events, e.type # "accept", Still(e.fd)
      PROVE  EventAt(e, sock[e.fd])'
  <2>1. EventAt(e, sock[e.fd])
    BY <1>2 DEF EchoInv, DataInv, EventsAt
  <2> QED
    BY <1>2, <2>1 DEF EventAt, Still
<1> QED
  BY <1>1, <1>2

\* The descriptor of a request or an event, and its client.
LEMMA InFlightFd ==
    ASSUME EchoInv
    PROVE  /\ \A q \in armed : q.type # "accept" => q.fd \in Fd /\ sock[q.fd] \in Client
           /\ \A e \in events : e.type # "accept" => e.fd \in Fd /\ sock[e.fd] \in Client
           /\ \A e \in events : e.type = "accept" /\ e.result # -1 =>
                e.result \in Fd /\ sock[e.result] \in Client
BY WhoseRequest, WhoseEvent DEF EchoInv, OwnInv, EventsOwn, TypeOK

LEMMA ConnectData ==
    ASSUME EchoInv, NEW c \in Client, NEW w \in Worker, Connect(c, w)
    PROVE  DataInv'
<1>1. /\ cst[c] = "idle" /\ cst' = [cst EXCEPT ![c] = "open"]
      /\ backlog' = [backlog EXCEPT ![w] = @ \cup {c}]
      /\ UNCHANGED <<conns, armed, events, closing, sock, csent, sread, echo>>
      /\ cst \in [Client -> {"idle", "open", "shut"}]
      /\ backlog \in [Worker -> SUBSET Client]
  BY DEF Connect, server, EchoInv, TypeOK
<1>2. \A fd \in Fd : sock[fd] # c
  BY <1>1 DEF EchoInv, DataInv, OnePlace
<1>3. \A fd \in Fd : sock[fd] \in Client => Still(fd)
  BY <1>1, <1>2 DEF Still
<1>4. RequestsAt' /\ EventsAt'
  BY <1>1, <1>3, StillAt, InFlightFd DEF RequestsAt, EventsAt
<1>5. OnePlace'
  BY <1>1 DEF EchoInv, DataInv, OnePlace
<1>6. NewAt'
  BY <1>1 DEF EchoInv, DataInv, NewAt
<1>7. Buffers' /\ Streams'
  BY <1>1 DEF EchoInv, DataInv, Buffers, Streams, EchoPrefix
<1> QED
  BY <1>4, <1>5, <1>6, <1>7 DEF DataInv

\* A client that leaves gets no more, and nobody has to know.
LEMMA ShutData ==
    ASSUME EchoInv, NEW c \in Client, Shut(c)
    PROVE  DataInv'
<1>1. /\ cst[c] = "open" /\ cst' = [cst EXCEPT ![c] = "shut"]
      /\ UNCHANGED <<conns, armed, events, closing, sock, backlog, csent, sread, echo>>
      /\ cst \in [Client -> {"idle", "open", "shut"}]
  BY DEF Shut, server, EchoInv, TypeOK
<1>2. \A d \in Client : (cst'[d] = "open" => cst[d] = "open") /\ (cst'[d] = "idle" => cst[d] = "idle")
  BY <1>1
<1>3. RequestsAt'
  <2> SUFFICES ASSUME NEW q \in armed, q.type # "accept" PROVE RequestAt(q, sock[q.fd])'
    BY <1>1 DEF RequestsAt
  <2>1. RequestAt(q, sock[q.fd]) /\ sock[q.fd] \in Client
    BY InFlightFd DEF EchoInv, DataInv, RequestsAt
  <2> QED
    BY <1>1, <1>2, <2>1 DEF RequestAt, Reading, Writing
<1>4. EventsAt'
  <2> SUFFICES ASSUME NEW e \in events, e.type # "accept" PROVE EventAt(e, sock[e.fd])'
    BY <1>1 DEF EventsAt
  <2>1. EventAt(e, sock[e.fd]) /\ sock[e.fd] \in Client
    BY InFlightFd DEF EchoInv, DataInv, EventsAt
  <2> QED
    BY <1>1, <1>2, <2>1 DEF EventAt, HasRead, HasWritten
<1>5. OnePlace' /\ NewAt'
  BY <1>1, <1>2 DEF EchoInv, DataInv, OnePlace, NewAt
<1>6. Buffers' /\ Streams'
  BY <1>1 DEF EchoInv, DataInv, Buffers, Streams, EchoPrefix
<1> QED
  BY <1>3, <1>4, <1>5, <1>6 DEF DataInv

\* A client sends no more than the message it is at.
LEMMA SendData ==
    ASSUME EchoInv, NEW c \in Client, Send(c)
    PROVE  DataInv'
<1>1. /\ cst[c] = "open" /\ csent' = [csent EXCEPT ![c] = @ + 1]
      /\ csent[c] < msg_size * (1 + Len(echo[c]) \div msg_size)
      /\ UNCHANGED <<conns, armed, events, closing, sock, backlog, cst, sread, echo>>
      /\ csent \in [Client -> Nat] /\ sread \in [Client -> Nat] /\ echo \in [Client -> Seq(Nat)]
  BY DEF Send, server, EchoInv, TypeOK
<1>2. csent'[c] = csent[c] + 1 /\ \A d \in Client : d # c => csent'[d] = csent[d]
  BY <1>1
<1>3. \A fd \in Fd : sock[fd] \in Client /\ sock[fd] # c => Still(fd)
  BY <1>1, <1>2 DEF Still
<1>4. ASSUME NEW base \in Messages, NEW r \in 0 .. msg_size - 1, Len(echo[c]) = base + r
      PROVE  csent'[c] <= base + msg_size
  <2>1. csent[c] < base + msg_size
    BY <1>1, <1>4, SendBound
  <2>2. base \in Nat /\ csent[c] \in Nat
    BY <1>1, MessagesAdd
  <2> QED
    BY <1>2, <2>1, <2>2, Sizes
<1>5. 0 \in 0 .. msg_size - 1 /\ \A base \in Messages : base \in Nat /\ base + 0 = base
  BY MessagesAdd, Sizes
<1>6. RequestsAt'
  <2> SUFFICES ASSUME NEW q \in armed, q.type # "accept" PROVE RequestAt(q, sock[q.fd])'
    BY <1>1 DEF RequestsAt
  <2>1. RequestAt(q, sock[q.fd]) /\ sock[q.fd] \in Client /\ q.fd \in Fd
    BY InFlightFd DEF EchoInv, DataInv, RequestsAt
  <2>2. CASE sock[q.fd] # c
    BY <1>3, <2>1, <2>2, StillAt
  <2>3. CASE sock[q.fd] = c /\ q.type = "read"
    <3>1. Reading(conns[q.fd], csent[c], sread[c], cst[c], echo[c])
      BY <2>1, <2>3 DEF RequestAt
    <3>2. Reading(conns[q.fd], csent'[c], sread[c], cst[c], echo[c])
      BY <1>1, <1>4, <1>5, <3>1 DEF Reading
    <3> QED
      BY <1>1, <2>3, <3>2 DEF RequestAt
  <2>4. CASE sock[q.fd] = c /\ q.type = "write"
    <3>1. Writing(conns[q.fd], q.from, csent[c], sread[c], cst[c], echo[c])
      BY <2>1, <2>4 DEF RequestAt
    <3>2. q.from \in 0 .. msg_size - 1
      BY WhoseRequest
    <3>3. Writing(conns[q.fd], q.from, csent'[c], sread[c], cst[c], echo[c])
      BY <1>1, <1>4, <3>1, <3>2 DEF Writing
    <3> QED
      BY <1>1, <2>4, <3>3 DEF RequestAt
  <2> QED
    BY <2>2, <2>3, <2>4, WhoseRequest DEF Types
<1>7. EventsAt'
  <2> SUFFICES ASSUME NEW e \in events, e.type # "accept" PROVE EventAt(e, sock[e.fd])'
    BY <1>1 DEF EventsAt
  <2>1. /\ EventAt(e, sock[e.fd]) /\ sock[e.fd] \in Client /\ e.fd \in Fd
        /\ e \in EventType /\ conns[e.fd] \in ConnType
    BY InFlightFd, WhoseEvent DEF EchoInv, DataInv, EventsAt
  <2>2. CASE sock[e.fd] # c
    BY <1>3, <2>1, <2>2, StillAt
  <2>3. ASSUME sock[e.fd] = c,
               HasRead(conns[e.fd], e.data, csent[c], sread[c], cst[c], echo[c])
        PROVE  HasRead(conns[e.fd], e.data, csent'[c], sread[c], cst[c], echo[c])
    BY <1>1, <1>4, <1>5, <2>3 DEF HasRead
  <2>4. ASSUME sock[e.fd] = c, e.result > 0,
               HasWritten(conns[e.fd], e.result, csent[c], sread[c], cst[c], echo[c])
        PROVE  HasWritten(conns[e.fd], e.result, csent'[c], sread[c], cst[c], echo[c])
    <3>1. PICK to : to = conns[e.fd].cursor + e.result
      OBVIOUS
    <3>2. to \in 0 .. msg_size
      BY <2>1, <2>4, <3>1, Sizes DEF ConnType, EventType, HasWritten
    <3>3. PICK base \in Messages :
            /\ sread[c] = base + msg_size
            /\ cst[c] = "open" => Len(echo[c]) = base + conns[e.fd].cursor + e.result
                                    /\ Holds(conns[e.fd], base, msg_size)
      BY <2>4 DEF HasWritten
    <3>4. base \in Nat /\ base + msg_size \in Messages /\ base + msg_size \in Nat
      BY MessagesAdd
    <3>5. Len(echo[c]) = base + to
      <4>1. PICK k \in Nat, n \in Int : k = conns[e.fd].cursor /\ n = e.result
        BY <2>1, Sizes DEF ConnType, EventType
      <4>2. to = k + n /\ Len(echo[c]) = base + k + n
        BY <1>1, <3>1, <3>3, <4>1
      <4> QED
        BY <3>4, <4>2
    <3>6. csent'[c] <= base + msg_size + (IF to < msg_size THEN 0 ELSE msg_size)
      <4>1. CASE to < msg_size
        BY <1>1, <1>2, <1>4, <3>2, <3>4, <3>5, <4>1, Sizes
      <4>2. CASE to = msg_size
        <5>1. PICK next \in Messages : next = base + msg_size
          BY <3>4
        <5>2. Len(echo[c]) = next + 0
          BY <1>5, <3>5, <4>2, <5>1
        <5>3. csent'[c] <= next + msg_size
          BY <1>4, <1>5, <5>1, <5>2, Zenon
        <5> QED
          BY <3>4, <4>2, <5>1, <5>3, Sizes
      <4>3. to < msg_size \/ to = msg_size
        BY <3>2, Sizes
      <4> QED
        BY <4>1, <4>2, <4>3
    <3> QED
      BY <2>4, <3>1, <3>3, <3>6 DEF HasWritten
  <2> QED
    BY <1>1, <2>1, <2>2, <2>3, <2>4 DEF EventAt
<1>8. NewAt'
  <2>1. ASSUME Fresh(csent[c], sread[c], echo[c]) PROVE Fresh(csent'[c], sread[c], echo[c])
    <3>1. 0 \in Messages /\ Len(<<>>) = 0 + 0
      BY MessagesAdd
    <3>2. csent'[c] <= 0 + msg_size
      BY <1>4, <1>5, <2>1, <3>1 DEF Fresh
    <3> QED
      BY <2>1, <3>2, Sizes DEF Fresh
  <2>2. \A d \in Client : Fresh(csent[d], sread[d], echo[d]) => Fresh(csent'[d], sread[d], echo[d])
    BY <1>2, <2>1
  <2>3. \A w \in Worker : backlog[w] \subseteq Client
    BY DEF EchoInv, TypeOK
  <2> QED
    BY <1>1, <2>2, <2>3, InFlightFd DEF EchoInv, DataInv, NewAt
<1>9. OnePlace' /\ Buffers'
  BY <1>1 DEF EchoInv, DataInv, OnePlace, Buffers
<1>10. Streams'
  <2>1. \A d \in Client : csent[d] \in Nat /\ csent'[d] \in Nat /\ csent[d] <= csent'[d]
    BY <1>1, <1>2
  <2>2. \A d \in Client : sread[d] \in Nat /\ Len(echo[d]) \in Nat
    BY <1>1
  <2>3. \A d \in Client : sread[d] <= csent[d] /\ Len(echo[d]) <= csent[d]
                          /\ \A i \in DOMAIN echo[d] : echo[d][i] = i
    BY DEF EchoInv, DataInv, Streams, EchoPrefix
  <2> QED
    BY <1>1, <2>1, <2>2, <2>3 DEF Streams, EchoPrefix
<1> QED
  BY <1>6, <1>7, <1>8, <1>9, <1>10 DEF DataInv

LEMMA AcceptsData ==
    ASSUME EchoInv, NEW q \in armed, NEW c, NEW fd, Accepts(q, c, fd)
    PROVE  DataInv'
<1> DEFINE ev == Event(q, fd, <<>>)
<1>0. /\ backlog \in [Worker -> SUBSET Client] /\ sock \in [Fd -> Client \cup {NULL}]
      /\ q.w \in Worker /\ q.type = "accept"
      /\ c \in Client /\ c \in backlog[q.w] /\ fd \in Fd /\ sock[fd] = NULL
  BY WhoseRequest DEF Accepts, EchoInv, TypeOK
<1>1. /\ armed' = armed \ {q} /\ events' = events \cup {ev}
      /\ sock' = [sock EXCEPT ![fd] = c]
      /\ backlog' = [backlog EXCEPT ![q.w] = @ \ {c}]
      /\ UNCHANGED <<conns, closing, cst, csent, sread, echo>>
  BY DEF Accepts
<1>2. ev.type = "accept" /\ ev.result = fd
  BY <1>0 DEF Event
<1> HIDE DEF ev
<1>3. \A gd \in Fd : sock[gd] \in Client => Still(gd)
  BY <1>0, <1>1, Sizes DEF Still
<1>4. RequestsAt' /\ EventsAt'
  BY <1>1, <1>2, <1>3, StillAt, InFlightFd DEF RequestsAt, EventsAt
<1>5. OnePlace'
  <2>1. cst[c] # "idle" /\ \A v \in Worker : c \in backlog[v] => v = q.w
    BY <1>0 DEF EchoInv, DataInv, OnePlace
  <2>2. \A gd \in Fd : sock[gd] # c
    BY <1>0 DEF EchoInv, DataInv, OnePlace
  <2>3. \A v \in Worker : backlog'[v] = backlog[v] \ {c}
    BY <1>0, <1>1, <2>1
  <2>4. \A gd \in Fd : gd # fd => sock'[gd] = sock[gd]
    BY <1>0, <1>1
  <2>5. sock'[fd] = c
    BY <1>0, <1>1
  <2> QED
    BY <1>1, <2>1, <2>2, <2>3, <2>4, <2>5 DEF EchoInv, DataInv, OnePlace
<1>6. NewAt'
  <2>1. Fresh(csent[c], sread[c], echo[c])
    BY <1>0 DEF EchoInv, DataInv, NewAt
  <2>2. \A v \in Worker : backlog'[v] \subseteq backlog[v]
    BY <1>0, <1>1
  <2>3. \A e \in events : e.type = "accept" /\ e.result # -1 => sock'[e.result] = sock[e.result]
    BY <1>3, InFlightFd DEF Still
  <2>4. sock'[fd] = c
    BY <1>0, <1>1
  <2> QED
    BY <1>1, <1>2, <2>1, <2>2, <2>3, <2>4 DEF EchoInv, DataInv, NewAt
<1>7. Buffers' /\ Streams'
  BY <1>1 DEF EchoInv, DataInv, Buffers, Streams, EchoPrefix
<1> QED
  BY <1>4, <1>5, <1>6, <1>7 DEF DataInv

LEMMA AnswersData ==
    ASSUME EchoInv, NEW q \in armed, NEW ev, Answers(q, ev)
    PROVE  DataInv'
<1>1. /\ armed' = armed \ {q} /\ events' = events \cup {ev} /\ ev.type = q.type
      /\ ev.fd = q.fd /\ UNCHANGED <<conns, closing, sock, backlog, cst, csent>>
      /\ q.type = "accept" => ev.result = -1 /\ UNCHANGED <<sread, echo>>
  BY DEF Answers
<1>2. OnePlace' /\ Buffers'
  BY <1>1 DEF EchoInv, DataInv, OnePlace, Buffers
<1>3. CASE q.type = "accept"
  <2>1. \A fd \in Fd : Still(fd)
    BY <1>1, <1>3 DEF Still
  <2>2. RequestsAt' /\ EventsAt'
    BY <1>1, <1>3, <2>1, StillAt, InFlightFd DEF RequestsAt, EventsAt
  <2>3. NewAt' /\ Streams'
    BY <1>1, <1>3 DEF EchoInv, DataInv, NewAt, Streams, EchoPrefix
  <2> QED
    BY <1>2, <2>2, <2>3 DEF DataInv
<1>4. CASE q.type # "accept"
  <2> DEFINE c == sock[q.fd]
  <2>1. q.fd \in Fd /\ c \in Client
    BY <1>4, InFlightFd
  <2>2. /\ \A d \in Client : d # c => sread'[d] = sread[d] /\ echo'[d] = echo[d]
        /\ Stream(csent[c], sread'[c], echo'[c]) /\ EventAt(ev, c)'
    BY <1>4 DEF Answers
  <2>3. \A fd \in Fd : fd # q.fd /\ sock[fd] \in Client => sock[fd] # c
    BY <2>1 DEF EchoInv, DataInv, OnePlace
  <2>4. \A fd \in Fd : fd # q.fd /\ sock[fd] \in Client => Still(fd)
    BY <1>1, <2>2, <2>3 DEF Still
  <2>5. RequestsAt'
    <3>1. \A p \in armed' : p.type # "accept" => p.fd # q.fd
      BY <1>1, <1>4 DEF EchoInv, OwnInv, OneInFlight
    <3> QED
      BY <1>1, <2>4, <3>1, StillAt, InFlightFd DEF RequestsAt
  <2>6. EventsAt'
    <3>1. \A e \in events : e.type # "accept" => e.fd # q.fd
      BY <1>4 DEF EchoInv, OwnInv, OneInFlight
    <3>2. EventAt(ev, sock[ev.fd])'
      BY <1>1, <2>2
    <3> QED
      BY <1>1, <2>4, <3>1, <3>2, StillAt, InFlightFd DEF EventsAt
  <2>7. NewAt'
    <3>1. cst[c] # "idle" /\ \A w \in Worker : c \notin backlog[w]
      BY <2>1 DEF EchoInv, DataInv, OnePlace
    <3>2. \A w \in Worker : backlog[w] \subseteq Client
      BY DEF EchoInv, TypeOK
    <3>3. \A e \in events : e.type = "accept" /\ e.result # -1 =>
            sock[e.result] # c /\ sock[e.result] \in Client
      <4>1. conns[q.fd] # NULL
        BY <1>4 DEF EchoInv, OwnInv, RequestsOwn
      <4>2. \A e \in events : e.type = "accept" /\ e.result # -1 =>
              e.result \in Fd /\ e.result # q.fd
        BY <4>1 DEF EchoInv, OwnInv, EventsOwn
      <4> QED
        BY <2>3, <4>2, InFlightFd
    <3>4. ev.type # "accept"
      BY <1>1, <1>4
    <3>5. \A d \in Client : d # c /\ Fresh(csent[d], sread[d], echo[d])
                              => Fresh(csent'[d], sread'[d], echo'[d])
      BY <1>1, <2>2
    <3>6. \A d \in Client : cst'[d] = "idle" => Fresh(csent'[d], sread'[d], echo'[d])
      BY <1>1, <3>1, <3>5 DEF EchoInv, DataInv, NewAt
    <3>7. \A w \in Worker : \A d \in backlog'[w] : Fresh(csent'[d], sread'[d], echo'[d])
      BY <1>1, <3>1, <3>2, <3>5 DEF EchoInv, DataInv, NewAt
    <3>8. ASSUME NEW e \in events', e.type = "accept", e.result # -1
          PROVE  Fresh(csent[sock[e.result]], sread[sock[e.result]], echo[sock[e.result]])'
      <4>1. e \in events
        BY <1>1, <3>4, <3>8
      <4>2. Fresh(csent[sock[e.result]], sread[sock[e.result]], echo[sock[e.result]])
        BY <3>8, <4>1 DEF EchoInv, DataInv, NewAt
      <4> QED
        BY <1>1, <3>3, <3>5, <3>8, <4>1, <4>2
    <3> QED
      BY <3>6, <3>7, <3>8 DEF NewAt
  <2>8. Streams'
    <3>1. \A d \in Client : d # c => sread'[d] <= csent'[d] /\ Len(echo'[d]) <= csent'[d]
                                     /\ \A i \in DOMAIN echo'[d] : echo'[d][i] = i
      BY <1>1, <2>2 DEF EchoInv, DataInv, Streams, EchoPrefix
    <3>2. DOMAIN echo'[c] = 1 .. Len(echo'[c])
      BY <2>2 DEF Stream
    <3>3. sread'[c] <= csent'[c] /\ Len(echo'[c]) <= csent'[c]
          /\ \A i \in DOMAIN echo'[c] : echo'[c][i] = i
      BY <1>1, <2>2, <3>2 DEF Stream
    <3> QED
      BY <3>1, <3>3 DEF Streams, EchoPrefix
  <2> QED
    BY <1>2, <2>5, <2>6, <2>7, <2>8 DEF DataInv
<1> QED
  BY <1>3, <1>4

LEMMA ServingData ==
    ASSUME EchoInv, NEW e \in events, Serving(e)
    PROVE  DataInv'
<1>0. /\ e.type # "accept" /\ events' = events \ {e}
      /\ UNCHANGED <<sock, backlog, cst, csent, sread, echo>>
      /\ conns \in [Fd -> ConnType \cup {NULL}]
  BY DEF Serving, net, EchoInv, TypeOK
<1>1. e.fd \in Fd /\ conns[e.fd] \in ConnType /\ Len(conns[e.fd].buffer) = msg_size
  BY <1>0, WhoseEvent
<1>2. OnePlace' /\ Streams' /\ NewAt'
  BY <1>0 DEF EchoInv, DataInv, OnePlace, Streams, EchoPrefix, NewAt
<1>3. ASSUME \A fd \in Fd \ {e.fd} : conns'[fd] = conns[fd]
      PROVE  /\ EventsAt'
             /\ \A q \in armed : q.type # "accept" => RequestAt(q, sock[q.fd])'
  <2>1. \A fd \in Fd \ {e.fd} : Still(fd)
    BY <1>0, <1>3 DEF Still
  <2>2. EventsAt'
    BY <1>0, <2>1, StillAt, InFlightFd, NobodyElse DEF EventsAt
  <2>3. \A q \in armed : q.type # "accept" => RequestAt(q, sock[q.fd])'
    BY <1>0, <2>1, StillAt, InFlightFd, NobodyElse
  <2> QED
    BY <2>2, <2>3
<1>4. CASE Drops
  BY <1>2, <1>3, <1>4 DEF Drops, EchoInv, DataInv, Buffers, RequestsAt
<1>5. CASE Closes(e)
  <2>1. /\ conns' = [conns EXCEPT ![e.fd] = [conns[e.fd] EXCEPT !.fd = -1]]
        /\ armed' = armed
    BY <1>0, <1>1, <1>5 DEF Closes
  <2>2. [conns[e.fd] EXCEPT !.fd = -1].buffer = conns[e.fd].buffer
    BY <1>1 DEF ConnType
  <2>3. \A fd \in Fd \ {e.fd} : conns'[fd] = conns[fd]
    BY <1>0, <2>1
  <2>4. conns'[e.fd].buffer = conns[e.fd].buffer
    BY <1>0, <1>1, <2>1, <2>2
  <2>5. Buffers'
    BY <1>1, <2>3, <2>4 DEF EchoInv, DataInv, Buffers
  <2> QED
    BY <1>2, <1>3, <2>1, <2>3, <2>5 DEF DataInv, RequestsAt
<1>6. ASSUME NEW conn, NEW t, NEW from, Serves(e, conn, t, from) PROVE DataInv'
  <2> DEFINE r == Request(e.w, t, e.fd, from)
  <2>1. /\ \A fd \in Fd \ {e.fd} : conns'[fd] = conns[fd]
        /\ conns'[e.fd] = conn /\ armed' = armed \cup {r} /\ Len(conn.buffer) = msg_size
    BY <1>0, <1>1, <1>6 DEF Serves
  <2>2. r.type = t /\ r.fd = e.fd /\ r.from = from
    BY DEF Request
  <2> HIDE DEF r
  <2>3. RequestAt(r, sock[r.fd])'
    BY <1>0, <1>6, <2>1, <2>2 DEF Serves, RequestAt
  <2>4. RequestsAt'
    BY <1>3, <2>1, <2>3 DEF RequestsAt
  <2>5. Buffers'
    BY <2>1 DEF EchoInv, DataInv, Buffers
  <2> QED
    BY <1>2, <1>3, <2>1, <2>4, <2>5 DEF DataInv
<1> QED
  BY <1>4, <1>5, <1>6 DEF Serving

\* A new connection is at the beginning of its client's stream.
LEMMA NewServedData ==
    ASSUME EchoInv, NEW e \in events, NewServed(e)
    PROVE  DataInv'
<1>0. /\ e.type = "accept" /\ events' = events \ {e}
      /\ UNCHANGED <<closing, sock, backlog, cst, csent, sread, echo>>
      /\ conns \in [Fd -> ConnType \cup {NULL}]
  BY DEF NewServed, net, EchoInv, TypeOK
<1>1. OnePlace' /\ Streams' /\ NewAt'
  BY <1>0 DEF EchoInv, DataInv, OnePlace, Streams, EchoPrefix, NewAt
<1>2. PICK a : a = Request(e.w, "accept", Listen, 0)
  OBVIOUS
<1>3. PICK r : r = Request(e.w, "read", e.result, 0)
  OBVIOUS
<1>4. a.type = "accept" /\ r.type = "read" /\ r.fd = e.result
  BY <1>2, <1>3 DEF Request
<1>5. \/ UNCHANGED conns /\ armed' = armed \cup {a}
      \/ /\ e.result \in Fd /\ armed' = armed \cup {r, a}
         /\ conns' = [conns EXCEPT ![e.result] = NewConn(e.result)]
  BY <1>2, <1>3 DEF NewServed
<1>6. CASE UNCHANGED conns /\ armed' = armed \cup {a}
  <2>1. \A fd \in Fd : Still(fd)
    BY <1>0, <1>6 DEF Still
  <2>2. RequestsAt' /\ EventsAt'
    BY <1>0, <1>4, <1>6, <2>1, StillAt, InFlightFd DEF RequestsAt, EventsAt
  <2> QED
    BY <1>1, <1>6, <2>2 DEF EchoInv, DataInv, Buffers
<1>7. CASE /\ e.result \in Fd /\ armed' = armed \cup {r, a}
           /\ conns' = [conns EXCEPT ![e.result] = NewConn(e.result)]
  <2>1. PICK fd \in Fd : fd = e.result
    BY <1>7
  <2>2. PICK conn : conn = NewConn(fd)
    OBVIOUS
  <2>3. conn.cursor = 0 /\ Len(conn.buffer) = msg_size
    BY <2>2, NewConnIs
  <2>4. /\ \A gd \in Fd \ {fd} : conns'[gd] = conns[gd]
        /\ conns'[fd] = conn
    BY <1>0, <1>7, <2>1, <2>2
  <2>5. /\ \A q \in armed : q.type # "accept" => q.fd # fd
        /\ \A d \in events : d.type # "accept" => d.fd # fd
    BY <1>0, <2>1, NewApart
  <2>6. \A gd \in Fd \ {fd} : Still(gd)
    BY <1>0, <2>4 DEF Still
  <2>7. PICK c \in Client : c = sock[fd]
    <3>1. e.result # -1
      BY <2>1, Sizes DEF Fd
    <3> QED
      BY <1>0, <2>1, <3>1, InFlightFd
  <2>8. Reading(conn, csent[c], sread[c], cst[c], echo[c])
    <3>1. Fresh(csent[c], sread[c], echo[c])
      <4>1. e.result # -1
        BY <2>1, Sizes DEF Fd
      <4> QED
        BY <1>0, <2>1, <2>7, <4>1 DEF EchoInv, DataInv, NewAt
    <3>2. Len(<<>>) = 0 /\ Holds(conn, 0, 0)
      BY DEF Holds
    <3> QED
      BY <2>3, <3>1, <3>2, MessagesAdd, Sizes DEF Fresh, Reading
  <2>9. RequestAt(r, sock[r.fd])'
    BY <1>0, <1>4, <2>1, <2>4, <2>7, <2>8 DEF RequestAt
  <2>10. RequestsAt'
    BY <1>4, <1>7, <2>5, <2>6, <2>9, StillAt, InFlightFd DEF RequestsAt
  <2>11. EventsAt'
    BY <1>0, <2>5, <2>6, StillAt, InFlightFd DEF EventsAt
  <2>12. Buffers'
    BY <2>3, <2>4 DEF EchoInv, DataInv, Buffers
  <2> QED
    BY <1>1, <2>10, <2>11, <2>12 DEF DataInv
<1> QED
  BY <1>5, <1>6, <1>7

LEMMA CloserData ==
    ASSUME EchoInv, NEW w \in Worker, Clears(w) \/ Frees(w)
    PROVE  DataInv'
<1>1. PICK fd : fd = closing[w].fd
  OBVIOUS
<1>2. /\ closing[w] # Idle
      /\ UNCHANGED <<armed, events, backlog, cst, csent, sread, echo>>
      /\ conns \in [Fd -> ConnType \cup {NULL}] /\ sock \in [Fd -> Client \cup {NULL}]
  BY DEF Clears, Frees, net, Idle, EchoInv, TypeOK
<1>3. /\ fd \in Fd
      /\ \A q \in armed : q.type # "accept" => q.fd # fd
      /\ \A e \in events : e.type # "accept" => e.fd # fd
      /\ \A e \in events : e.type = "accept" => e.result # fd
  BY <1>1, <1>2, CloserApart
<1>4. /\ conns' = [conns EXCEPT ![fd] = NULL] \/ UNCHANGED conns
      /\ sock' = [sock EXCEPT ![fd] = NULL] \/ UNCHANGED sock
  BY <1>1 DEF Clears, Frees, net
<1>5. \A gd \in Fd \ {fd} : conns'[gd] = conns[gd] /\ sock'[gd] = sock[gd]
  BY <1>2, <1>3, <1>4
<1>6. /\ conns'[fd] = NULL \/ conns'[fd] = conns[fd]
      /\ sock'[fd] = NULL \/ sock'[fd] = sock[fd]
  BY <1>2, <1>3, <1>4
<1>7. RequestsAt' /\ EventsAt'
  <2>1. \A gd \in Fd \ {fd} : Still(gd)
    BY <1>2, <1>5 DEF Still
  <2> QED
    BY <1>2, <1>3, <2>1, StillAt, InFlightFd DEF RequestsAt, EventsAt
<1>8. OnePlace'
  <2>1. \A c \in Client, gd \in Fd : sock'[gd] = c => sock[gd] = c
    BY <1>5, <1>6, Sizes
  <2> QED
    BY <1>2, <2>1 DEF EchoInv, DataInv, OnePlace
<1>9. NewAt'
  <2>1. \A e \in events : e.type = "accept" /\ e.result # -1 => sock'[e.result] = sock[e.result]
    BY <1>3, <1>5, InFlightFd
  <2> QED
    BY <1>2, <2>1 DEF EchoInv, DataInv, NewAt
<1>10. Buffers' /\ Streams'
  BY <1>2, <1>5, <1>6 DEF EchoInv, DataInv, Buffers, Streams, EchoPrefix
<1> QED
  BY <1>7, <1>8, <1>9, <1>10 DEF DataInv

LEMMA DataStep ==
    ASSUME EchoInv, [Next]_vars
    PROVE  DataInv'
<1>1. CASE UNCHANGED vars
  BY <1>1 DEF vars, EchoInv, DataInv, OnePlace, RequestsAt, RequestAt, EventsAt, EventAt,
              NewAt, Buffers, Streams, EchoPrefix
<1> QED
  BY <1>1, StepKinds, ConnectData, SendData, ShutData, AcceptsData, AnswersData,
     ServingData, NewServedData, CloserData

-----------------------------------------------------------------------------
(* The theorems *)

LEMMA EchoInit == Init => EchoInv
BY TypeInit, OwnInit, DataInit DEF EchoInv

LEMMA EchoStep == EchoInv /\ [Next]_vars => EchoInv'
BY TypeStep, OwnStep, DataStep DEF EchoInv

LEMMA EchoCorrect == Spec => []EchoInv
BY EchoInit, EchoStep, PTL DEF Spec

\* A read that is not handled yet fits behind the bytes that are in the buffer.
LEMMA ReadsFit == EchoInv => NoOverrun
<1> SUFFICES ASSUME EchoInv PROVE NoOverrun
  OBVIOUS
<1>1. \A fd \in Fd : conns[fd] # NULL => Len(conns[fd].buffer) = msg_size
  BY DEF EchoInv, DataInv, Buffers
<1>2. ASSUME NEW e \in events, e.type = "read", e.result > 0
      PROVE  conns[e.fd].cursor + e.result <= msg_size
  <2>1. PICK conn \in ConnType : conn = conns[e.fd]
    BY <1>2, WhoseEvent
  <2>2. PICK c \in Client : c = sock[e.fd]
    BY <1>2, WhoseEvent
  <2>3. /\ Len(e.data) = e.result
        /\ HasRead(conn, e.data, csent[c], sread[c], cst[c], echo[c])
    BY <1>2, <2>1, <2>2 DEF EchoInv, DataInv, EventsAt, EventAt
  <2>4. PICK base \in Messages : /\ sread[c] = base + conn.cursor + Len(e.data)
                                 /\ csent[c] <= base + msg_size
    BY <2>3 DEF HasRead
  <2>5. csent[c] \in Nat /\ sread[c] \in Nat /\ sread[c] <= csent[c]
    BY DEF EchoInv, TypeOK, DataInv, Streams
  <2>6. base \in Nat /\ conn.cursor \in Int /\ e.result \in Int
    BY WhoseEvent, MessagesAdd, Sizes DEF EventType, ConnType
  <2>7. conn.cursor + e.result <= msg_size
    BY <2>3, <2>4, <2>5, <2>6, Sizes
  <2> QED
    BY <2>1, <2>7
<1> QED
  BY <1>1, <1>2 DEF NoOverrun

\* The state of the server, of the kernel's sockets and of the clients has its
\* types: descriptors stay in range, and results and cursors are what the handlers
\* of upcall.c take them for.
THEOREM EchoTypeCorrect == Spec => []TypeOK
BY EchoCorrect, PTL DEF EchoInv

\* A connection has one worker and one request at a time: conns[] agrees with the
\* sockets whenever my_read and my_write look a descriptor up, and on_close gives
\* a descriptor back only when nothing of it is in flight.
THEOREM EchoOneOwner == Spec => []OneOwner
BY EchoCorrect, OwnedByOne, PTL

\* The memcpy of my_read never leaves conn->buffer, though my_read does not check
\* it: the client's one message at a time is what keeps it inside.
THEOREM EchoNoOverrun == Spec => []NoOverrun
BY EchoCorrect, ReadsFit, PTL

\* Whatever descriptors, connections and buffers were used before, a client gets
\* back from my_read and my_write what it sent, in order and without gaps.
THEOREM EchoEchoPrefix == Spec => []EchoPrefix
<1>1. EchoInv => EchoPrefix
  BY DEF EchoInv, DataInv, Streams
<1> QED
  BY <1>1, EchoCorrect, PTL

===============================================================================

