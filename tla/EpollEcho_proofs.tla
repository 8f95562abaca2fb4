-------------------------- MODULE EpollEcho_proofs ---------------------------
(***************************************************************************)
(* The epoll server hands every connection it accepts to one worker, never *)
(* forgets one on the way, handles no event that is out of date, and gives *)
(* every client back what it read from it and nothing else, for any        *)
(* workers, clients, descriptors and messages.                             *)
(***************************************************************************)
EXTENDS EpollEcho, FiniteSetTheorems, WellFoundedInduction, TLAPS

-----------------------------------------------------------------------------
(* Sequences and sets *)

LEMMA Sizes ==
    /\ NFd \in Nat /\ NFd >= 1 /\ msg_size \in Nat /\ msg_size >= 1 /\ MaxMsgs \in Nat
    /\ NULL \notin Client /\ NULL \notin Worker /\ NULL \notin Nat
BY EpollAssumption, NullAssumption

\* A set of naturals has a least element: the descriptor accept4 takes.
LEMMA LeastElement ==
    ASSUME NEW S \in SUBSET Nat, S # {}
    PROVE  Min(S) \in S
<1> DEFINE less == OpToRel(<, Nat)
<1>1. IsWellFoundedOn(less, Nat)
  BY NatLessThanWellFounded
<1>2. \A i, j \in Nat : i < j => <<i, j>> \in less
  BY DEF OpToRel
<1> HIDE DEF less
<1>3. PICK x \in S : \A y \in S : ~(<<y, x>> \in less)
  <2>1. S \subseteq Nat /\ S # {}
    OBVIOUS
  <2> QED
    BY <1>1, <2>1, WFMin, Zenon
<1>4. ASSUME NEW y \in S PROVE x =< y
  <2>1. x \in Nat /\ y \in Nat
    OBVIOUS
  <2>2. ~(y < x)
    BY <1>2, <1>3, <2>1, Zenon
  <2> QED
    BY <2>1, <2>2
<1> QED
  BY <1>4 DEF Min

LEMMA MinOfTwo ==
    ASSUME NEW a \in Int, NEW b \in Int
    PROVE  Min({a, b}) = IF a <= b THEN a ELSE b
BY DEF Min

\* The connections on a list, none of them twice.
Elems(s)    == { s[i] : i \in DOMAIN s }
Distinct(s) == \A i, j \in 1 .. Len(s) : s[i] = s[j] => i = j

LEMMA Pushed ==
    ASSUME NEW s \in Seq(Fd), NEW x \in Fd
    PROVE  /\ <<x>> \o s \in Seq(Fd) /\ Elems(<<x>> \o s) = Elems(s) \cup {x}
           /\ <<x>> \o s # <<>>
           /\ Distinct(s) /\ x \notin Elems(s) => Distinct(<<x>> \o s)
<1> DEFINE t == <<x>> \o s
<1>1. /\ t \in Seq(Fd) /\ Len(t) = Len(s) + 1 /\ Len(s) \in Nat /\ t[1] = x
      /\ \A i \in 1 .. Len(s) : t[i + 1] = s[i]
  OBVIOUS
<1> HIDE DEF t
<1>2. DOMAIN s = 1 .. Len(s) /\ DOMAIN t = 1 .. Len(t)
  BY <1>1
<1>3. \A i \in 1 .. Len(t) : i = 1 \/ (i - 1 \in 1 .. Len(s) /\ t[i] = s[i - 1])
  BY <1>1
<1>4. Elems(t) = Elems(s) \cup {x}
  <2>1. \A y \in Elems(t) : y \in Elems(s) \cup {x}
    <3>1. ASSUME NEW i \in 1 .. Len(t) PROVE t[i] \in Elems(s) \cup {x}
      <4>1. CASE i = 1
        BY <1>1, <4>1
      <4>2. CASE i - 1 \in DOMAIN s /\ t[i] = s[i - 1]
        BY <4>2 DEF Elems
      <4> QED
        BY <1>2, <1>3, <4>1, <4>2
    <3> QED
      BY <1>2, <3>1 DEF Elems
  <2>2. x \in Elems(t)
    BY <1>1, <1>2 DEF Elems
  <2>3. \A y \in Elems(s) : y \in Elems(t)
    <3>1. \A i \in 1 .. Len(s) : i + 1 \in 1 .. Len(t)
      BY <1>1
    <3> QED
      BY <1>1, <1>2, <3>1 DEF Elems
  <2> QED
    BY <2>1, <2>2, <2>3
<1>5. ASSUME Distinct(s), x \notin Elems(s) PROVE Distinct(t)
  <2>1. \A i \in 1 .. Len(s) : s[i] # x
    BY <1>2, <1>5 DEF Elems
  <2>2. ASSUME NEW i \in 1 .. Len(t), NEW j \in 1 .. Len(t), t[i] = t[j], i # 1, j # 1
        PROVE  i = j
    <3>1. /\ i - 1 \in 1 .. Len(s) /\ t[i] = s[i - 1]
          /\ j - 1 \in 1 .. Len(s) /\ t[j] = s[j - 1]
      BY <1>3, <2>2
    <3>2. i - 1 = j - 1
      BY <1>5, <2>2, <3>1 DEF Distinct
    <3> QED
      BY <1>1, <3>2
  <2>3. \A i \in 1 .. Len(t) : i # 1 => t[i] # t[1]
    BY <1>1, <1>3, <2>1
  <2> QED
    BY <1>1, <2>2, <2>3 DEF Distinct
<1> QED
  BY <1>1, <1>4, <1>5 DEF t

LEMMA Popped ==
    ASSUME NEW s \in Seq(Fd), s # <<>>, Distinct(s)
    PROVE  /\ Head(s) \in Fd /\ Head(s) \in Elems(s)
           /\ Tail(s) \in Seq(Fd) /\ Distinct(Tail(s)) /\ Elems(Tail(s)) = Elems(s) \ {Head(s)}
<1> DEFINE t == Tail(s)
           x == Head(s)
<1>1. /\ t \in Seq(Fd) /\ Len(s) = Len(t) + 1 /\ Len(t) \in Nat /\ s[1] = x
      /\ \A i \in 1 .. Len(t) : t[i] = s[i + 1]
  OBVIOUS
<1> HIDE DEF t, x
<1>2. DOMAIN s = 1 .. Len(s) /\ DOMAIN t = 1 .. Len(t)
  BY <1>1
<1>3. x \in Fd /\ x \in Elems(s)
  BY <1>1, <1>2 DEF Elems
<1>4. \A i \in 1 .. Len(s) : i = 1 \/ (i - 1 \in 1 .. Len(t) /\ s[i] = t[i - 1])
  BY <1>1
<1>5. \A i \in 1 .. Len(t) : i + 1 \in 1 .. Len(s) /\ t[i] # x
  BY <1>1 DEF Distinct
<1>6. Elems(t) = Elems(s) \ {x}
  <2>1. \A y \in Elems(t) : y \in Elems(s) \ {x}
    BY <1>1, <1>2, <1>5 DEF Elems
  <2>2. \A y \in Elems(s) \ {x} : y \in Elems(t)
    BY <1>1, <1>2, <1>4 DEF Elems
  <2> QED
    BY <2>1, <2>2
<1>7. Distinct(t)
  BY <1>1, <1>5 DEF Distinct
<1> QED
  BY <1>1, <1>3, <1>6, <1>7 DEF t, x

-----------------------------------------------------------------------------
(* The inductive invariant *)

\* What a worker has in hand is its own, unless its connection broke: then
\* on_close ran before on_read.  Its events are of connections it still has, and
\* not of the one in hand.
WorkerAt(w) ==
    /\ pc[w] \in {"read", "write", "close", "closed"} => cur[w] \in interest[w]
    /\ pc[w] \in {"enter", "register"} => cur[w] \in Fd
    /\ pc[w] = "enter" => cur[w] \in interest[w] \/ Broken
    /\ pc[w] = "read" => cursor[w] < msg_size
    /\ hup[w] => Broken
    /\ \A fd \in interest[w] : conns[fd] = NULL <=> pc[w] = "closed" /\ cur[w] = fd
    /\ \A e \in batch[w] : /\ e.err => Broken
                           /\ e.fd \in Fd => e.fd \in interest[w]
                           /\ e.fd \in Fd => pc[w] = "batch" \/ e.fd # cur[w]
    /\ \A d, e \in batch[w] : d.fd = e.fd => d = e

\* A connection goes from the list to the worker's hands and from there to the
\* epoll set.
ListAt(w) ==
    /\ Distinct(incoming[w]) /\ Elems(incoming[w]) \cap interest[w] = {}
    /\ pc[w] = "register" => cur[w] \notin Elems(incoming[w]) /\ cur[w] \notin interest[w]

\* Every socket is with one worker.
Placed ==
    /\ \A fd \in Fd : sock[fd] # NULL => \E w \in Worker : fd \in Holds(w)
    /\ \A w \in Worker : \A fd \in Holds(w) : fd \in Fd /\ sock[fd] # NULL
    /\ \A v, w \in Worker : \A fd \in Holds(v) : fd \in Holds(w) => v = w
    /\ \A fd \in Fd : conns[fd] # NULL => sock[fd] # NULL

OwnInv   == (\A w \in Worker : WorkerAt(w) /\ ListAt(w)) /\ Placed
EpollInv == TypeOK /\ OwnInv /\ HandOver

LEMMA HoldsIs ==
    \A w \in Worker : \A fd : fd \in Holds(w) <=> \/ fd \in Elems(incoming[w])
                                                  \/ fd \in interest[w]
                                                  \/ pc[w] = "register" /\ fd = cur[w]
BY DEF Holds, Listed, Elems

\* A connection in an epoll set has a client.
LEMMA WhoseSocket ==
    ASSUME EpollInv, NEW w \in Worker, NEW fd \in interest[w]
    PROVE  fd \in Fd /\ sock[fd] \in Client
<1>1. fd \in Fd /\ sock[fd] # NULL
  BY HoldsIs DEF EpollInv, OwnInv, Placed
<1> QED
  BY <1>1 DEF EpollInv, TypeOK

-----------------------------------------------------------------------------
(* What read() does *)

\* Read, with the number of bytes that are there.
Reads(w, c, n) ==
    /\ pc[w] = "read" /\ c = sock[cur[w]] /\ c \in Client
    /\ n \in Int /\ n <= msg_size - cursor[w] /\ n <= csent[c] - sread[c]
    /\ UNCHANGED <<incoming, kernel, batch, cur, hup, to, cst, csent, echo>>
    /\ \/ /\ n > 0 /\ sread' = [sread EXCEPT ![c] = @ + n]
          /\ \/ /\ cursor[w] + n < msg_size
                /\ cursor' = [cursor EXCEPT ![w] = @ + n] /\ UNCHANGED <<conns, pc>>
             \/ /\ ~(cursor[w] + n < msg_size) /\ cursor' = [cursor EXCEPT ![w] = 0]
                /\ conns' = [conns EXCEPT ![cur[w]] = 0]
                /\ pc' = [pc EXCEPT ![w] = "write"]
       \/ /\ conns' = [conns EXCEPT ![cur[w]] = cursor[w]]
          /\ pc' = [pc EXCEPT ![w] = "batch"] /\ UNCHANGED <<sread, cursor>>
       \/ pc' = [pc EXCEPT ![w] = "close"] /\ UNCHANGED <<conns, sread, cursor>>

LEMMA ReadIs ==
    ASSUME EpollInv, NEW w \in Worker, Read(w)
    PROVE  \E c, n : Reads(w, c, n)
<1>1. pc[w] = "read" /\ cur[w] \in interest[w]
  BY DEF Read, At, EpollInv, OwnInv, WorkerAt
<1>2. PICK c \in Client : c = sock[cur[w]]
  BY <1>1, WhoseSocket
<1>3. PICK a \in Int : a = csent[c] - sread[c]
  BY DEF EpollInv, TypeOK
<1>4. PICK b \in Int : b = msg_size - cursor[w]
  BY Sizes DEF EpollInv, TypeOK
<1>5. PICK n : n = Min({a, b})
  OBVIOUS
<1>6. n \in Int /\ n <= a /\ n <= b
  BY <1>5, MinOfTwo
<1>7. Reads(w, c, n)
  BY <1>1, <1>2, <1>3, <1>4, <1>5, <1>6 DEF Read, Reads, Suspend, Goes, Rewound
<1> QED
  BY <1>7

-----------------------------------------------------------------------------
(* The types *)

LEMMA TypeInit == Init => TypeOK
<1> SUFFICES ASSUME Init PROVE TypeOK
  OBVIOUS
<1> USE Sizes
<1>1. conns \in [Fd -> (0 .. msg_size - 1) \cup {NULL}] /\ sock \in [Fd -> Client \cup {NULL}]
  BY DEF Init
<1>2. /\ incoming \in [Worker -> Seq(Fd)] /\ pc \in [Worker -> {"wait"}]
      /\ batch \in [Worker -> SUBSET [fd : Fd \cup {Listen, EvFd}, err : BOOLEAN]]
      /\ cur \in [Worker -> Fd \cup {Listen, EvFd}] /\ hup \in [Worker -> BOOLEAN]
      /\ cursor \in [Worker -> 0 .. msg_size] /\ to \in [Worker -> Worker \cup {NULL}]
  BY DEF Init
<1>3. /\ interest \in [Worker -> SUBSET Fd] /\ event_fd \in [Worker -> Nat]
      /\ backlog \in [Worker -> SUBSET Client]
      /\ cst \in [Client -> {"idle", "open", "shut", "reset"}]
      /\ csent \in [Client -> Nat] /\ sread \in [Client -> Nat] /\ echo \in [Client -> Nat]
  BY DEF Init
<1> QED
  BY <1>1, <1>2, <1>3 DEF TypeOK

\* accept4 takes a descriptor that is free.
Accepts(w, c, fd, owner) ==
    /\ pc[w] = "accept" /\ to[w] = NULL /\ c \in backlog[w] /\ owner \in Worker
    /\ fd \in Fd /\ sock[fd] = NULL
    /\ backlog' = [backlog EXCEPT ![w] = @ \ {c}]
    /\ sock' = [sock EXCEPT ![fd] = c]
    /\ incoming' = [incoming EXCEPT ![owner] = <<fd>> \o @]
    /\ to' = [to EXCEPT ![w] = owner]
    /\ UNCHANGED <<conns, interest, event_fd, client, batch, cur, hup, cursor, pc>>
AcceptsNone(w) ==
    /\ pc[w] = "accept" /\ pc' = [pc EXCEPT ![w] = "batch"]
    /\ UNCHANGED <<table, kernel, client, batch, cur, hup, cursor, to>>

LEMMA AcceptIs ==
    ASSUME NEW w \in Worker, Accept(w)
    PROVE  AcceptsNone(w) \/ \E c, fd, owner : Accepts(w, c, fd, owner)
<1>1. CASE Goes(w, "batch") /\ UNCHANGED <<backlog, sock, incoming, to>>
  BY <1>1 DEF Accept, At, Goes, AcceptsNone, table, kernel
<1>2. CASE FreeFds # {} /\ UNCHANGED pc /\ \E c \in backlog[w], owner \in Worker :
               /\ backlog' = [backlog EXCEPT ![w] = @ \ {c}]
               /\ sock' = [sock EXCEPT ![Min(FreeFds)] = c]
               /\ incoming' = [incoming EXCEPT ![owner] = <<Min(FreeFds)>> \o @]
               /\ to' = [to EXCEPT ![w] = owner]
  <2>1. PICK fd : fd = Min(FreeFds)
    OBVIOUS
  <2>2. FreeFds \in SUBSET Nat
    BY Sizes DEF FreeFds, Fd
  <2>3. fd \in Fd /\ sock[fd] = NULL
    <3>1. fd \in FreeFds
      BY <1>2, <2>1, <2>2, LeastElement
    <3> QED
      BY <3>1 DEF FreeFds
  <2>4. PICK c \in backlog[w], owner \in Worker :
               /\ backlog' = [backlog EXCEPT ![w] = @ \ {c}]
               /\ sock' = [sock EXCEPT ![fd] = c]
               /\ incoming' = [incoming EXCEPT ![owner] = <<fd>> \o @]
               /\ to' = [to EXCEPT ![w] = owner]
    BY <1>2, <2>1
  <2>5. Accepts(w, c, fd, owner)
    BY <1>2, <2>3, <2>4 DEF Accept, At, Accepts
  <2> QED
    BY <2>5
<1> QED
  BY <1>1, <1>2 DEF Accept

LEMMA ClientType ==
    ASSUME EpollInv, NEW c \in Client,
           Send(c) \/ Leave(c) \/ \E w \in Worker : Connect(c, w)
    PROVE  TypeOK'
<1> USE DEF EpollInv, TypeOK, local, table, kernel
<1>1. CASE Send(c)
  <2>1. csent' \in [Client -> Nat]
    BY <1>1 DEF Send
  <2> QED
    BY <1>1, <2>1 DEF Send
<1>2. CASE Leave(c)
  BY <1>2 DEF Leave
<1>3. ASSUME NEW w \in Worker, Connect(c, w) PROVE TypeOK'
  BY <1>3 DEF Connect
<1> QED
  BY <1>1, <1>2, <1>3

LEMMA WorkerType ==
    ASSUME EpollInv, NEW w \in Worker, Step(w)
    PROVE  TypeOK'
<1> USE DEF EpollInv, TypeOK, At, Goes
<1>1. CASE EpollWait(w)
  <2>1. Ready(w) \in SUBSET [fd : Fd \cup {Listen, EvFd}, err : BOOLEAN]
    <3>1. \A g \in interest[w] : g \in Fd
      OBVIOUS
    <3>2. ASSUME NEW e \in Ready(w)
          PROVE  \E fd \in Fd \cup {Listen, EvFd}, err \in BOOLEAN : e = [fd |-> fd, err |-> err]
      BY <3>1 DEF Ready
    <3> QED
      BY <3>2
  <2> QED
    BY <1>1, <2>1 DEF EpollWait, table, kernel, client
<1>2. CASE Dispatch(w)
  <2>1. UNCHANGED <<table, kernel, client, cursor, to>>
    BY <1>2 DEF Dispatch
  <2>2. CASE UNCHANGED <<batch, cur, hup>> /\ Goes(w, "wait")
    BY <2>1, <2>2 DEF table, kernel, client
  <2>3. ASSUME NEW e \in batch[w], NEW p \in {"accept", "event", "close", "enter"},
               batch' = [batch EXCEPT ![w] = @ \ {e}],
               cur' = [cur EXCEPT ![w] = e.fd], hup' = [hup EXCEPT ![w] = e.err], Goes(w, p)
        PROVE  TypeOK'
    <3>1. e.fd \in Fd \cup {Listen, EvFd} /\ e.err \in BOOLEAN
      OBVIOUS
    <3> QED
      BY <2>1, <2>3, <3>1 DEF table, kernel, client
  <2> QED
    BY <1>2, <2>2, <2>3 DEF Dispatch
<1>3. CASE Accept(w)
  <2>1. CASE AcceptsNone(w)
    BY <2>1 DEF AcceptsNone, table, kernel, client
  <2>2. ASSUME NEW c, NEW fd, NEW owner, Accepts(w, c, fd, owner) PROVE TypeOK'
    <3>1. incoming' \in [Worker -> Seq(Fd)]
      <4>1. <<fd>> \o incoming[owner] \in Seq(Fd)
        BY <2>2, Pushed DEF Accepts
      <4> QED
        BY <2>2, <4>1 DEF Accepts
    <3>2. sock' \in [Fd -> Client \cup {NULL}] /\ backlog' \in [Worker -> SUBSET Client]
      BY <2>2 DEF Accepts
    <3> QED
      BY <2>2, <3>1, <3>2 DEF Accepts, client
  <2> QED
    BY <1>3, <2>1, <2>2, AcceptIs
<1>4. CASE Notify(w)
  <2>1. to[w] \in Worker /\ event_fd' = [event_fd EXCEPT ![to[w]] = @ + 1]
    BY <1>4 DEF Notify
  <2>2. event_fd' \in [Worker -> Nat]
    BY <2>1
  <2> QED
    BY <1>4, <2>2 DEF Notify, table, client
<1>5. CASE on_event(w)
  BY <1>5 DEF on_event, table, client
<1>6. CASE TakeNew(w)
  <2>1. CASE incoming[w] = <<>>
    BY <1>6, <2>1 DEF TakeNew, kernel, client
  <2>2. CASE incoming[w] # <<>>
    <3>1. Head(incoming[w]) \in Fd /\ Tail(incoming[w]) \in Seq(Fd)
      BY <2>2
    <3>2. /\ cur' = [cur EXCEPT ![w] = Head(incoming[w])]
          /\ incoming' = [incoming EXCEPT ![w] = Tail(incoming[w])]
          /\ pc' = [pc EXCEPT ![w] = "register"]
          /\ UNCHANGED <<conns, kernel, client, batch, hup, cursor, to>>
      BY <1>6, <2>2 DEF TakeNew
    <3> QED
      BY <3>1, <3>2 DEF kernel, client
  <2> QED
    BY <2>1, <2>2
<1>7. CASE Register(w)
  <2>1. cur[w] \in Fd
    BY <1>7 DEF Register, OwnInv, WorkerAt
  <2> QED
    BY <1>7, <2>1, Sizes DEF Register, client
<1>8. CASE EnterRead(w)
  <2>1. CASE conns[cur[w]] # NULL /\ cur[w] \in interest[w]
    <3>1. cur[w] \in Fd
      BY <2>1
    <3>2. conns[cur[w]] \in 0 .. msg_size
      BY <2>1, <3>1, Sizes
    <3> QED
      BY <1>8, <2>1, <3>2 DEF EnterRead, table, kernel, client
  <2>2. CASE ~(conns[cur[w]] # NULL /\ cur[w] \in interest[w])
    BY <1>8, <2>2 DEF EnterRead, table, kernel, client
  <2> QED
    BY <2>1, <2>2
<1>9. CASE Read(w)
  <2>1. PICK c, n : Reads(w, c, n)
    BY <1>9, ReadIs
  <2>2. cursor[w] \in 0 .. msg_size - 1 /\ n \in Int /\ n <= msg_size - cursor[w]
        /\ 0 \in 0 .. msg_size - 1 /\ 0 \in 0 .. msg_size
    BY <2>1, Sizes DEF Reads, OwnInv, WorkerAt
  <2>3. conns' \in [Fd -> (0 .. msg_size - 1) \cup {NULL}]
    BY <2>1, <2>2 DEF Reads
  <2>4. cursor' \in [Worker -> 0 .. msg_size]
    <3>1. n > 0 => cursor[w] + n \in 0 .. msg_size
      BY <2>2, Sizes
    <3> QED
      BY <2>1, <2>2, <3>1 DEF Reads
  <2>5. sread' \in [Client -> Nat]
    <3>1. c \in Client /\ sread[c] \in Nat
      BY <2>1 DEF Reads
    <3>2. n > 0 => sread[c] + n \in Nat
      BY <2>2, <3>1
    <3>3. sread' = sread \/ (n > 0 /\ sread' = [sread EXCEPT ![c] = @ + n])
      BY <2>1 DEF Reads
    <3>4. CASE sread' = sread
      BY <3>4
    <3>5. CASE n > 0 /\ sread' = [sread EXCEPT ![c] = @ + n]
      BY <3>1, <3>2, <3>5
    <3> QED
      BY <3>3, <3>4, <3>5
  <2>6. pc' \in [Worker -> {"wait", "batch", "accept", "event", "drain", "register",
                          "enter", "read", "write", "close", "closed",
                          "segv", "stray", "sigpipe"}]
    <3>1. \/ pc' = pc \/ pc' = [pc EXCEPT ![w] = "write"]
          \/ pc' = [pc EXCEPT ![w] = "batch"] \/ pc' = [pc EXCEPT ![w] = "close"]
      BY <2>1 DEF Reads
    <3> QED
      BY <3>1
  <2> QED
    BY <2>1, <2>3, <2>4, <2>5, <2>6 DEF Reads, kernel
<1>10. CASE Write(w)
  <2>1. CASE UNCHANGED <<echo, cursor>> /\ Goes(w, "sigpipe")
    BY <1>10, <2>1 DEF Write, table, kernel
  <2>2. ASSUME NEW n \in 1 .. msg_size - cursor[w], NEW p \in {"write", "batch"}, NEW c,
               echo' = [echo EXCEPT ![c] = @ + n], cursor' = [cursor EXCEPT ![w] = @ + n],
               Goes(w, p)
        PROVE  TypeOK'
    <3>1. echo' \in [Client -> Nat]
      <4>1. n \in Nat
        BY Sizes
      <4>2. \A d \in Client : echo[d] + n \in Nat
        BY <4>1
      <4> QED
        BY <2>2, <4>2
    <3>2. cursor[w] + n \in 0 .. msg_size
      BY <2>2, Sizes
    <3> QED
      BY <1>10, <2>2, <3>1, <3>2 DEF Write, table, kernel
  <2> QED
    BY <1>10, <2>1, <2>2 DEF Write
<1>11. CASE OnCloseStep(w)
  <2>1. CASE At(w, "close") /\ Unslot(w) /\ Goes(w, "closed") /\ UNCHANGED hup
    BY <1>11, <2>1 DEF OnCloseStep, Unslot, client
  <2>2. CASE At(w, "closed") /\ Release(w) /\ AfterClose(w)
    BY <1>11, <2>2 DEF OnCloseStep, Release, AfterClose, client
  <2> QED
    BY <1>11, <2>1, <2>2 DEF OnCloseStep
<1> QED
  BY <1>1, <1>2, <1>3, <1>4, <1>5, <1>6, <1>7, <1>8, <1>9, <1>10, <1>11 DEF Step

LEMMA TypeStep ==
    ASSUME EpollInv, [Next]_vars
    PROVE  TypeOK'
<1>1. CASE UNCHANGED vars
  BY <1>1 DEF vars, EpollInv, TypeOK
<1>2. ASSUME NEW c \in Client, Send(c) \/ Leave(c) \/ \E w \in Reach[c] : Connect(c, w)
      PROVE  TypeOK'
  BY <1>2, ClientType, EpollAssumption
<1> QED
  BY <1>1, <1>2, WorkerType DEF Next

-----------------------------------------------------------------------------
(* Who has a connection *)

LEMMA OwnInit == Init => OwnInv
<1> SUFFICES ASSUME Init PROVE OwnInv
  OBVIOUS
<1>1. Elems(<<>>) = {} /\ Distinct(<<>>)
  <2>1. DOMAIN <<>> = {} /\ Len(<<>>) = 0
    OBVIOUS
  <2> QED
    BY <2>1 DEF Elems, Distinct
<1>2. \A w \in Worker : WorkerAt(w) /\ ListAt(w)
  BY <1>1 DEF Init, WorkerAt, ListAt
<1>3. \A w \in Worker : \A fd : fd \notin Holds(w)
  BY <1>1, HoldsIs DEF Init
<1>4. Placed
  BY <1>3 DEF Init, Placed
<1> QED
  BY <1>2, <1>4 DEF OwnInv

\* What one worker does is nothing to another one.
Rests(v) ==
    /\ pc'[v] = pc[v] /\ cur'[v] = cur[v] /\ hup'[v] = hup[v] /\ batch'[v] = batch[v]
    /\ cursor'[v] = cursor[v] /\ interest'[v] = interest[v]
    /\ \A fd \in interest[v] : conns'[fd] = conns[fd]

LEMMA RestsAt ==
    ASSUME EpollInv, Broken => Broken', NEW v \in Worker, Rests(v)
    PROVE  WorkerAt(v)' /\ (incoming'[v] = incoming[v] => ListAt(v)' /\ Holds(v)' = Holds(v))
<1>1. WorkerAt(v) /\ ListAt(v)
  BY DEF EpollInv, OwnInv
<1>2. WorkerAt(v)'
  BY <1>1 DEF WorkerAt, Rests
<1>3. incoming'[v] = incoming[v] => ListAt(v)' /\ Holds(v)' = Holds(v)
  BY <1>1 DEF ListAt, Rests, Holds, Listed
<1> QED
  BY <1>2, <1>3

\* A step of worker w that takes no connection and closes none.
LEMMA StaysPlaced ==
    ASSUME EpollInv, Broken => Broken', NEW w \in Worker,
           \A v \in Worker \ {w} : Rests(v) /\ incoming'[v] = incoming[v],
           WorkerAt(w)', ListAt(w)', \A fd : fd \in Holds(w)' <=> fd \in Holds(w),
           UNCHANGED sock, \A fd \in Fd : conns'[fd] # NULL => sock[fd] # NULL
    PROVE  OwnInv'
<1>1. \A v \in Worker : WorkerAt(v)' /\ ListAt(v)'
  BY RestsAt
<1>2. \A v \in Worker : \A fd : fd \in Holds(v)' <=> fd \in Holds(v)
  BY RestsAt
<1>3. Placed'
  BY <1>2 DEF EpollInv, OwnInv, Placed
<1> QED
  BY <1>1, <1>3 DEF OwnInv

\* The clients touch nothing of the workers.
LEMMA ClientOwn ==
    ASSUME EpollInv, NEW c \in Client,
           Send(c) \/ Leave(c) \/ \E w \in Worker : Connect(c, w)
    PROVE  OwnInv'
<1>1. UNCHANGED <<conns, incoming, pc, batch, cur, hup, cursor, interest, sock>>
  BY DEF Send, Leave, Connect, table, local, kernel
<1>2. Broken => Broken'
  BY DEF Send, Leave, Connect, Broken, EpollInv, TypeOK
<1>3. \A v \in Worker : Rests(v)
  BY <1>1 DEF Rests
<1>4. \A v \in Worker : WorkerAt(v)' /\ ListAt(v)' /\ Holds(v)' = Holds(v)
  BY <1>1, <1>2, <1>3, RestsAt
<1>5. Placed'
  BY <1>1, <1>4 DEF EpollInv, OwnInv, Placed
<1> QED
  BY <1>4, <1>5 DEF OwnInv

LEMMA WaitOwn ==
    ASSUME EpollInv, NEW w \in Worker, EpollWait(w)
    PROVE  OwnInv'
<1>1. /\ pc[w] = "wait" /\ pc' = [pc EXCEPT ![w] = "batch"]
      /\ batch' = [batch EXCEPT ![w] = Ready(w)]
      /\ UNCHANGED <<conns, incoming, interest, sock, cst, cur, hup, cursor>>
  BY DEF EpollWait, At, Goes, table, kernel, client
<1>2. pc'[w] = "batch" /\ batch'[w] = Ready(w)
      /\ \A v \in Worker \ {w} : pc'[v] = pc[v] /\ batch'[v] = batch[v]
  BY <1>1 DEF EpollInv, TypeOK
<1>3. WorkerAt(w) /\ ListAt(w)
  BY DEF EpollInv, OwnInv
<1>4. \A g \in interest[w] : g # Listen /\ g # EvFd
  <2>1. Listen \notin Fd /\ EvFd \notin Fd
    BY Sizes DEF Fd, Listen, EvFd
  <2> QED
    BY <2>1, WhoseSocket
<1> DEFINE For(fd) == [fd |-> fd, err |-> cst[sock[fd]] = "reset"]
<1>5. ASSUME NEW e \in Ready(w)
      PROVE  \/ e.fd = Listen /\ e = [fd |-> Listen, err |-> FALSE]
             \/ e.fd = EvFd /\ e = [fd |-> EvFd, err |-> FALSE]
             \/ e.fd \in interest[w] /\ e = For(e.fd)
  <2>1. \/ e = [fd |-> Listen, err |-> FALSE]
        \/ e = [fd |-> EvFd, err |-> FALSE]
        \/ \E g \in interest[w] : e = For(g)
    <3> DEFINE A == { [fd |-> Listen, err |-> FALSE] : b \in backlog[w] }
               B == { [fd |-> EvFd, err |-> FALSE] : n \in 1 .. event_fd[w] }
               R == { g \in interest[w] : Readable(g) }
               C == { [fd |-> fd, err |-> cst[sock[fd]] = "reset"] : fd \in R }
    <3>1. Ready(w) = A \cup B \cup C
      BY DEF Ready
    <3>2. e \in A => e = [fd |-> Listen, err |-> FALSE]
      BY Zenon
    <3>3. e \in B => e = [fd |-> EvFd, err |-> FALSE]
      BY Zenon
    <3>4. R \subseteq interest[w]
      OBVIOUS
    <3> HIDE DEF R
    <3>5. e \in C => \E g \in R : e = For(g)
      BY Zenon
    <3> HIDE DEF A, B, C
    <3>6. e \in A \/ e \in B \/ e \in C
      BY <3>1
    <3> QED
      BY <3>2, <3>3, <3>4, <3>5, <3>6, Zenon
  <2>2. CASE e = [fd |-> Listen, err |-> FALSE]
    BY <2>2
  <2>3. CASE e = [fd |-> EvFd, err |-> FALSE]
    BY <2>3
  <2>4. ASSUME NEW g \in interest[w], e = For(g) PROVE e.fd = g
    BY <2>4, Zenon
  <2> HIDE DEF For
  <2> QED
    BY <2>1, <2>2, <2>3, <2>4, Zenon
<1> HIDE DEF For
<1>6. \A e \in Ready(w) : /\ e.err => Broken
                          /\ e.fd \in Fd => e.fd \in interest[w]
  <2>1. Listen \notin Fd /\ EvFd \notin Fd
    BY Sizes DEF Fd, Listen, EvFd
  <2>2. \A g \in interest[w] : cst[sock[g]] = "reset" => Broken
    BY WhoseSocket DEF Broken
  <2>3. ASSUME NEW e \in Ready(w), e.err PROVE Broken
    <3>1. ~[fd |-> Listen, err |-> FALSE].err /\ ~[fd |-> EvFd, err |-> FALSE].err
      OBVIOUS
    <3>2. PICK g \in interest[w] : e = For(g)
      BY <1>5, <2>3, <3>1, Zenon
    <3>3. For(g).err <=> cst[sock[g]] = "reset"
      BY Zenon DEF For
    <3> QED
      BY <2>2, <2>3, <3>2, <3>3, Zenon
  <2> QED
    BY <1>5, <2>1, <2>3
<1>7. \A d, e \in Ready(w) : d.fd = e.fd => d = e
  <2>1. Listen # EvFd
    BY DEF Listen, EvFd
  <2> QED
    BY <1>4, <1>5, <2>1
<1>8. WorkerAt(w)'
  BY <1>1, <1>2, <1>3, <1>6, <1>7 DEF WorkerAt, Broken
<1>9. ListAt(w)' /\ \A fd : fd \in Holds(w)' <=> fd \in Holds(w)
  BY <1>1, <1>2, <1>3, HoldsIs DEF ListAt, Holds, Listed
<1>10. \A v \in Worker \ {w} : Rests(v)
  BY <1>1, <1>2 DEF Rests
<1> QED
  BY <1>1, <1>8, <1>9, <1>10, StaysPlaced DEF Broken, EpollInv, OwnInv, Placed

LEMMA DispatchOwn ==
    ASSUME EpollInv, NEW w \in Worker, Dispatch(w)
    PROVE  OwnInv'
<1>1. /\ pc[w] = "batch"
      /\ UNCHANGED <<conns, incoming, interest, sock, cst, cursor>>
  BY DEF Dispatch, At, table, kernel, client
<1>2. WorkerAt(w) /\ ListAt(w)
  BY DEF EpollInv, OwnInv
<1>3. \A fd \in Fd : conns'[fd] # NULL => sock[fd] # NULL
  BY <1>1 DEF EpollInv, OwnInv, Placed
<1>4. CASE UNCHANGED <<batch, cur, hup>> /\ Goes(w, "wait") /\ batch[w] = {}
  <2>1. pc'[w] = "wait" /\ \A v \in Worker \ {w} : pc'[v] = pc[v]
    BY <1>4 DEF Goes, EpollInv, TypeOK
  <2>2. WorkerAt(w)' /\ ListAt(w)'
    BY <1>1, <1>2, <1>4, <2>1 DEF WorkerAt, ListAt, Broken
  <2>3. \A fd : fd \in Holds(w)' <=> fd \in Holds(w)
    BY <1>1, <2>1 DEF Holds, Listed
  <2>4. \A v \in Worker \ {w} : Rests(v)
    BY <1>1, <1>4, <2>1 DEF Rests
  <2> QED
    BY <1>1, <1>3, <2>2, <2>3, <2>4, StaysPlaced DEF Broken
<1>5. ASSUME NEW e \in batch[w], NEW p \in {"accept", "event", "close", "enter"},
             batch' = [batch EXCEPT ![w] = @ \ {e}], p \in {"close", "enter"} => e.fd \in Fd,
             cur' = [cur EXCEPT ![w] = e.fd], hup' = [hup EXCEPT ![w] = e.err], Goes(w, p)
      PROVE  OwnInv'
  <2>1. /\ pc'[w] = p /\ cur'[w] = e.fd /\ hup'[w] = e.err /\ batch'[w] = batch[w] \ {e}
        /\ \A v \in Worker \ {w} : pc'[v] = pc[v] /\ cur'[v] = cur[v] /\ hup'[v] = hup[v]
                                   /\ batch'[v] = batch[v]
    BY <1>5 DEF Goes, EpollInv, TypeOK
  <2>2. WorkerAt(w)' /\ ListAt(w)'
    BY <1>1, <1>2, <1>5, <2>1 DEF WorkerAt, ListAt, Broken
  <2>3. \A fd : fd \in Holds(w)' <=> fd \in Holds(w)
    BY <1>1, <2>1 DEF Holds, Listed
  <2>4. \A v \in Worker \ {w} : Rests(v)
    BY <1>1, <1>5, <2>1 DEF Rests
  <2> QED
    BY <1>1, <1>3, <2>2, <2>3, <2>4, StaysPlaced DEF Broken
<1> QED
  BY <1>4, <1>5 DEF Dispatch

\* A connection that is accepted was with nobody, and is on one list then.
LEMMA AcceptOwn ==
    ASSUME EpollInv, NEW w \in Worker, Accept(w)
    PROVE  OwnInv'
<1>1. CASE AcceptsNone(w)
  <2>1. /\ pc[w] = "accept" /\ pc' = [pc EXCEPT ![w] = "batch"]
        /\ UNCHANGED <<conns, incoming, interest, sock, cst, cursor, batch, cur, hup>>
    BY <1>1 DEF AcceptsNone, table, kernel, client
  <2>2. pc'[w] = "batch" /\ \A v \in Worker \ {w} : pc'[v] = pc[v]
    BY <2>1 DEF EpollInv, TypeOK
  <2>3. WorkerAt(w)' /\ ListAt(w)'
    BY <2>1, <2>2 DEF WorkerAt, ListAt, Broken, EpollInv, OwnInv
  <2>4. \A fd : fd \in Holds(w)' <=> fd \in Holds(w)
    BY <2>1, <2>2 DEF Holds, Listed
  <2>5. \A v \in Worker \ {w} : Rests(v)
    BY <2>1, <2>2 DEF Rests
  <2>6. \A fd \in Fd : conns'[fd] # NULL => sock[fd] # NULL
    BY <2>1 DEF EpollInv, OwnInv, Placed
  <2> QED
    BY <2>1, <2>3, <2>4, <2>5, <2>6, StaysPlaced DEF Broken
<1>2. ASSUME NEW c, NEW fd, NEW owner, Accepts(w, c, fd, owner) PROVE OwnInv'
  <2>1. /\ fd \in Fd /\ sock[fd] = NULL /\ owner \in Worker /\ c \in Client
        /\ sock' = [sock EXCEPT ![fd] = c]
        /\ incoming' = [incoming EXCEPT ![owner] = <<fd>> \o @]
        /\ UNCHANGED <<conns, interest, cst, pc, batch, cur, hup, cursor>>
    BY <1>2 DEF Accepts, client, EpollInv, TypeOK
  <2>2. /\ sock'[fd] = c /\ \A gd \in Fd \ {fd} : sock'[gd] = sock[gd]
        /\ incoming'[owner] = <<fd>> \o incoming[owner]
        /\ \A v \in Worker \ {owner} : incoming'[v] = incoming[v]
        /\ incoming[owner] \in Seq(Fd)
    BY <2>1 DEF EpollInv, TypeOK
  <2>3. \A v \in Worker : fd \notin Holds(v)
    BY <2>1 DEF EpollInv, OwnInv, Placed
  <2>4. \A v \in Worker : Rests(v) /\ (Broken => Broken')
    BY <2>1 DEF Rests, Broken
  <2>5. /\ \A v \in Worker : WorkerAt(v)'
        /\ \A v \in Worker \ {owner} : ListAt(v)' /\ Holds(v)' = Holds(v)
    BY <2>2, <2>4, RestsAt
  <2>6. Elems(incoming'[owner]) = Elems(incoming[owner]) \cup {fd}
    BY <2>1, <2>2, Pushed
  <2>7. ListAt(owner)'
    <3>1. fd \notin Elems(incoming[owner]) /\ fd \notin interest[owner]
          /\ ~(pc[owner] = "register" /\ cur[owner] = fd)
      BY <2>1, <2>3, HoldsIs
    <3>2. ListAt(owner)
      BY <2>1 DEF EpollInv, OwnInv
    <3>3. Distinct(incoming'[owner])
      BY <2>1, <2>2, <3>1, <3>2, Pushed DEF ListAt
    <3> QED
      BY <2>1, <2>6, <3>1, <3>2, <3>3 DEF ListAt
  <2>8. \A gd : gd \in Holds(owner)' <=> gd \in Holds(owner) \/ gd = fd
    <3>1. Listed(owner)' = Listed(owner) \cup {fd}
      BY <2>6 DEF Listed, Elems
    <3> QED
      BY <2>1, <3>1 DEF Holds
  <2>9. Placed'
    <3>1. \A gd \in Fd : sock'[gd] # NULL => \E v \in Worker : gd \in Holds(v)'
      <4>1. \A gd \in Fd \ {fd} : sock[gd] # NULL => \E v \in Worker : gd \in Holds(v)
        BY DEF EpollInv, OwnInv, Placed
      <4> QED
        BY <2>1, <2>2, <2>5, <2>8, <4>1
    <3>2. \A v \in Worker : \A gd \in Holds(v)' : gd \in Fd /\ sock'[gd] # NULL
      <4>1. \A v \in Worker : \A gd \in Holds(v) : gd \in Fd /\ sock[gd] # NULL /\ gd # fd
        BY <2>3 DEF EpollInv, OwnInv, Placed
      <4> QED
        BY <2>1, <2>2, <2>5, <2>8, <4>1, Sizes
    <3>3. \A u, v \in Worker : \A gd \in Holds(u)' : gd \in Holds(v)' => u = v
      <4>1. \A u, v \in Worker : \A gd \in Holds(u) : gd \in Holds(v) => u = v
        BY DEF EpollInv, OwnInv, Placed
      <4> QED
        BY <2>3, <2>5, <2>8, <4>1
    <3>4. \A gd \in Fd : conns'[gd] # NULL => sock'[gd] # NULL
      BY <2>1, <2>2, Sizes DEF EpollInv, OwnInv, Placed
    <3> QED
      BY <3>1, <3>2, <3>3, <3>4 DEF Placed
  <2> QED
    BY <2>5, <2>7, <2>9 DEF OwnInv
<1> QED
  BY <1>1, <1>2, AcceptIs

\* A step in which worker w only goes on.
GoesOn(w, p) ==
    /\ pc[w] # "register" /\ p # "register" /\ pc' = [pc EXCEPT ![w] = p]
    /\ cursor' = [cursor EXCEPT ![w] = cursor'[w]]
    /\ UNCHANGED <<conns, incoming, interest, sock, cst, cur, hup, batch>>

LEMMA GoesOnOwn ==
    ASSUME EpollInv, NEW w \in Worker, NEW p, GoesOn(w, p), WorkerAt(w)'
    PROVE  OwnInv'
<1>1. pc'[w] = p /\ \A v \in Worker \ {w} : pc'[v] = pc[v] /\ cursor'[v] = cursor[v]
  BY DEF GoesOn, EpollInv, TypeOK
<1>2. ListAt(w)'
  BY <1>1 DEF GoesOn, ListAt, EpollInv, OwnInv
<1>3. \A fd : fd \in Holds(w)' <=> fd \in Holds(w)
  BY <1>1 DEF GoesOn, Holds, Listed
<1>4. \A v \in Worker \ {w} : Rests(v)
  BY <1>1 DEF GoesOn, Rests
<1>5. \A fd \in Fd : conns'[fd] # NULL => sock[fd] # NULL
  BY DEF GoesOn, EpollInv, OwnInv, Placed
<1>6. /\ \A v \in Worker \ {w} : incoming'[v] = incoming[v]
      /\ UNCHANGED sock /\ (Broken => Broken')
  BY DEF GoesOn, Broken
<1> QED
  BY <1>2, <1>3, <1>4, <1>5, <1>6, StaysPlaced

LEMMA EventOwn ==
    ASSUME EpollInv, NEW w \in Worker, Notify(w) \/ on_event(w)
    PROVE  OwnInv'
<1>0. WorkerAt(w) /\ pc \in [Worker -> {"wait", "batch", "accept", "event", "drain",
           "register", "enter", "read", "write", "close", "closed", "segv", "stray", "sigpipe"}]
      /\ cursor \in [Worker -> 0 .. msg_size]
  BY DEF EpollInv, OwnInv, TypeOK
<1>1. CASE Notify(w)
  <2>1. pc[w] = "accept"
        /\ UNCHANGED <<conns, incoming, interest, sock, cst, cur, hup, batch, pc, cursor>>
    BY <1>1 DEF Notify, At, table, client
  <2>2. GoesOn(w, "accept") /\ WorkerAt(w)'
    BY <1>0, <2>1 DEF GoesOn, WorkerAt, Broken
  <2> QED
    BY <2>2, GoesOnOwn
<1>2. CASE on_event(w)
  <2>1. pc[w] = "event" /\ pc' = [pc EXCEPT ![w] = "drain"]
        /\ UNCHANGED <<conns, incoming, interest, sock, cst, cur, hup, batch, cursor>>
    BY <1>2 DEF on_event, At, Goes, table, client
  <2>2. GoesOn(w, "drain") /\ WorkerAt(w)'
    BY <1>0, <2>1 DEF GoesOn, WorkerAt, Broken
  <2> QED
    BY <2>2, GoesOnOwn
<1> QED
  BY <1>1, <1>2

LEMMA EnterOwn ==
    ASSUME EpollInv, NEW w \in Worker, EnterRead(w)
    PROVE  OwnInv'
<1>0. WorkerAt(w) /\ pc \in [Worker -> {"wait", "batch", "accept", "event", "drain",
           "register", "enter", "read", "write", "close", "closed", "segv", "stray", "sigpipe"}]
      /\ cursor \in [Worker -> 0 .. msg_size]
      /\ conns \in [Fd -> (0 .. msg_size - 1) \cup {NULL}] /\ interest \in [Worker -> SUBSET Fd]
  BY DEF EpollInv, OwnInv, TypeOK
<1>1. pc[w] = "enter" /\ UNCHANGED <<conns, incoming, interest, sock, cst, cur, hup, batch>>
  BY DEF EnterRead, At, table, kernel, client
<1>2. ASSUME NEW p \in {"segv", "stray"}, Goes(w, p), UNCHANGED cursor PROVE OwnInv'
  <2>1. GoesOn(w, p) /\ WorkerAt(w)'
    BY <1>0, <1>1, <1>2 DEF GoesOn, Goes, WorkerAt, Broken
  <2> QED
    BY <2>1, GoesOnOwn
<1>3. CASE /\ conns[cur[w]] # NULL /\ cur[w] \in interest[w]
           /\ cursor' = [cursor EXCEPT ![w] = conns[cur[w]]] /\ Goes(w, "read")
  <2>1. conns[cur[w]] \in 0 .. msg_size - 1 /\ cursor'[w] = conns[cur[w]]
    BY <1>0, <1>3
  <2>2. cursor'[w] < msg_size
    BY <2>1, Sizes
  <2>3. GoesOn(w, "read") /\ WorkerAt(w)'
    BY <1>0, <1>1, <1>3, <2>2 DEF GoesOn, Goes, WorkerAt, Broken
  <2> QED
    BY <2>3, GoesOnOwn
<1> QED
  BY <1>2, <1>3 DEF EnterRead

LEMMA WriteOwn ==
    ASSUME EpollInv, NEW w \in Worker, Write(w)
    PROVE  OwnInv'
<1>0. WorkerAt(w) /\ pc \in [Worker -> {"wait", "batch", "accept", "event", "drain",
           "register", "enter", "read", "write", "close", "closed", "segv", "stray", "sigpipe"}]
      /\ cursor \in [Worker -> 0 .. msg_size]
  BY DEF EpollInv, OwnInv, TypeOK
<1>1. pc[w] = "write" /\ UNCHANGED <<conns, incoming, interest, sock, cst, cur, hup, batch>>
  BY DEF Write, At, table, kernel
<1>2. \E p \in {"write", "batch", "sigpipe"} :
        pc' = [pc EXCEPT ![w] = p] /\ cursor' = [cursor EXCEPT ![w] = cursor'[w]]
  BY <1>0 DEF Write, Goes
<1>3. PICK p \in {"write", "batch", "sigpipe"} :
        pc' = [pc EXCEPT ![w] = p] /\ cursor' = [cursor EXCEPT ![w] = cursor'[w]]
  BY <1>2
<1>4. GoesOn(w, p) /\ WorkerAt(w)'
  BY <1>0, <1>1, <1>3 DEF GoesOn, WorkerAt, Broken
<1> QED
  BY <1>4, GoesOnOwn

\* From the list to the hands of its owner.
LEMMA TakeOwn ==
    ASSUME EpollInv, NEW w \in Worker, TakeNew(w)
    PROVE  OwnInv'
<1>0. /\ WorkerAt(w) /\ ListAt(w)
      /\ pc \in [Worker -> {"wait", "batch", "accept", "event", "drain",
           "register", "enter", "read", "write", "close", "closed", "segv", "stray", "sigpipe"}]
      /\ incoming \in [Worker -> Seq(Fd)] /\ cur \in [Worker -> Fd \cup {Listen, EvFd}]
      /\ cursor \in [Worker -> 0 .. msg_size]
  BY DEF EpollInv, OwnInv, TypeOK
<1>1. pc[w] = "drain" /\ UNCHANGED <<conns, interest, sock, cst, hup, batch, cursor>>
  BY DEF TakeNew, At, kernel, client
<1>2. CASE incoming[w] = <<>>
  <2>1. GoesOn(w, "batch") /\ WorkerAt(w)'
    BY <1>0, <1>1, <1>2 DEF TakeNew, GoesOn, Goes, WorkerAt, Broken
  <2> QED
    BY <2>1, GoesOnOwn
<1>3. CASE incoming[w] # <<>>
  <2>1. /\ pc'[w] = "register" /\ cur'[w] = Head(incoming[w]) /\ incoming'[w] = Tail(incoming[w])
        /\ \A v \in Worker \ {w} : pc'[v] = pc[v] /\ cur'[v] = cur[v] /\ incoming'[v] = incoming[v]
    BY <1>0, <1>3 DEF TakeNew, Goes
  <2>2. /\ cur'[w] \in Fd /\ cur'[w] \in Elems(incoming[w])
        /\ Distinct(incoming'[w]) /\ Elems(incoming'[w]) = Elems(incoming[w]) \ {cur'[w]}
    BY <1>0, <1>3, <2>1, Popped DEF ListAt
  <2>3. cur'[w] \notin interest[w]
    BY <1>0, <2>2 DEF ListAt
  <2>4. WorkerAt(w)'
    BY <1>0, <1>1, <2>1, <2>2, <2>3 DEF WorkerAt, Broken
  <2>5. ListAt(w)'
    BY <1>0, <1>1, <2>1, <2>2, <2>3 DEF ListAt
  <2>6. ASSUME NEW fd PROVE fd \in Holds(w)' <=> fd \in Holds(w)
    <3>1. fd \in Holds(w)' <=> \/ fd \in Elems(incoming'[w]) \/ fd \in interest'[w]
                               \/ pc'[w] = "register" /\ fd = cur'[w]
      BY DEF Holds, Listed, Elems
    <3> QED
      BY <1>1, <2>1, <2>2, <3>1, HoldsIs
  <2>7. \A v \in Worker \ {w} : Rests(v)
    BY <1>1, <2>1 DEF Rests
  <2>8. \A fd \in Fd : conns'[fd] # NULL => sock[fd] # NULL
    BY <1>1 DEF EpollInv, OwnInv, Placed
  <2> QED
    BY <1>1, <2>1, <2>4, <2>5, <2>6, <2>7, <2>8, StaysPlaced DEF Broken
<1> QED
  BY <1>2, <1>3

\* What worker w has is not another one's.
LEMMA NotOthers ==
    ASSUME EpollInv, NEW w \in Worker, NEW fd \in Holds(w)
    PROVE  /\ fd \in Fd /\ sock[fd] # NULL
           /\ \A v \in Worker \ {w} : fd \notin interest[v]
BY HoldsIs DEF EpollInv, OwnInv, Placed

\* And from there to the epoll set.
LEMMA RegisterOwn ==
    ASSUME EpollInv, NEW w \in Worker, Register(w)
    PROVE  OwnInv'
<1>0. /\ WorkerAt(w) /\ ListAt(w)
      /\ pc \in [Worker -> {"wait", "batch", "accept", "event", "drain",
           "register", "enter", "read", "write", "close", "closed", "segv", "stray", "sigpipe"}]
      /\ conns \in [Fd -> (0 .. msg_size - 1) \cup {NULL}] /\ interest \in [Worker -> SUBSET Fd]
  BY DEF EpollInv, OwnInv, TypeOK
<1>1. PICK fd : fd = cur[w]
  OBVIOUS
<1>2. /\ pc[w] = "register" /\ pc' = [pc EXCEPT ![w] = "drain"]
      /\ conns' = [conns EXCEPT ![fd] = 0]
      /\ interest' = [interest EXCEPT ![w] = @ \cup {fd}]
      /\ UNCHANGED <<incoming, sock, cst, cur, hup, batch, cursor>>
  BY <1>1 DEF Register, At, Goes, client
<1>3. /\ fd \in Fd /\ sock[fd] # NULL /\ fd \notin interest[w] /\ fd \notin Elems(incoming[w])
      /\ \A v \in Worker \ {w} : fd \notin interest[v]
  BY <1>0, <1>1, <1>2, HoldsIs, NotOthers DEF ListAt
<1>4. /\ pc'[w] = "drain" /\ interest'[w] = interest[w] \cup {fd}
      /\ \A v \in Worker \ {w} : pc'[v] = pc[v] /\ interest'[v] = interest[v]
      /\ conns'[fd] = 0 /\ \A gd \in Fd \ {fd} : conns'[gd] = conns[gd]
  BY <1>0, <1>2, <1>3
<1>5. WorkerAt(w)'
  <2>1. \A gd \in interest[w] : gd \in Fd \ {fd} /\ conns[gd] # NULL
    BY <1>0, <1>2, <1>3 DEF WorkerAt
  <2>2. \A gd \in interest'[w] : conns'[gd] # NULL
    BY <1>4, <2>1, Sizes
  <2> QED
    BY <1>0, <1>1, <1>2, <1>4, <2>2 DEF WorkerAt, Broken
<1>6. ListAt(w)'
  BY <1>0, <1>2, <1>3, <1>4 DEF ListAt
<1>7. ASSUME NEW gd PROVE gd \in Holds(w)' <=> gd \in Holds(w)
  <2>1. gd \in Holds(w)' <=> \/ gd \in Elems(incoming[w]) \/ gd \in interest'[w]
                             \/ pc'[w] = "register" /\ gd = cur[w]
    BY <1>2 DEF Holds, Listed, Elems
  <2> QED
    BY <1>1, <1>2, <1>4, <2>1, HoldsIs
<1>8. \A v \in Worker \ {w} : Rests(v)
  <2>1. \A v \in Worker \ {w} : \A gd \in interest[v] : gd \in Fd \ {fd}
    BY <1>0, <1>3
  <2> QED
    BY <1>2, <1>4, <2>1 DEF Rests
<1>9. \A gd \in Fd : conns'[gd] # NULL => sock[gd] # NULL
  BY <1>3, <1>4 DEF EpollInv, OwnInv, Placed
<1> QED
  BY <1>2, <1>5, <1>6, <1>7, <1>8, <1>9, StaysPlaced DEF Broken

LEMMA ReadOwn ==
    ASSUME EpollInv, NEW w \in Worker, Read(w)
    PROVE  OwnInv'
<1>0. /\ WorkerAt(w) /\ ListAt(w)
      /\ pc \in [Worker -> {"wait", "batch", "accept", "event", "drain",
           "register", "enter", "read", "write", "close", "closed", "segv", "stray", "sigpipe"}]
      /\ cursor \in [Worker -> 0 .. msg_size] /\ interest \in [Worker -> SUBSET Fd]
      /\ conns \in [Fd -> (0 .. msg_size - 1) \cup {NULL}]
  BY DEF EpollInv, OwnInv, TypeOK
<1>1. PICK c, n : Reads(w, c, n)
  BY ReadIs
<1>2. pc[w] = "read" /\ UNCHANGED <<incoming, interest, sock, batch, cur, hup, cst>>
  BY <1>1 DEF Reads, kernel
<1>3. CASE /\ n > 0 /\ cursor[w] + n < msg_size
           /\ cursor' = [cursor EXCEPT ![w] = @ + n] /\ UNCHANGED <<conns, pc>>
  <2>1. cursor'[w] < msg_size /\ cursor' = [cursor EXCEPT ![w] = cursor'[w]]
    BY <1>0, <1>3
  <2>2. GoesOn(w, "read") /\ WorkerAt(w)'
    BY <1>0, <1>2, <1>3, <2>1 DEF GoesOn, WorkerAt, Broken
  <2> QED
    BY <2>2, GoesOnOwn
<1>4. CASE pc' = [pc EXCEPT ![w] = "close"] /\ UNCHANGED <<conns, sread, cursor>>
  <2>1. GoesOn(w, "close") /\ WorkerAt(w)'
    BY <1>0, <1>2, <1>4 DEF GoesOn, WorkerAt, Broken
  <2> QED
    BY <2>1, GoesOnOwn
<1>5. ASSUME NEW k \in {0, cursor[w]}, NEW p \in {"write", "batch"},
             cursor' = [cursor EXCEPT ![w] = cursor'[w]],
             conns' = [conns EXCEPT ![cur[w]] = k], pc' = [pc EXCEPT ![w] = p]
      PROVE  OwnInv'
  <2>1. PICK fd : fd = cur[w]
    OBVIOUS
  <2>2. /\ fd \in interest[w] /\ fd \in Fd /\ sock[fd] # NULL
        /\ \A v \in Worker \ {w} : fd \notin interest[v]
    BY <1>0, <1>2, <2>1, HoldsIs, NotOthers DEF WorkerAt
  <2>3. k # NULL
    BY <1>0, Sizes
  <2>4. /\ conns'[fd] = k /\ \A gd \in Fd \ {fd} : conns'[gd] = conns[gd]
        /\ pc'[w] = p /\ \A v \in Worker \ {w} : pc'[v] = pc[v] /\ cursor'[v] = cursor[v]
    BY <1>0, <1>5, <2>1, <2>2
  <2>5. WorkerAt(w)'
    <3>1. \A gd \in interest[w] : conns'[gd] # NULL
      BY <1>0, <1>2, <2>3, <2>4 DEF WorkerAt
    <3> QED
      BY <1>0, <1>2, <1>5, <2>4, <3>1 DEF WorkerAt, Broken
  <2>6. ListAt(w)'
    BY <1>0, <1>2, <1>5, <2>4 DEF ListAt
  <2>7. \A gd : gd \in Holds(w)' <=> gd \in Holds(w)
    BY <1>2, <1>5, <2>4 DEF Holds, Listed
  <2>8. \A v \in Worker \ {w} : Rests(v)
    <3>1. \A v \in Worker \ {w} : \A gd \in interest[v] : gd \in Fd \ {fd}
      BY <1>0, <2>2
    <3> QED
      BY <1>2, <2>4, <3>1 DEF Rests
  <2>9. \A gd \in Fd : conns'[gd] # NULL => sock[gd] # NULL
    BY <2>2, <2>4 DEF EpollInv, OwnInv, Placed
  <2> QED
    BY <1>2, <2>5, <2>6, <2>7, <2>8, <2>9, StaysPlaced DEF Broken
<1>6. UNCHANGED cursor => cursor' = [cursor EXCEPT ![w] = cursor'[w]]
  BY <1>0
<1>7. cursor' = [cursor EXCEPT ![w] = 0] => cursor' = [cursor EXCEPT ![w] = cursor'[w]]
  BY <1>0
<1> QED
  BY <1>1, <1>3, <1>4, <1>5, <1>6, <1>7 DEF Reads

\* conns[fd] = NULL, while the descriptor is still the worker's.
LEMMA UnslotOwn ==
    ASSUME EpollInv, NEW w \in Worker, OnCloseStep(w), pc[w] = "close"
    PROVE  OwnInv'
<1>0. /\ WorkerAt(w) /\ ListAt(w)
      /\ pc \in [Worker -> {"wait", "batch", "accept", "event", "drain",
           "register", "enter", "read", "write", "close", "closed", "segv", "stray", "sigpipe"}]
      /\ conns \in [Fd -> (0 .. msg_size - 1) \cup {NULL}] /\ interest \in [Worker -> SUBSET Fd]
  BY DEF EpollInv, OwnInv, TypeOK
<1>1. PICK fd : fd = cur[w]
  OBVIOUS
<1>2. /\ pc' = [pc EXCEPT ![w] = "closed"] /\ conns' = [conns EXCEPT ![fd] = NULL]
      /\ UNCHANGED <<incoming, interest, sock, cst, cur, hup, batch, cursor>>
  BY <1>1 DEF OnCloseStep, At, Goes, Unslot, client
<1>3. /\ fd \in interest[w] /\ fd \in Fd
      /\ \A v \in Worker \ {w} : fd \notin interest[v]
  BY <1>0, <1>1, HoldsIs, NotOthers DEF WorkerAt
<1>4. /\ pc'[w] = "closed" /\ \A v \in Worker \ {w} : pc'[v] = pc[v]
      /\ conns'[fd] = NULL /\ \A gd \in Fd \ {fd} : conns'[gd] = conns[gd]
  BY <1>0, <1>2, <1>3
<1>5. WorkerAt(w)'
  <2>1. \A gd \in interest[w] : conns[gd] # NULL
    BY <1>0 DEF WorkerAt
  <2>2. \A gd \in interest'[w] : conns'[gd] = NULL <=> pc'[w] = "closed" /\ cur'[w] = gd
    BY <1>0, <1>1, <1>2, <1>4, <2>1
  <2> QED
    BY <1>0, <1>2, <1>4, <2>2 DEF WorkerAt, Broken
<1>6. ListAt(w)'
  BY <1>0, <1>2, <1>4 DEF ListAt
<1>7. \A gd : gd \in Holds(w)' <=> gd \in Holds(w)
  BY <1>2, <1>4 DEF Holds, Listed
<1>8. \A v \in Worker \ {w} : Rests(v)
  <2>1. \A v \in Worker \ {w} : \A gd \in interest[v] : gd \in Fd \ {fd}
    BY <1>0, <1>3
  <2> QED
    BY <1>2, <1>4, <2>1 DEF Rests
<1>9. \A gd \in Fd : conns'[gd] # NULL => sock[gd] # NULL
  BY <1>4 DEF EpollInv, OwnInv, Placed
<1> QED
  BY <1>2, <1>5, <1>6, <1>7, <1>8, <1>9, StaysPlaced DEF Broken

\* close: the descriptor is nobody's, and conns[] has nothing for it.
LEMMA ReleaseOwn ==
    ASSUME EpollInv, NEW w \in Worker, OnCloseStep(w), pc[w] = "closed"
    PROVE  OwnInv'
<1>0. /\ WorkerAt(w) /\ ListAt(w)
      /\ pc \in [Worker -> {"wait", "batch", "accept", "event", "drain",
           "register", "enter", "read", "write", "close", "closed", "segv", "stray", "sigpipe"}]
      /\ interest \in [Worker -> SUBSET Fd] /\ sock \in [Fd -> Client \cup {NULL}]
      /\ hup \in [Worker -> BOOLEAN]
  BY DEF EpollInv, OwnInv, TypeOK
<1>1. PICK fd : fd = cur[w]
  OBVIOUS
<1>2. /\ pc' = [pc EXCEPT ![w] = IF hup[w] THEN "enter" ELSE "batch"]
      /\ hup' = [hup EXCEPT ![w] = FALSE]
      /\ interest' = [interest EXCEPT ![w] = @ \ {fd}] /\ sock' = [sock EXCEPT ![fd] = NULL]
      /\ UNCHANGED <<conns, incoming, cst, cur, batch, cursor>>
  BY <1>1 DEF OnCloseStep, At, Goes, Release, AfterClose, client
<1>3. /\ fd \in interest[w] /\ fd \in Fd /\ conns[fd] = NULL
      /\ \A v \in Worker \ {w} : fd \notin Holds(v) /\ fd \notin interest[v]
  <2>1. fd \in interest[w] /\ conns[fd] = NULL
    BY <1>0, <1>1 DEF WorkerAt
  <2>2. fd \in Holds(w)
    BY <2>1, HoldsIs
  <2> QED
    BY <2>1, <2>2, HoldsIs DEF EpollInv, OwnInv, Placed
<1>4. /\ pc'[w] \in {"enter", "batch"} /\ (pc'[w] = "enter" => Broken)
      /\ interest'[w] = interest[w] \ {fd} /\ ~hup'[w]
      /\ \A v \in Worker \ {w} : pc'[v] = pc[v] /\ interest'[v] = interest[v] /\ hup'[v] = hup[v]
      /\ sock'[fd] = NULL /\ \A gd \in Fd \ {fd} : sock'[gd] = sock[gd]
  <2>1. CASE hup[w]
    <3>1. pc' = [pc EXCEPT ![w] = "enter"] /\ Broken
      BY <1>0, <1>2, <2>1 DEF WorkerAt
    <3> QED
      BY <1>0, <1>2, <1>3, <3>1
  <2>2. CASE ~hup[w]
    <3>1. pc' = [pc EXCEPT ![w] = "batch"]
      BY <1>2, <2>2
    <3> QED
      BY <1>0, <1>2, <1>3, <3>1
  <2> QED
    BY <2>1, <2>2
<1>5. Broken' <=> Broken
  BY <1>2 DEF Broken
<1>6. WorkerAt(w)'
  <2>1. \A gd \in interest'[w] : gd \in interest[w] /\ gd # cur[w]
    BY <1>1, <1>4
  <2>2. \A gd \in interest'[w] : conns'[gd] # NULL
    BY <1>0, <1>2, <2>1 DEF WorkerAt
  <2>3. \A e \in batch'[w] : /\ e.err => Broken'
                             /\ e.fd \in Fd => e.fd \in interest'[w] /\ e.fd # cur'[w]
    BY <1>0, <1>1, <1>2, <1>4, <1>5 DEF WorkerAt
  <2>4. cur'[w] \in Fd
    BY <1>1, <1>2, <1>3
  <2>5. \A d, e \in batch'[w] : d.fd = e.fd => d = e
    BY <1>0, <1>2 DEF WorkerAt
  <2> QED
    BY <1>4, <1>5, <2>2, <2>3, <2>4, <2>5 DEF WorkerAt
<1>7. ListAt(w)'
  BY <1>0, <1>2, <1>4 DEF ListAt
<1>8. \A v \in Worker \ {w} : Rests(v)
  BY <1>2, <1>4 DEF Rests
<1>9. \A v \in Worker \ {w} : WorkerAt(v)' /\ ListAt(v)' /\ Holds(v)' = Holds(v)
  BY <1>2, <1>5, <1>8, RestsAt
<1>10. \A gd : gd \in Holds(w)' <=> gd \in Holds(w) /\ gd # fd
  <2>1. \A gd : gd \in Holds(w)' <=> \/ gd \in Elems(incoming[w]) \/ gd \in interest'[w]
                                     \/ pc'[w] = "register" /\ gd = cur[w]
    BY <1>2 DEF Holds, Listed, Elems
  <2>2. fd \notin Elems(incoming[w])
    BY <1>0, <1>3 DEF ListAt
  <2> QED
    BY <1>4, <2>1, <2>2, HoldsIs
<1>11. Placed'
  <2>1. \A gd \in Fd : sock'[gd] # NULL => gd # fd /\ sock[gd] # NULL
    BY <1>4
  <2>2. \A v \in Worker : \A gd : gd \in Holds(v)' <=> gd \in Holds(v) /\ gd # fd
    BY <1>3, <1>9, <1>10
  <2>3. \A v \in Worker : \A gd \in Holds(v) : gd \in Fd /\ sock[gd] # NULL
    BY DEF EpollInv, OwnInv, Placed
  <2>4. \A gd \in Fd : conns'[gd] # NULL => sock'[gd] # NULL
    BY <1>2, <1>3, <1>4 DEF EpollInv, OwnInv, Placed
  <2>5. \A gd \in Fd : sock'[gd] # NULL => \E v \in Worker : gd \in Holds(v)'
    BY <2>1, <2>2 DEF EpollInv, OwnInv, Placed
  <2>6. \A v \in Worker : \A gd \in Holds(v)' : gd \in Fd /\ sock'[gd] # NULL
    BY <1>4, <2>2, <2>3
  <2>7. \A u, v \in Worker : \A gd \in Holds(u)' : gd \in Holds(v)' => u = v
    BY <2>2 DEF EpollInv, OwnInv, Placed
  <2> QED
    BY <2>4, <2>5, <2>6, <2>7 DEF Placed
<1> QED
  BY <1>6, <1>7, <1>9, <1>11 DEF OwnInv

LEMMA OwnStep ==
    ASSUME EpollInv, [Next]_vars
    PROVE  OwnInv'
<1>1. CASE UNCHANGED vars
  BY <1>1 DEF vars, EpollInv, OwnInv, WorkerAt, ListAt, Placed, Holds, Listed, Broken
<1>2. ASSUME NEW c \in Client, Send(c) \/ Leave(c) \/ \E w \in Reach[c] : Connect(c, w)
      PROVE  OwnInv'
  BY <1>2, ClientOwn, EpollAssumption
<1>3. ASSUME NEW w \in Worker, OnCloseStep(w) PROVE OwnInv'
  <2>1. pc[w] = "close" \/ pc[w] = "closed"
    BY <1>3 DEF OnCloseStep, At
  <2> QED
    BY <1>3, <2>1, UnslotOwn, ReleaseOwn
<1> QED
  BY <1>1, <1>2, <1>3, WaitOwn, DispatchOwn, AcceptOwn, EventOwn, TakeOwn, RegisterOwn,
     EnterOwn, ReadOwn, WriteOwn DEF Next, Step

-----------------------------------------------------------------------------
(* The wake-ups *)

\* Nothing that a list waits for goes away unless the list is looked at.
LEMMA WakeUpStays ==
    ASSUME EpollInv, UNCHANGED <<incoming, event_fd, to>>,
           \A w \in Worker : pc[w] \in {"drain", "register"} =>
             pc'[w] \in {"drain", "register"} \/ incoming[w] = <<>>
    PROVE  HandOver'
BY DEF EpollInv, HandOver

LEMMA HandOverStep ==
    ASSUME EpollInv, [Next]_vars
    PROVE  HandOver'
<1>0. /\ HandOver /\ event_fd \in [Worker -> Nat] /\ to \in [Worker -> Worker \cup {NULL}]
      /\ incoming \in [Worker -> Seq(Fd)]
      /\ pc \in [Worker -> {"wait", "batch", "accept", "event", "drain",
           "register", "enter", "read", "write", "close", "closed", "segv", "stray", "sigpipe"}]
  BY DEF EpollInv, TypeOK
<1>1. CASE UNCHANGED vars
  BY <1>1, WakeUpStays DEF vars
<1>2. ASSUME NEW c \in Client, Send(c) \/ Leave(c) \/ \E w \in Reach[c] : Connect(c, w)
      PROVE  HandOver'
  BY <1>2, WakeUpStays DEF Send, Leave, Connect, table, local, kernel
<1>3. ASSUME NEW w \in Worker, NEW p, pc[w] \notin {"drain", "register"} \/ p \in {"drain", "register"},
             pc' = [pc EXCEPT ![w] = p], UNCHANGED <<incoming, event_fd, to>>
      PROVE  HandOver'
  <2>1. pc'[w] = p /\ \A v \in Worker \ {w} : pc'[v] = pc[v]
    BY <1>0, <1>3
  <2> QED
    BY <1>3, <2>1, WakeUpStays
<1>4. ASSUME NEW w \in Worker, EpollWait(w) \/ Dispatch(w) \/ AcceptsNone(w) \/ Register(w)
                               \/ EnterRead(w) \/ Write(w) \/ OnCloseStep(w)
      PROVE  HandOver'
  <2>1. UNCHANGED <<incoming, event_fd, to>>
    BY <1>4 DEF EpollWait, Dispatch, AcceptsNone, Register, EnterRead, Write, OnCloseStep,
                Unslot, Release, table, kernel, local
  <2>2. \E p : /\ pc[w] \notin {"drain", "register"} \/ p \in {"drain", "register"}
               /\ pc' = [pc EXCEPT ![w] = p]
    BY <1>4 DEF EpollWait, Dispatch, AcceptsNone, Register, EnterRead, Write, OnCloseStep,
                AfterClose, At, Goes
  <2> QED
    BY <1>3, <2>1, <2>2
<1>5. ASSUME NEW w \in Worker, Read(w) PROVE HandOver'
  <2>1. UNCHANGED <<incoming, event_fd, to>> /\ pc[w] = "read"
    BY <1>5 DEF Read, At, kernel
  <2>2. \A v \in Worker : pc[v] \in {"drain", "register"} => pc'[v] = pc[v]
    BY <1>0, <1>5, <2>1 DEF Read, Suspend, Goes
  <2> QED
    BY <2>1, <2>2, WakeUpStays
<1>6. ASSUME NEW w \in Worker, NEW c, NEW fd, NEW owner, Accepts(w, c, fd, owner)
      PROVE  HandOver'
  <2>1. /\ to[w] = NULL /\ to'[w] = owner /\ owner \in Worker
        /\ \A v \in Worker \ {w} : to'[v] = to[v]
        /\ \A v \in Worker \ {owner} : incoming'[v] = incoming[v]
        /\ UNCHANGED <<pc, event_fd>>
    BY <1>0, <1>6 DEF Accepts
  <2>2. \A u, v \in Worker : to[u] = v => to'[u] = v
    BY <2>1, Sizes
  <2> QED
    BY <1>0, <2>1, <2>2 DEF HandOver
<1>7. ASSUME NEW w \in Worker, Notify(w) PROVE HandOver'
  <2>1. /\ to[w] \in Worker /\ UNCHANGED <<incoming, pc>>
        /\ event_fd' = [event_fd EXCEPT ![to[w]] = @ + 1] /\ to' = [to EXCEPT ![w] = NULL]
    BY <1>0, <1>7 DEF Notify, table
  <2>2. /\ event_fd'[to[w]] > 0 /\ \A v \in Worker : event_fd[v] > 0 => event_fd'[v] > 0
        /\ \A v \in Worker \ {w} : to'[v] = to[v]
    BY <1>0, <2>1
  <2>3. \A u, v \in Worker : to[u] = v => to'[u] = v \/ event_fd'[v] > 0
    BY <2>1, <2>2
  <2> QED
    BY <1>0, <2>1, <2>2, <2>3 DEF HandOver
<1>8. ASSUME NEW w \in Worker, on_event(w) PROVE HandOver'
  <2>1. /\ UNCHANGED <<incoming, to>> /\ pc'[w] = "drain"
        /\ \A v \in Worker \ {w} : pc'[v] = pc[v] /\ event_fd'[v] = event_fd[v]
    BY <1>0, <1>8 DEF on_event, Goes, table
  <2> QED
    BY <1>0, <2>1 DEF HandOver
<1>9. ASSUME NEW w \in Worker, TakeNew(w) PROVE HandOver'
  <2>1. CASE incoming[w] = <<>>
    <3>1. /\ UNCHANGED <<incoming, to, event_fd>>
          /\ \A v \in Worker \ {w} : pc'[v] = pc[v]
      BY <1>0, <1>9, <2>1 DEF TakeNew, Goes, kernel
    <3> QED
      BY <2>1, <3>1, WakeUpStays
  <2>2. CASE incoming[w] # <<>>
    <3>1. /\ UNCHANGED <<to, event_fd>> /\ pc'[w] = "register"
          /\ \A v \in Worker \ {w} : pc'[v] = pc[v] /\ incoming'[v] = incoming[v]
      BY <1>0, <1>9, <2>2 DEF TakeNew, Goes, kernel
    <3> QED
      BY <1>0, <3>1 DEF HandOver
  <2> QED
    BY <2>1, <2>2
<1> QED
  BY <1>1, <1>2, <1>4, <1>5, <1>6, <1>7, <1>8, <1>9, AcceptIs DEF Next, Step

-----------------------------------------------------------------------------
(* What is written back *)

\* What a worker owes the client of a connection in its epoll set; of one on its
\* list nothing was read yet.
EchoesAt(w) ==
    /\ \A fd \in interest[w] : ~InHand(w, fd, {"close", "closed"}) =>
         sread[sock[fd]] = echo[sock[fd]] + Owed(w, fd)
    /\ pc[w] = "write" => conns[cur[w]] = 0
    /\ \A fd \in Holds(w) \ interest[w] : sread[sock[fd]] = 0

\* Nothing is read from a client before it is accepted.
ClientAt(c) ==
    /\ echo[c] <= sread[c] /\ sread[c] <= csent[c]
    /\ \A w \in Worker : c \in backlog[w] => sread[c] = 0
    /\ cst[c] = "idle" => /\ sread[c] = 0
                          /\ \A w \in Worker : c \notin backlog[w]
                          /\ \A fd \in Fd : sock[fd] # c

EchoInv == OneSocket /\ (\A w \in Worker : EchoesAt(w)) /\ (\A c \in Client : ClientAt(c))

LEMMA EchoInit == Init => EchoInv
<1> SUFFICES ASSUME Init PROVE EchoInv
  OBVIOUS
<1>1. \A w \in Worker : interest[w] = {} /\ pc[w] = "wait" /\ incoming[w] = <<>> /\ backlog[w] = {}
  BY DEF Init
<1>2. \A w \in Worker : \A fd : fd \notin Holds(w)
  BY <1>1, HoldsIs DEF Elems
<1>3. \A w \in Worker : EchoesAt(w)
  BY <1>1, <1>2 DEF EchoesAt
<1>4. \A c \in Client : ClientAt(c)
  BY <1>1, Sizes DEF Init, ClientAt
<1>5. OneSocket
  BY <1>1 DEF Init, OneSocket
<1> QED
  BY <1>3, <1>4, <1>5 DEF EchoInv

\* The clients of what a worker has are unlike each other and have no place in a
\* backlog.
LEMMA HeldClient ==
    ASSUME EpollInv, EchoInv, NEW w \in Worker, NEW fd \in Holds(w)
    PROVE  /\ fd \in Fd /\ sock[fd] \in Client
           /\ \A gd \in Fd : gd # fd => sock[gd] # sock[fd]
           /\ \A v \in Worker : sock[fd] \notin backlog[v]
           /\ \A v \in Worker \ {w} : fd \notin Holds(v)
<1>1. fd \in Fd /\ sock[fd] # NULL /\ \A v \in Worker \ {w} : fd \notin Holds(v)
  BY DEF EpollInv, OwnInv, Placed
<1>2. sock[fd] \in Client
  BY <1>1 DEF EpollInv, TypeOK
<1> QED
  BY <1>1, <1>2 DEF EchoInv, OneSocket

\* What is no business of worker v leaves what it owes as it was.
LEMMA EchoRests ==
    ASSUME EchoInv, NEW v \in Worker, Rests(v), incoming'[v] = incoming[v],
           \A fd \in Holds(v) : /\ sock'[fd] = sock[fd]
                                /\ sread'[sock[fd]] = sread[sock[fd]]
                                /\ echo'[sock[fd]] = echo[sock[fd]],
           pc[v] = "write" => cur[v] \in interest[v]
    PROVE  EchoesAt(v)'
<1>1. Holds(v)' = Holds(v) /\ \A fd \in interest[v] : fd \in Holds(v)
  BY HoldsIs DEF Rests, Holds, Listed
<1>2. \A fd \in interest[v] : Owed(v, fd)' = Owed(v, fd)
  BY DEF Rests, Owed, InHand
<1> QED
  BY <1>1, <1>2 DEF EchoInv, EchoesAt, Rests, InHand

\* A step of worker w in which no byte is read or written and no connection comes
\* or goes.
LEMMA EchoQuiet ==
    ASSUME EpollInv, EchoInv, NEW w \in Worker,
           UNCHANGED <<conns, interest, sock, backlog, cst, csent, sread, echo>>,
           \A v \in Worker \ {w} : Rests(v) /\ incoming'[v] = incoming[v],
           \A fd : fd \in Holds(w)' => fd \in Holds(w),
           pc'[w] = "write" => conns[cur'[w]] = 0,
           \A fd \in interest[w] : ~InHand(w, fd, {"close", "closed"})' =>
             ~InHand(w, fd, {"close", "closed"}) /\ Owed(w, fd)' = Owed(w, fd)
    PROVE  EchoInv'
<1>1. \A v \in Worker : pc[v] = "write" => cur[v] \in interest[v]
  BY DEF EpollInv, OwnInv, WorkerAt
<1>2. \A v \in Worker \ {w} : EchoesAt(v)'
  BY <1>1, EchoRests
<1>3. EchoesAt(w)'
  BY DEF EchoInv, EchoesAt
<1>4. OneSocket' /\ \A c \in Client : ClientAt(c)'
  BY DEF EchoInv, OneSocket, ClientAt
<1> QED
  BY <1>2, <1>3, <1>4 DEF EchoInv

LEMMA QuietEcho ==
    ASSUME EpollInv, EchoInv, NEW w \in Worker,
           EpollWait(w) \/ Dispatch(w) \/ AcceptsNone(w) \/ Notify(w) \/ on_event(w) \/ TakeNew(w)
    PROVE  EchoInv'
<1>0. /\ pc \in [Worker -> {"wait", "batch", "accept", "event", "drain",
           "register", "enter", "read", "write", "close", "closed", "segv", "stray", "sigpipe"}]
      /\ batch \in [Worker -> SUBSET [fd : Fd \cup {Listen, EvFd}, err : BOOLEAN]]
      /\ cur \in [Worker -> Fd \cup {Listen, EvFd}] /\ hup \in [Worker -> BOOLEAN]
      /\ incoming \in [Worker -> Seq(Fd)] /\ WorkerAt(w) /\ ListAt(w)
  BY DEF EpollInv, OwnInv, TypeOK
<1>1. UNCHANGED <<conns, interest, sock, backlog, cursor, cst, csent, sread, echo>>
  BY DEF EpollWait, Dispatch, AcceptsNone, Notify, on_event, TakeNew, table, kernel, client
<1>2. /\ pc[w] \in {"wait", "batch", "accept", "event", "drain"}
      /\ pc'[w] \in {"wait", "batch", "accept", "event", "drain", "register", "enter", "close"}
  <2>1. CASE EpollWait(w) \/ AcceptsNone(w) \/ Notify(w) \/ on_event(w)
    BY <1>0, <2>1 DEF EpollWait, AcceptsNone, Notify, on_event, At, Goes
  <2>2. CASE Dispatch(w) \/ TakeNew(w)
    BY <1>0, <2>2 DEF Dispatch, TakeNew, At, Goes
  <2> QED
    BY <2>1, <2>2
<1>3. ASSUME NEW v \in Worker, v # w PROVE Rests(v) /\ incoming'[v] = incoming[v]
  <2>1. pc'[v] = pc[v] /\ incoming'[v] = incoming[v]
    <3>1. CASE EpollWait(w) \/ AcceptsNone(w) \/ Notify(w) \/ on_event(w)
      BY <1>0, <1>3, <3>1 DEF EpollWait, AcceptsNone, Notify, on_event, Goes, table
    <3>2. CASE Dispatch(w)
      BY <1>0, <1>3, <3>2 DEF Dispatch, Goes, table
    <3>3. CASE TakeNew(w)
      BY <1>0, <1>3, <3>3 DEF TakeNew, Goes
    <3> QED
      BY <3>1, <3>2, <3>3
  <2>2. cur'[v] = cur[v] /\ hup'[v] = hup[v] /\ batch'[v] = batch[v]
    <3>1. CASE EpollWait(w) \/ AcceptsNone(w) \/ Notify(w) \/ on_event(w)
      BY <1>0, <1>3, <3>1 DEF EpollWait, AcceptsNone, Notify, on_event
    <3>2. CASE Dispatch(w)
      BY <1>0, <1>3, <3>2 DEF Dispatch
    <3>3. CASE TakeNew(w)
      BY <1>0, <1>3, <3>3 DEF TakeNew
    <3> QED
      BY <3>1, <3>2, <3>3
  <2> QED
    BY <1>1, <2>1, <2>2 DEF Rests
<1>4. ASSUME NEW fd PROVE fd \in Holds(w)' => fd \in Holds(w)
  <2>1. fd \in Holds(w)' <=> \/ fd \in Elems(incoming'[w]) \/ fd \in interest'[w]
                             \/ pc'[w] = "register" /\ fd = cur'[w]
    BY DEF Holds, Listed, Elems
  <2>2. CASE incoming'[w] = incoming[w] /\ pc'[w] # "register"
    BY <1>1, <2>1, <2>2, HoldsIs
  <2>3. CASE TakeNew(w) /\ incoming[w] # <<>>
    <3>1. cur'[w] = Head(incoming[w]) /\ incoming'[w] = Tail(incoming[w])
      BY <1>0, <2>3 DEF TakeNew
    <3>2. /\ cur'[w] \in Elems(incoming[w])
          /\ Elems(incoming'[w]) \subseteq Elems(incoming[w])
      BY <1>0, <2>3, <3>1, Popped DEF ListAt
    <3> QED
      BY <1>1, <2>1, <3>2, HoldsIs
  <2>4. CASE TakeNew(w) /\ incoming[w] = <<>>
    BY <1>0, <2>2, <2>4 DEF TakeNew, Goes
  <2>5. CASE ~TakeNew(w)
    <3>1. UNCHANGED incoming
      BY <2>5 DEF EpollWait, Dispatch, AcceptsNone, Notify, on_event, table
    <3>2. pc'[w] # "register"
      BY <1>0, <2>5 DEF EpollWait, Dispatch, AcceptsNone, Notify, on_event, At, Goes
    <3> QED
      BY <2>2, <3>1, <3>2
  <2> QED
    BY <2>3, <2>4, <2>5
<1>5. ASSUME NEW fd \in interest[w], ~InHand(w, fd, {"close", "closed"})'
      PROVE  ~InHand(w, fd, {"close", "closed"}) /\ Owed(w, fd)' = Owed(w, fd)
  BY <1>1, <1>2 DEF InHand, Owed
<1> QED
  BY <1>1, <1>2, <1>3, <1>4, <1>5, EchoQuiet

\* on_read takes up where it left off, or reads nothing at all.
LEMMA EnterEcho == ASSUME EpollInv, EchoInv, NEW w \in Worker, EnterRead(w) PROVE EchoInv'
<1>0. /\ pc \in [Worker -> {"wait", "batch", "accept", "event", "drain",
           "register", "enter", "read", "write", "close", "closed", "segv", "stray", "sigpipe"}]
      /\ cursor \in [Worker -> 0 .. msg_size]
  BY DEF EpollInv, TypeOK
<1>1. /\ pc[w] = "enter"
      /\ UNCHANGED <<conns, incoming, interest, sock, backlog, batch, cur, hup, cst, csent, sread, echo>>
  BY DEF EnterRead, At, table, kernel, client
<1>2. \/ pc'[w] = "read" /\ cursor'[w] = conns[cur[w]]
      \/ pc'[w] \in {"segv", "stray"}
  BY <1>0 DEF EnterRead, Goes
<1>3. \A v \in Worker \ {w} : pc'[v] = pc[v] /\ cursor'[v] = cursor[v]
  BY <1>0 DEF EnterRead, Goes
<1>4. \A v \in Worker \ {w} : Rests(v) /\ incoming'[v] = incoming[v]
  BY <1>1, <1>3 DEF Rests
<1>5. \A fd : fd \in Holds(w)' => fd \in Holds(w)
  BY <1>1, <1>2 DEF Holds, Listed
<1>6. \A fd \in interest[w] : /\ ~InHand(w, fd, {"close", "closed"})
                              /\ Owed(w, fd)' = Owed(w, fd)
  BY <1>1, <1>2 DEF InHand, Owed
<1> QED
  BY <1>1, <1>2, <1>4, <1>5, <1>6, EchoQuiet

LEMMA ClientEcho ==
    ASSUME EpollInv, EchoInv, NEW c \in Client,
           Send(c) \/ Leave(c) \/ \E w \in Worker : Connect(c, w)
    PROVE  EchoInv'
<1>0. /\ cst \in [Client -> {"idle", "open", "shut", "reset"}] /\ csent \in [Client -> Nat]
      /\ sread \in [Client -> Nat] /\ echo \in [Client -> Nat]
      /\ backlog \in [Worker -> SUBSET Client]
  BY DEF EpollInv, TypeOK
<1>1. UNCHANGED <<conns, incoming, pc, batch, cur, hup, cursor, interest, sock, sread, echo>>
  BY DEF Send, Leave, Connect, table, local, kernel
<1>2. ASSUME NEW w \in Worker PROVE EchoesAt(w)'
  BY <1>1 DEF EchoInv, EchoesAt, InHand, Owed, Holds, Listed
<1>3. CASE Send(c)
  <2>1. UNCHANGED <<cst, backlog>> /\ \A d \in Client : csent'[d] \in Nat /\ csent'[d] >= csent[d]
    BY <1>0, <1>3 DEF Send, kernel
  <2>2. OneSocket'
    BY <1>1, <2>1 DEF EchoInv, OneSocket
  <2>3. ASSUME NEW d \in Client PROVE sread'[d] <= csent'[d] /\ echo'[d] <= sread'[d]
    <3>1. /\ sread[d] \in Nat /\ csent[d] \in Nat /\ csent'[d] \in Nat
          /\ sread[d] <= csent[d] /\ csent[d] <= csent'[d]
      BY <1>0, <2>1 DEF EchoInv, ClientAt
    <3>2. sread[d] <= csent'[d]
      BY <3>1
    <3> QED
      BY <1>1, <3>2 DEF EchoInv, ClientAt
  <2>4. \A d \in Client : ClientAt(d)'
    BY <1>1, <2>1, <2>3 DEF EchoInv, ClientAt
  <2> QED
    BY <1>2, <2>2, <2>4 DEF EchoInv
<1>4. CASE Leave(c)
  <2>1. UNCHANGED <<csent, backlog>> /\ \A d \in Client : cst'[d] = "idle" => cst[d] = "idle"
    BY <1>0, <1>4 DEF Leave, kernel
  <2>2. OneSocket' /\ \A d \in Client : ClientAt(d)'
    BY <1>1, <2>1 DEF EchoInv, OneSocket, ClientAt
  <2> QED
    BY <1>2, <2>2 DEF EchoInv
<1>5. ASSUME NEW w \in Worker, Connect(c, w) PROVE EchoInv'
  <2>1. /\ cst[c] = "idle" /\ UNCHANGED csent /\ cst'[c] = "open"
        /\ \A d \in Client : d # c => cst'[d] = cst[d]
        /\ backlog'[w] = backlog[w] \cup {c}
        /\ \A v \in Worker \ {w} : backlog'[v] = backlog[v]
    BY <1>0, <1>5 DEF Connect
  <2>2. /\ sread[c] = 0 /\ \A v \in Worker : c \notin backlog[v]
        /\ \A fd \in Fd : sock[fd] # c
    BY <2>1 DEF EchoInv, ClientAt
  <2>3. OneSocket'
    BY <1>1, <2>1, <2>2 DEF EchoInv, OneSocket
  <2>4. ASSUME NEW d \in Client PROVE ClientAt(d)'
    <3>1. CASE d = c
      BY <1>1, <2>1, <2>2, <3>1 DEF EchoInv, ClientAt
    <3>2. CASE d # c
      <4>1. \A v \in Worker : d \in backlog'[v] <=> d \in backlog[v]
        BY <2>1, <3>2
      <4> QED
        BY <1>1, <2>1, <3>2, <4>1 DEF EchoInv, ClientAt
    <3> QED
      BY <3>1, <3>2
  <2> QED
    BY <1>2, <2>3, <2>4 DEF EchoInv
<1> QED
  BY <1>3, <1>4, <1>5

\* A client that is accepted gets a descriptor of its own.
LEMMA AcceptEcho == ASSUME EpollInv, EchoInv, NEW w \in Worker, Accept(w) PROVE EchoInv'
<1>1. ASSUME NEW c, NEW fd, NEW owner, Accepts(w, c, fd, owner) PROVE EchoInv'
  <2>0. /\ sock \in [Fd -> Client \cup {NULL}] /\ backlog \in [Worker -> SUBSET Client]
        /\ incoming \in [Worker -> Seq(Fd)] /\ sread \in [Client -> Nat] /\ echo \in [Client -> Nat]
    BY DEF EpollInv, TypeOK
  <2>1. /\ c \in backlog[w] /\ owner \in Worker /\ fd \in Fd /\ sock[fd] = NULL
        /\ UNCHANGED <<conns, interest, cst, csent, sread, echo, batch, cur, hup, cursor, pc>>
    BY <1>1 DEF Accepts, client
  <2>2. /\ backlog'[w] = backlog[w] \ {c} /\ \A v \in Worker \ {w} : backlog'[v] = backlog[v]
        /\ sock'[fd] = c /\ \A gd \in Fd : gd # fd => sock'[gd] = sock[gd]
        /\ incoming'[owner] = <<fd>> \o incoming[owner]
        /\ \A v \in Worker \ {owner} : incoming'[v] = incoming[v]
    BY <1>1, <2>0, <2>1 DEF Accepts
  <2>3. c \in Client /\ c # NULL /\ sread[c] = 0 /\ cst[c] # "idle"
    BY <2>0, <2>1, Sizes DEF EchoInv, ClientAt
  <2>4. /\ \A gd \in Fd : sock[gd] # c
        /\ \A v \in Worker : c \in backlog[v] => v = w
    BY <2>1 DEF EchoInv, OneSocket
  <2>5. OneSocket'
    <3>1. \A gd, hd \in Fd : sock'[gd] = sock'[hd] /\ sock'[gd] # NULL => gd = hd
      BY <2>2, <2>4 DEF EchoInv, OneSocket
    <3>2. \A v \in Worker : \A d \in backlog'[v] : d \in backlog[v] /\ d # c
      BY <2>2, <2>4
    <3> QED
      BY <2>2, <3>1, <3>2 DEF EchoInv, OneSocket
  <2>6. ASSUME NEW d \in Client PROVE ClientAt(d)'
    <3>1. \A v \in Worker : d \in backlog'[v] => d \in backlog[v]
      BY <2>2
    <3>2. cst[d] = "idle" => \A gd \in Fd : sock'[gd] # d
      BY <2>2, <2>3 DEF EchoInv, ClientAt
    <3> QED
      BY <2>1, <3>1, <3>2 DEF EchoInv, ClientAt
  <2>7. ASSUME NEW v \in Worker PROVE EchoesAt(v)'
    <3>1. \A gd \in Holds(v) : gd \in Fd /\ gd # fd /\ sock'[gd] = sock[gd]
      BY <2>1, <2>2 DEF EpollInv, OwnInv, Placed
    <3>2. \A gd \in Holds(v)' : gd \in Holds(v) \/ gd = fd
      <4>1. Elems(incoming'[v]) \subseteq Elems(incoming[v]) \cup {fd}
        <5>1. Elems(<<fd>> \o incoming[owner]) = Elems(incoming[owner]) \cup {fd}
          BY <2>0, <2>1, Pushed
        <5> QED
          BY <2>2, <5>1
      <4>2. \A gd : gd \in Holds(v)' <=> \/ gd \in Elems(incoming'[v]) \/ gd \in interest[v]
                                         \/ pc[v] = "register" /\ gd = cur[v]
        BY <2>1 DEF Holds, Listed, Elems
      <4> QED
        BY <4>1, <4>2, HoldsIs
    <3>3. \A gd \in interest[v] : gd \in Holds(v) /\ Owed(v, gd)' = Owed(v, gd)
      BY <2>1, HoldsIs DEF Owed, InHand
    <3>4. \A gd \in Holds(v)' \ interest'[v] : sread'[sock'[gd]] = 0
      BY <2>1, <2>2, <2>3, <3>1, <3>2 DEF EchoInv, EchoesAt
    <3> QED
      BY <2>1, <3>1, <3>3, <3>4 DEF EchoInv, EchoesAt, InHand
  <2> QED
    BY <2>5, <2>6, <2>7 DEF EchoInv
<1> QED
  BY <1>1, AcceptIs, QuietEcho

\* A connection is set up with a cursor of 0, and nothing of it was read.
LEMMA RegisterEcho == ASSUME EpollInv, EchoInv, NEW w \in Worker, Register(w) PROVE EchoInv'
<1>0. /\ pc \in [Worker -> {"wait", "batch", "accept", "event", "drain",
           "register", "enter", "read", "write", "close", "closed", "segv", "stray", "sigpipe"}]
      /\ conns \in [Fd -> (0 .. msg_size - 1) \cup {NULL}] /\ interest \in [Worker -> SUBSET Fd]
      /\ sread \in [Client -> Nat] /\ echo \in [Client -> Nat]
  BY DEF EpollInv, TypeOK
<1>1. PICK fd : fd = cur[w]
  OBVIOUS
<1>2. /\ pc[w] = "register" /\ pc' = [pc EXCEPT ![w] = "drain"]
      /\ conns' = [conns EXCEPT ![fd] = 0]
      /\ interest' = [interest EXCEPT ![w] = @ \cup {fd}]
      /\ UNCHANGED <<incoming, sock, backlog, cst, csent, sread, echo, cur, hup, batch, cursor>>
  BY <1>1 DEF Register, At, Goes, client
<1>3. fd \in Holds(w) /\ fd \notin interest[w] /\ fd \notin Elems(incoming[w])
  BY <1>1, <1>2, HoldsIs DEF EpollInv, OwnInv, ListAt
<1>4. fd \in Fd /\ sock[fd] \in Client /\ \A v \in Worker \ {w} : fd \notin Holds(v)
  BY <1>3, HeldClient
<1>5. /\ pc'[w] = "drain" /\ interest'[w] = interest[w] \cup {fd}
      /\ \A v \in Worker \ {w} : pc'[v] = pc[v] /\ interest'[v] = interest[v]
      /\ conns'[fd] = 0 /\ \A gd \in Fd \ {fd} : conns'[gd] = conns[gd]
  BY <1>0, <1>2, <1>4
<1>6. ASSUME NEW v \in Worker \ {w} PROVE EchoesAt(v)'
  <2>1. \A gd \in interest[v] : gd \in Fd \ {fd}
    BY <1>0, <1>4, HoldsIs
  <2>2. Rests(v)
    BY <1>2, <1>5, <2>1 DEF Rests
  <2>3. pc[v] = "write" => cur[v] \in interest[v]
    BY DEF EpollInv, OwnInv, WorkerAt
  <2> QED
    BY <1>2, <2>2, <2>3, EchoRests
<1>7. EchoesAt(w)'
  <2>1. sread[sock[fd]] = 0 /\ echo[sock[fd]] = 0
    <3>1. sread[sock[fd]] = 0
      BY <1>3 DEF EchoInv, EchoesAt
    <3> QED
      BY <1>0, <1>4, <3>1 DEF EchoInv, ClientAt
  <2>2. \A gd \in interest'[w] : Owed(w, gd)' = conns'[gd]
    BY <1>5 DEF Owed, InHand
  <2>3. ASSUME NEW gd \in interest'[w] PROVE sread'[sock'[gd]] = echo'[sock'[gd]] + Owed(w, gd)'
    <3>1. CASE gd = fd
      BY <1>2, <1>5, <2>1, <2>2, <3>1
    <3>2. CASE gd # fd
      <4>1. gd \in interest[w] /\ gd \in Fd /\ conns'[gd] = conns[gd]
        BY <1>0, <1>5, <3>2
      <4>2. ~InHand(w, gd, {"close", "closed"}) /\ Owed(w, gd) = conns[gd]
        BY <1>2 DEF InHand, Owed
      <4> QED
        BY <1>2, <2>2, <4>1, <4>2 DEF EchoInv, EchoesAt
    <3> QED
      BY <3>1, <3>2
  <2>4. \A gd \in Holds(w)' \ interest'[w] : gd \in Holds(w) \ interest[w]
    <3>1. \A gd : gd \in Holds(w)' <=> \/ gd \in Elems(incoming[w]) \/ gd \in interest'[w]
                                       \/ pc'[w] = "register" /\ gd = cur[w]
      BY <1>2 DEF Holds, Listed, Elems
    <3> QED
      BY <1>5, <3>1, HoldsIs
  <2> QED
    BY <1>2, <1>5, <2>3, <2>4 DEF EchoInv, EchoesAt
<1>8. OneSocket' /\ \A c \in Client : ClientAt(c)'
  BY <1>2 DEF EchoInv, OneSocket, ClientAt
<1> QED
  BY <1>6, <1>7, <1>8 DEF EchoInv

\* A step of worker w with the client of the connection in hand, which may read m
\* bytes and write n.
LEMMA EchoServed ==
    ASSUME EpollInv, EchoInv, NEW w \in Worker, NEW fd \in interest[w], NEW c,
           cur[w] = fd, cur'[w] = fd, sock[fd] = c, NEW m \in Nat, NEW n \in Nat,
           UNCHANGED <<incoming, interest, sock, backlog, cst, csent>>,
           sread' = [sread EXCEPT ![c] = @ + m], echo' = [echo EXCEPT ![c] = @ + n],
           echo[c] + n <= sread[c] + m, sread[c] + m <= csent[c],
           \A v \in Worker \ {w} : Rests(v), pc[w] # "register", pc'[w] # "register",
           \A gd \in interest[w] : gd # fd => conns'[gd] = conns[gd],
           pc'[w] = "write" => conns'[fd] = 0,
           pc'[w] \notin {"close", "closed"} => sread[c] + m = echo[c] + n + Owed(w, fd)'
    PROVE  EchoInv'
<1>0. /\ sread \in [Client -> Nat] /\ echo \in [Client -> Nat] /\ csent \in [Client -> Nat]
  BY DEF EpollInv, TypeOK
<1>1. fd \in Holds(w)
  BY HoldsIs
<1>2. /\ fd \in Fd /\ c \in Client /\ \A gd \in Fd : gd # fd => sock[gd] # c
      /\ \A v \in Worker : c \notin backlog[v]
      /\ \A v \in Worker \ {w} : fd \notin Holds(v)
  BY <1>1, HeldClient
<1>3. /\ sread'[c] = sread[c] + m /\ echo'[c] = echo[c] + n
      /\ \A d \in Client : d # c => sread'[d] = sread[d] /\ echo'[d] = echo[d]
  BY <1>0, <1>2
<1>4. \A v \in Worker : \A gd \in Holds(v) : gd \in Fd /\ sock[gd] \in Client
  BY HeldClient
<1>5. ASSUME NEW v \in Worker \ {w} PROVE EchoesAt(v)'
  <2>1. \A gd \in Holds(v) : /\ sread'[sock[gd]] = sread[sock[gd]]
                             /\ echo'[sock[gd]] = echo[sock[gd]]
    BY <1>2, <1>3, <1>4
  <2>2. pc[v] = "write" => cur[v] \in interest[v]
    BY DEF EpollInv, OwnInv, WorkerAt
  <2> QED
    BY <2>1, <2>2, EchoRests
<1>6. EchoesAt(w)'
  <2>1. ASSUME NEW gd \in interest[w], gd # fd
        PROVE  sread'[sock[gd]] = echo'[sock[gd]] + Owed(w, gd)'
    <3>1. gd \in Holds(w)
      BY HoldsIs
    <3>2. sread'[sock[gd]] = sread[sock[gd]] /\ echo'[sock[gd]] = echo[sock[gd]]
      BY <1>2, <1>3, <1>4, <2>1, <3>1
    <3>3. Owed(w, gd)' = Owed(w, gd) /\ ~InHand(w, gd, {"close", "closed"})
      BY <2>1 DEF Owed, InHand
    <3> QED
      BY <3>2, <3>3 DEF EchoInv, EchoesAt
  <2>2. ~InHand(w, fd, {"close", "closed"})' => sread'[sock[fd]] = echo'[sock[fd]] + Owed(w, fd)'
    BY <1>3 DEF InHand
  <2>3. \A gd \in Holds(w)' \ interest[w] : sread'[sock[gd]] = 0
    <3>1. \A gd : gd \in Holds(w)' <=> \/ gd \in Elems(incoming[w]) \/ gd \in interest[w]
      BY DEF Holds, Listed, Elems
    <3>2. \A gd \in Holds(w)' \ interest[w] : gd \in Holds(w) \ interest[w] /\ gd # fd
      BY <3>1, HoldsIs
    <3>3. \A gd \in Holds(w) : gd # fd => sread'[sock[gd]] = sread[sock[gd]]
      BY <1>2, <1>3, <1>4
    <3> QED
      BY <3>2, <3>3 DEF EchoInv, EchoesAt
  <2> QED
    BY <2>1, <2>2, <2>3 DEF EchoesAt
<1>7. ASSUME NEW d \in Client PROVE ClientAt(d)'
  <2>1. CASE d = c
    <3>1. cst[c] # "idle"
      BY <1>2 DEF EchoInv, ClientAt
    <3> QED
      BY <1>2, <1>3, <2>1, <3>1 DEF ClientAt
  <2>2. CASE d # c
    BY <1>3, <2>2 DEF EchoInv, ClientAt
  <2> QED
    BY <2>1, <2>2
<1>8. OneSocket'
  BY DEF EchoInv, OneSocket
<1> QED
  BY <1>5, <1>6, <1>7, <1>8 DEF EchoInv

LEMMA ReadEcho == ASSUME EpollInv, EchoInv, NEW w \in Worker, Read(w) PROVE EchoInv'
<1>0. /\ pc \in [Worker -> {"wait", "batch", "accept", "event", "drain",
           "register", "enter", "read", "write", "close", "closed", "segv", "stray", "sigpipe"}]
      /\ cursor \in [Worker -> 0 .. msg_size] /\ interest \in [Worker -> SUBSET Fd]
      /\ conns \in [Fd -> (0 .. msg_size - 1) \cup {NULL}]
      /\ sread \in [Client -> Nat] /\ echo \in [Client -> Nat] /\ csent \in [Client -> Nat]
      /\ msg_size \in Nat
  BY Sizes DEF EpollInv, TypeOK
<1>1. PICK c, n : Reads(w, c, n)
  BY ReadIs
<1>2. PICK fd : fd = cur[w]
  OBVIOUS
<1>3. /\ pc[w] = "read" /\ c = sock[fd] /\ c \in Client
      /\ n \in Int /\ n <= msg_size - cursor[w] /\ n <= csent[c] - sread[c]
      /\ UNCHANGED <<incoming, interest, sock, backlog, batch, cur, hup, cst, csent, echo>>
  BY <1>1, <1>2 DEF Reads, kernel
<1>4. fd \in interest[w] /\ fd \in Fd /\ \A v \in Worker \ {w} : fd \notin interest[v]
  BY <1>0, <1>2, <1>3, HoldsIs, NotOthers DEF EpollInv, OwnInv, WorkerAt
<1>5. /\ sread[c] \in Nat /\ echo[c] \in Nat /\ csent[c] \in Nat /\ cursor[w] \in Nat
      /\ sread[c] = echo[c] + cursor[w] /\ echo[c] <= sread[c] /\ sread[c] <= csent[c]
  <2>1. Owed(w, fd) = cursor[w] /\ ~InHand(w, fd, {"close", "closed"})
    BY <1>2, <1>3 DEF Owed, InHand
  <2>2. sread[c] = echo[c] + cursor[w]
    BY <1>3, <1>4, <2>1 DEF EchoInv, EchoesAt
  <2> QED
    BY <1>0, <1>3, <2>2 DEF EchoInv, ClientAt
<1>6. echo' = [echo EXCEPT ![c] = @ + 0]
  <2>1. echo[c] + 0 = echo[c]
    BY <1>5
  <2> QED
    BY <1>0, <1>3, <2>1
<1>7. ASSUME NEW m \in Nat, NEW k, NEW p \in {"read", "write", "batch", "close"}, NEW q,
             sread' = [sread EXCEPT ![c] = @ + m], cursor' = [cursor EXCEPT ![w] = q],
             conns' = [conns EXCEPT ![fd] = k], pc' = [pc EXCEPT ![w] = p],
             sread[c] + m <= csent[c], p = "write" => k = 0,
             p = "read" => sread[c] + m = echo[c] + q,
             p = "write" => sread[c] + m = echo[c] + (msg_size - q),
             p = "batch" => sread[c] + m = echo[c] + k
      PROVE  EchoInv'
  <2>1. /\ pc'[w] = p /\ cursor'[w] = q /\ conns'[fd] = k
        /\ \A v \in Worker \ {w} : pc'[v] = pc[v] /\ cursor'[v] = cursor[v]
        /\ \A gd \in Fd : gd # fd => conns'[gd] = conns[gd]
    BY <1>0, <1>4, <1>7
  <2>2. \A v \in Worker \ {w} : Rests(v)
    <3>1. \A v \in Worker \ {w} : \A gd \in interest[v] : gd \in Fd /\ gd # fd
      BY <1>0, <1>4
    <3> QED
      BY <1>3, <2>1, <3>1 DEF Rests
  <2>3. p # "close" => sread[c] + m = echo[c] + 0 + Owed(w, fd)'
    BY <1>2, <1>3, <1>5, <1>7, <2>1 DEF Owed, InHand
  <2>4. echo[c] + 0 <= sread[c] + m
    BY <1>5, <1>7
  <2>5. \A gd \in interest[w] : gd # fd => conns'[gd] = conns[gd]
    BY <1>0, <2>1
  <2>6. /\ sock[fd] = c /\ cur[w] = fd /\ cur'[w] = fd /\ pc'[w] # "register" /\ pc[w] # "register"
        /\ pc'[w] = "write" => conns'[fd] = 0
    BY <1>2, <1>3, <1>7, <2>1
  <2> QED
    <3>1. pc'[w] \notin {"close", "closed"} => sread[c] + m = echo[c] + 0 + Owed(w, fd)'
      BY <2>1, <2>3
    <3>2. /\ UNCHANGED <<incoming, interest, sock, backlog, cst, csent>> /\ 0 \in Nat
          /\ sread' = [sread EXCEPT ![c] = @ + m] /\ sread[c] + m <= csent[c]
      BY <1>3, <1>7
    <3> QED
      BY <1>4, <1>6, <2>2, <2>4, <2>5, <2>6, <3>1, <3>2, EchoServed, Zenon
<1>8. /\ cursor = [cursor EXCEPT ![w] = cursor[w]] /\ conns = [conns EXCEPT ![fd] = conns[fd]]
      /\ pc = [pc EXCEPT ![w] = pc[w]] /\ sread = [sread EXCEPT ![c] = @ + 0]
  <2>1. sread[c] + 0 = sread[c]
    BY <1>5
  <2> QED
    BY <1>0, <1>3, <1>4, <2>1
<1>9. CASE /\ n > 0 /\ sread' = [sread EXCEPT ![c] = @ + n]
           /\ \/ /\ cursor[w] + n < msg_size
                 /\ cursor' = [cursor EXCEPT ![w] = @ + n] /\ UNCHANGED <<conns, pc>>
              \/ /\ ~(cursor[w] + n < msg_size) /\ cursor' = [cursor EXCEPT ![w] = 0]
                 /\ conns' = [conns EXCEPT ![cur[w]] = 0] /\ pc' = [pc EXCEPT ![w] = "write"]
  <2>1. n \in Nat /\ sread[c] + n <= csent[c]
    BY <1>3, <1>5, <1>9
  <2>2. CASE /\ cursor[w] + n < msg_size
             /\ cursor' = [cursor EXCEPT ![w] = @ + n] /\ UNCHANGED <<conns, pc>>
    <3>1. sread[c] + n = echo[c] + (cursor[w] + n)
      BY <1>5, <2>1
    <3> QED
      BY <1>3, <1>7, <1>8, <1>9, <2>1, <2>2, <3>1
  <2>3. CASE /\ ~(cursor[w] + n < msg_size) /\ cursor' = [cursor EXCEPT ![w] = 0]
             /\ conns' = [conns EXCEPT ![cur[w]] = 0] /\ pc' = [pc EXCEPT ![w] = "write"]
    <3>1. sread[c] + n = echo[c] + (msg_size - 0)
      BY <1>0, <1>3, <1>5, <2>1, <2>3
    <3>2. conns' = [conns EXCEPT ![fd] = 0]
      BY <1>2, <2>3
    <3> QED
      BY <1>7, <1>9, <2>1, <2>3, <3>1, <3>2
  <2> QED
    BY <1>9, <2>2, <2>3
<1>10. CASE /\ conns' = [conns EXCEPT ![cur[w]] = cursor[w]]
            /\ pc' = [pc EXCEPT ![w] = "batch"] /\ UNCHANGED <<sread, cursor>>
  <2>1. sread[c] + 0 = echo[c] + cursor[w] /\ sread[c] + 0 <= csent[c]
    BY <1>5
  <2> QED
    BY <1>2, <1>7, <1>8, <1>10, <2>1
<1>11. CASE pc' = [pc EXCEPT ![w] = "close"] /\ UNCHANGED <<conns, sread, cursor>>
  <2>1. sread[c] + 0 <= csent[c]
    BY <1>5
  <2> QED
    BY <1>7, <1>8, <1>11, <2>1
<1> QED
  BY <1>1, <1>9, <1>10, <1>11 DEF Reads

LEMMA WriteEcho == ASSUME EpollInv, EchoInv, NEW w \in Worker, Write(w) PROVE EchoInv'
<1>0. /\ pc \in [Worker -> {"wait", "batch", "accept", "event", "drain",
           "register", "enter", "read", "write", "close", "closed", "segv", "stray", "sigpipe"}]
      /\ cursor \in [Worker -> 0 .. msg_size] /\ msg_size \in Nat
      /\ sread \in [Client -> Nat] /\ echo \in [Client -> Nat] /\ csent \in [Client -> Nat]
  BY Sizes DEF EpollInv, TypeOK
<1>1. PICK fd, c : fd = cur[w] /\ c = sock[fd]
  OBVIOUS
<1>2. /\ pc[w] = "write"
      /\ UNCHANGED <<conns, incoming, interest, sock, backlog, batch, cur, hup, cst, csent, sread>>
  BY DEF Write, At, table, kernel
<1>3. fd \in interest[w] /\ c \in Client
  BY <1>1, <1>2, WhoseSocket DEF EpollInv, OwnInv, WorkerAt
<1>4. conns[fd] = 0 /\ cursor[w] \in Nat /\ cursor[w] <= msg_size
  BY <1>0, <1>1, <1>2 DEF EchoInv, EchoesAt
<1>5. /\ sread[c] \in Nat /\ echo[c] \in Nat /\ csent[c] \in Nat
      /\ sread[c] = echo[c] + (msg_size - cursor[w]) /\ sread[c] <= csent[c]
  <2>1. Owed(w, fd) = msg_size - cursor[w] /\ ~InHand(w, fd, {"close", "closed"})
    BY <1>1, <1>2 DEF Owed, InHand
  <2>2. sread[c] = echo[c] + (msg_size - cursor[w])
    BY <1>1, <1>3, <2>1 DEF EchoInv, EchoesAt
  <2> QED
    BY <1>0, <1>3, <2>2 DEF EchoInv, ClientAt
<1>6. sread' = [sread EXCEPT ![c] = @ + 0]
  <2>1. sread[c] + 0 = sread[c]
    BY <1>5
  <2> QED
    BY <1>0, <1>2, <1>3, <2>1
<1>7. ASSUME NEW n \in Nat, NEW p \in {"write", "batch", "sigpipe"}, NEW q \in Int,
             echo' = [echo EXCEPT ![c] = @ + n], cursor' = [cursor EXCEPT ![w] = q],
             pc' = [pc EXCEPT ![w] = p], q = cursor[w] + n, n <= msg_size - cursor[w],
             p = "batch" => q = msg_size
      PROVE  EchoInv'
  <2>1. /\ pc'[w] = p /\ cursor'[w] = q
        /\ \A v \in Worker \ {w} : pc'[v] = pc[v] /\ cursor'[v] = cursor[v]
    BY <1>0, <1>7
  <2>2. \A v \in Worker \ {w} : Rests(v)
    BY <1>2, <2>1 DEF Rests
  <2>3. Owed(w, fd)' = msg_size - q
    <3>1. CASE p = "batch"
      <4>1. Owed(w, fd)' = 0 /\ msg_size - q = 0
        BY <1>0, <1>2, <1>4, <1>7, <2>1, <3>1 DEF Owed, InHand
      <4> QED
        BY <4>1
    <3>2. CASE p # "batch"
      BY <1>1, <1>2, <2>1, <3>2 DEF Owed, InHand
    <3> QED
      BY <3>1, <3>2
  <2>4. /\ sread[c] + 0 = echo[c] + n + Owed(w, fd)'
        /\ echo[c] + n <= sread[c] + 0 /\ sread[c] + 0 <= csent[c]
    <3>1. sread[c] + 0 = echo[c] + n + (msg_size - q)
      BY <1>0, <1>4, <1>5, <1>7
    <3>2. echo[c] + n <= sread[c] + 0 /\ sread[c] + 0 <= csent[c]
      BY <1>0, <1>4, <1>5, <1>7
    <3> QED
      BY <2>3, <3>1, <3>2
  <2>5. /\ sock[fd] = c /\ cur[w] = fd /\ cur'[w] = fd /\ pc'[w] # "register" /\ pc[w] # "register"
        /\ pc'[w] = "write" => conns'[fd] = 0
    BY <1>1, <1>2, <1>4, <2>1
  <2>6. /\ UNCHANGED <<incoming, interest, sock, backlog, cst, csent>> /\ 0 \in Nat
        /\ echo' = [echo EXCEPT ![c] = @ + n]
        /\ \A gd \in interest[w] : gd # fd => conns'[gd] = conns[gd]
    BY <1>2, <1>7
  <2> QED
    BY <1>3, <1>6, <2>2, <2>4, <2>5, <2>6, EchoServed, Zenon
<1>8. ASSUME NEW n \in 1 .. msg_size - cursor[w],
             echo' = [echo EXCEPT ![c] = @ + n], cursor' = [cursor EXCEPT ![w] = @ + n],
             Goes(w, IF cursor[w] + n < msg_size THEN "write" ELSE "batch")
      PROVE  EchoInv'
  <2>1. n \in Nat /\ n <= msg_size - cursor[w] /\ cursor[w] + n \in Int
    BY <1>0, <1>4
  <2>2. CASE cursor[w] + n < msg_size
    BY <1>7, <1>8, <2>1, <2>2 DEF Goes
  <2>3. CASE ~(cursor[w] + n < msg_size)
    <3>1. cursor[w] + n = msg_size
      BY <1>0, <1>4, <2>1, <2>3
    <3> QED
      BY <1>7, <1>8, <2>1, <2>3, <3>1 DEF Goes
  <2> QED
    BY <2>2, <2>3
<1>9. CASE Goes(w, "sigpipe") /\ UNCHANGED <<echo, cursor>>
  <2>1. /\ echo[c] + 0 = echo[c] /\ cursor[w] = cursor[w] + 0 /\ 0 <= msg_size - cursor[w]
        /\ cursor[w] \in Int /\ 0 \in Nat
    BY <1>0, <1>4, <1>5
  <2>2. echo' = [echo EXCEPT ![c] = @ + 0] /\ cursor' = [cursor EXCEPT ![w] = cursor[w]]
    BY <1>0, <1>3, <1>9, <2>1
  <2> QED
    BY <1>7, <1>9, <2>1, <2>2 DEF Goes
<1> QED
  BY <1>1, <1>8, <1>9 DEF Write

\* What is owed to a client that is gone is forgotten with its descriptor.
LEMMA CloseEcho == ASSUME EpollInv, EchoInv, NEW w \in Worker, OnCloseStep(w) PROVE EchoInv'
<1>0. /\ pc \in [Worker -> {"wait", "batch", "accept", "event", "drain",
           "register", "enter", "read", "write", "close", "closed", "segv", "stray", "sigpipe"}]
      /\ conns \in [Fd -> (0 .. msg_size - 1) \cup {NULL}] /\ interest \in [Worker -> SUBSET Fd]
      /\ sock \in [Fd -> Client \cup {NULL}] /\ hup \in [Worker -> BOOLEAN]
      /\ backlog \in [Worker -> SUBSET Client] /\ sread \in [Client -> Nat]
  BY DEF EpollInv, TypeOK
<1>1. PICK fd : fd = cur[w]
  OBVIOUS
<1>2. /\ pc[w] \in {"close", "closed"}
      /\ UNCHANGED <<incoming, backlog, batch, cur, cursor, cst, csent, sread, echo>>
  BY DEF OnCloseStep, At, client
<1>3. fd \in interest[w]
  BY <1>1, <1>2 DEF EpollInv, OwnInv, WorkerAt
<1>4. /\ fd \in Fd /\ fd \in Holds(w) /\ sock[fd] \in Client
      /\ \A v \in Worker \ {w} : fd \notin Holds(v) /\ fd \notin interest[v]
  BY <1>3, HoldsIs, HeldClient
<1>5. CASE pc[w] = "close"
  <2>1. /\ pc' = [pc EXCEPT ![w] = "closed"] /\ conns' = [conns EXCEPT ![fd] = NULL]
        /\ UNCHANGED <<interest, sock, hup>>
    BY <1>1, <1>5 DEF OnCloseStep, At, Goes, Unslot
  <2>2. /\ pc'[w] = "closed" /\ \A v \in Worker \ {w} : pc'[v] = pc[v]
        /\ \A gd \in Fd : gd # fd => conns'[gd] = conns[gd]
    BY <1>0, <1>4, <2>1
  <2>3. \A v \in Worker \ {w} : Rests(v) /\ incoming'[v] = incoming[v]
    <3>1. \A v \in Worker \ {w} : \A gd \in interest[v] : gd \in Fd /\ gd # fd
      BY <1>0, <1>4
    <3> QED
      BY <1>2, <2>1, <2>2, <3>1 DEF Rests
  <2>4. ASSUME NEW v \in Worker \ {w} PROVE EchoesAt(v)'
    <3>1. pc[v] = "write" => cur[v] \in interest[v]
      BY DEF EpollInv, OwnInv, WorkerAt
    <3> QED
      BY <1>2, <2>1, <2>3, <3>1, EchoRests
  <2>5. EchoesAt(w)'
    <3>1. \A gd \in interest[w] : gd # fd => /\ gd \in Fd /\ ~InHand(w, gd, {"close", "closed"})
                                             /\ Owed(w, gd)' = Owed(w, gd)
      BY <1>0, <1>1, <1>2, <2>2 DEF Owed, InHand
    <3>2. InHand(w, fd, {"close", "closed"})'
      BY <1>1, <1>2, <2>2 DEF InHand
    <3>3. \A gd : gd \in Holds(w)' => gd \in Holds(w)
      BY <1>2, <2>1, <2>2 DEF Holds, Listed
    <3> QED
      BY <1>2, <2>1, <2>2, <3>1, <3>2, <3>3 DEF EchoInv, EchoesAt
  <2>6. OneSocket' /\ \A c \in Client : ClientAt(c)'
    BY <1>2, <2>1 DEF EchoInv, OneSocket, ClientAt
  <2> QED
    BY <2>4, <2>5, <2>6 DEF EchoInv
<1>6. CASE pc[w] = "closed"
  <2>1. /\ pc' = [pc EXCEPT ![w] = IF hup[w] THEN "enter" ELSE "batch"]
        /\ hup' = [hup EXCEPT ![w] = FALSE]
        /\ interest' = [interest EXCEPT ![w] = @ \ {fd}] /\ sock' = [sock EXCEPT ![fd] = NULL]
        /\ UNCHANGED conns
    BY <1>1, <1>6 DEF OnCloseStep, At, Goes, Release, AfterClose
  <2>2. /\ pc'[w] \in {"enter", "batch"} /\ interest'[w] = interest[w] \ {fd}
        /\ \A v \in Worker \ {w} : /\ pc'[v] = pc[v] /\ hup'[v] = hup[v]
                                   /\ interest'[v] = interest[v]
        /\ sock'[fd] = NULL /\ \A gd \in Fd : gd # fd => sock'[gd] = sock[gd]
    <3>1. PICK p \in {"enter", "batch"} : p = IF hup[w] THEN "enter" ELSE "batch"
      OBVIOUS
    <3>2. pc' = [pc EXCEPT ![w] = p]
      BY <2>1, <3>1
    <3> QED
      BY <1>0, <1>4, <2>1, <3>2
  <2>3. ASSUME NEW v \in Worker \ {w} PROVE EchoesAt(v)'
    <3>1. Rests(v) /\ incoming'[v] = incoming[v]
      BY <1>2, <2>1, <2>2 DEF Rests
    <3>2. pc[v] = "write" => cur[v] \in interest[v]
      BY DEF EpollInv, OwnInv, WorkerAt
    <3>3. \A gd \in Holds(v) : sock'[gd] = sock[gd]
      BY <1>4, <2>2, HeldClient
    <3> QED
      BY <1>2, <3>1, <3>2, <3>3, EchoRests
  <2>4. EchoesAt(w)'
    <3>1. \A gd \in interest'[w] : /\ gd \in interest[w] /\ gd # fd /\ gd \in Fd
                                   /\ ~InHand(w, gd, {"close", "closed"})
                                   /\ Owed(w, gd)' = Owed(w, gd)
      BY <1>0, <1>1, <1>2, <2>1, <2>2 DEF Owed, InHand
    <3>2. \A gd \in Holds(w)' \ interest'[w] : gd \in Holds(w) \ interest[w] /\ sock'[gd] = sock[gd]
      <4>1. \A gd : gd \in Holds(w)' <=> gd \in Elems(incoming[w]) \/ gd \in interest'[w]
        BY <1>2, <2>2 DEF Holds, Listed, Elems
      <4>2. fd \notin Elems(incoming[w])
        BY <1>3 DEF EpollInv, OwnInv, ListAt
      <4>3. \A gd \in Holds(w)' \ interest'[w] : gd \in Holds(w) \ interest[w] /\ gd # fd
        BY <2>2, <4>1, <4>2, HoldsIs
      <4> QED
        BY <2>2, <4>3, HeldClient
    <3> QED
      BY <1>2, <2>2, <3>1, <3>2 DEF EchoInv, EchoesAt
  <2>5. OneSocket'
    <3>1. \A v \in Worker : \A c \in backlog[v] : c # NULL
      BY <1>0, Sizes
    <3> QED
      BY <1>2, <2>2, <3>1 DEF EchoInv, OneSocket
  <2>6. \A c \in Client : ClientAt(c)'
    BY <1>2, <2>2, Sizes DEF EchoInv, ClientAt
  <2> QED
    BY <2>3, <2>4, <2>5, <2>6 DEF EchoInv
<1> QED
  BY <1>2, <1>5, <1>6

LEMMA EchoStep == ASSUME EpollInv, EchoInv, [Next]_vars PROVE EchoInv'
<1>1. CASE UNCHANGED vars
  <2>1. UNCHANGED <<conns, incoming, pc, cur, cursor, interest, sock, backlog, cst, csent, sread, echo>>
    BY <1>1 DEF vars
  <2> QED
    BY <2>1 DEF EchoInv, EchoesAt, ClientAt, OneSocket, Owed, InHand, Holds, Listed
<1>2. ASSUME NEW c \in Client, Send(c) \/ Leave(c) \/ \E w \in Reach[c] : Connect(c, w)
      PROVE  EchoInv'
  BY <1>2, ClientEcho, EpollAssumption
<1> QED
  BY <1>1, <1>2, QuietEcho, AcceptEcho, RegisterEcho, EnterEcho, ReadEcho, WriteEcho, CloseEcho
     DEF Next, Step

-----------------------------------------------------------------------------
(* The theorems *)

LEMMA EpollInit == Init => EpollInv
<1>1. Init => HandOver
  BY DEF Init, HandOver
<1> QED
  BY <1>1, TypeInit, OwnInit DEF EpollInv

LEMMA EpollCorrect == Spec => []EpollInv
<1>1. EpollInv /\ [Next]_vars => EpollInv'
  BY TypeStep, OwnStep, HandOverStep DEF EpollInv
<1> QED
  BY <1>1, EpollInit, PTL DEF Spec

LEMMA OwnedByOne == EpollInv => OneOwner
<1> SUFFICES ASSUME EpollInv, NEW fd \in Fd
    PROVE  /\ sock[fd] # NULL => Cardinality({ w \in Worker : fd \in Holds(w) }) = 1
           /\ sock[fd] = NULL => conns[fd] = NULL /\ \A w \in Worker : fd \notin Holds(w)
           /\ \A w \in Worker : fd \in Listed(w) => fd \notin interest[w]
  BY DEF OneOwner
<1> USE DEF EpollInv, OwnInv
<1>1. ASSUME sock[fd] # NULL
      PROVE  Cardinality({ w \in Worker : fd \in Holds(w) }) = 1
  <2>1. PICK w \in Worker : fd \in Holds(w)
    BY <1>1 DEF Placed
  <2>2. { v \in Worker : fd \in Holds(v) } = {w}
    BY <2>1 DEF Placed
  <2>3. Cardinality({w}) = 1
    BY FS_Singleton
  <2> QED
    BY <2>2, <2>3
<1>2. sock[fd] = NULL => conns[fd] = NULL /\ \A w \in Worker : fd \notin Holds(w)
  BY DEF Placed
<1>3. \A w \in Worker : fd \in Listed(w) => fd \notin interest[w]
  BY DEF ListAt, Listed, Elems
<1> QED
  BY <1>1, <1>2, <1>3

LEMMA CurrentEvents == EpollInv => EventsCurrent
<1> SUFFICES ASSUME EpollInv, ~Broken, NEW w \in Worker
    PROVE  /\ \A e \in batch[w] : e.fd \in Fd => e.fd \in interest[w] /\ conns[e.fd] # NULL
                                                 /\ (e.fd # cur[w] \/ pc[w] = "batch")
           /\ pc[w] \in {"enter", "read", "write"} => cur[w] \in interest[w] /\ conns[cur[w]] # NULL
  BY DEF EventsCurrent
<1>1. WorkerAt(w)
  BY DEF EpollInv, OwnInv
<1> QED
  BY <1>1 DEF WorkerAt

\* Descriptors, cursors and lists of the epoll server have their types.
THEOREM EpollTypeCorrect == Spec => []TypeOK
BY EpollCorrect, PTL DEF EpollInv

\* From accept4 to close a connection is with one worker: on its incoming.list, in
\* the hands of handle_new_conns, or in its epoll set.
THEOREM EpollOneOwner == Spec => []OneOwner
BY EpollCorrect, OwnedByOne, PTL

\* However many connections are handed over at once, whoever puts one on a list
\* sees to it that handle_new_conns looks there: no write to an eventfd is lost.
THEOREM EpollHandOver == Spec => []HandOver
BY EpollCorrect, PTL DEF EpollInv

\* As long as no connection was reset, an event that worker_func takes from its
\* array is of a connection that it still has.
THEOREM EpollEventsCurrent == Spec => []EventsCurrent
BY EpollCorrect, CurrentEvents, PTL

\* A client has one descriptor, and its worker writes to it what on_read read from
\* this client and no more (epoll.c:97-159), whoever had the descriptor before
\* and whichever worker accepted it.
THEOREM EpollEchoBack == Spec => [](OneSocket /\ Echoes)
<1>1. EchoInv => OneSocket /\ Echoes
  BY DEF EchoInv, EchoesAt, ClientAt, Echoes
<1>2. EpollInv /\ EchoInv /\ [Next]_vars => EchoInv'
  BY EchoStep
<1> QED
  BY <1>1, <1>2, EchoInit, EpollCorrect, PTL DEF Spec

===============================================================================
