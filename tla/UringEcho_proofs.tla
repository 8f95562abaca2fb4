-------------------------- MODULE UringEcho_proofs ---------------------------
(***************************************************************************)
(* As long as the process of the io_uring server runs (Alive), every       *)
(* descriptor is in one place and every worker that is handed a connection *)
(* is woken; and a worker finds its submission queue full only after it    *)
(* queued requests for many connections.  This is so for any workers,      *)
(* clients, messages and descriptors, and for a queue of any length.       *)
(***************************************************************************)
EXTENDS UringEcho, FiniteSetTheorems, WellFoundedInduction, TLAPS

LEMMA Sizes ==
    /\ NFd \in Nat /\ NFd >= 1 /\ msg_size \in Nat /\ msg_size >= 1 /\ MaxMsgs \in Nat
    /\ QUEUE_DEPTH \in Nat
    /\ NULL \notin Client /\ NULL \notin Worker /\ NULL \notin Nat /\ NULL \notin Fd
    /\ Fd \subseteq Nat
BY UringAssumption, NullAssumption DEF Fd

-----------------------------------------------------------------------------
(* Bags *)

\* The bag of the distinct requests D.
LEMMA Singles ==
    ASSUME NEW D
    PROVE  /\ IsABag(SetToBag(D)) /\ BagToSet(SetToBag(D)) = D
           /\ \A r : Copies(r, SetToBag(D)) = IF r \in D THEN 1 ELSE 0
BY DEF IsABag, SetToBag, BagToSet, Copies, BagIn

LEMMA CopiesType ==
    ASSUME NEW b, IsABag(b), NEW r
    PROVE  Copies(r, b) \in Nat /\ (Copies(r, b) > 0 <=> r \in BagToSet(b))
BY DEF IsABag, BagToSet, Copies, BagIn

LEMMA BagPlus ==
    ASSUME NEW b, IsABag(b), NEW c, IsABag(c)
    PROVE  /\ IsABag(b (+) c) /\ BagToSet(b (+) c) = BagToSet(b) \cup BagToSet(c)
           /\ \A r : Copies(r, b (+) c) = Copies(r, b) + Copies(r, c)
BY DEF IsABag, BagToSet, Copies, BagIn, (+)

LEMMA BagMinus ==
    ASSUME NEW b, IsABag(b), NEW s, BagIn(s, b)
    PROVE  /\ IsABag(b (-) SetToBag({s})) /\ BagToSet(b (-) SetToBag({s})) \subseteq BagToSet(b)
           /\ \A r : Copies(r, b (-) SetToBag({s})) = Copies(r, b) - IF r = s THEN 1 ELSE 0
BY DEF IsABag, BagToSet, Copies, BagIn, SetToBag, (-)

\* Two bags are added in any order, and the bags queued are of distinct requests.
LEMMA TwoSingles ==
    ASSUME NEW r, NEW s, r # s
    PROVE  SetToBag({r}) (+) SetToBag({s}) = SetToBag({r, s})
BY DEF SetToBag, (+)

LEMMA EntriesOf ==
    ASSUME NEW b, IsABag(b)
    PROVE  \A r, k : <<r, k>> \in Entries(b) <=> k \in 1 .. Copies(r, b)
BY DEF IsABag, BagToSet, Copies, BagIn, Entries

\* Two requests more are two entries more, at most.
LEMMA TwoMore ==
    ASSUME NEW b, IsABag(b), IsFiniteSet(Entries(b)), NEW r, NEW s
    PROVE  /\ IsFiniteSet(Entries(b (+) SetToBag({r, s})))
           /\ Cardinality(Entries(b (+) SetToBag({r, s}))) <= Cardinality(Entries(b)) + 2
           /\ Cardinality(Entries(b)) \in Nat
           /\ Cardinality(Entries(b (+) SetToBag({r, s}))) \in Nat
<1> DEFINE c == b (+) SetToBag({r, s})
           x == <<r, Copies(r, b) + 1>>
           y == <<s, Copies(s, b) + 1>>
<1>1. /\ IsABag(c)
      /\ \A z : Copies(z, c) = Copies(z, b) + IF z \in {r, s} THEN 1 ELSE 0
  BY BagPlus, Singles
<1>2. \A z : Copies(z, b) \in Nat
  BY CopiesType
<1>3. ASSUME NEW z, NEW k, <<z, k>> \in Entries(c)
      PROVE  <<z, k>> \in Entries(b) \/ <<z, k>> \in {x, y}
  <2>1. k \in 1 .. Copies(z, c)
    BY <1>1, <1>3, EntriesOf
  <2>2. \A m \in Nat : k \in 1 .. m + 1 => k \in 1 .. m \/ k = m + 1
    OBVIOUS
  <2>3. k \in 1 .. Copies(z, b) \/ (z \in {r, s} /\ k = Copies(z, b) + 1)
    BY <1>1, <1>2, <2>1, <2>2
  <2> QED
    BY <2>3, EntriesOf
<1>4. \A z \in Entries(c) : \E u, k : z = <<u, k>>
  BY DEF Entries
<1>5. Entries(c) \in SUBSET ((Entries(b) \cup {x}) \cup {y})
  BY <1>3, <1>4
<1>6. /\ IsFiniteSet((Entries(b) \cup {x}) \cup {y})
      /\ Cardinality((Entries(b) \cup {x}) \cup {y}) <= Cardinality(Entries(b)) + 2
      /\ Cardinality(Entries(b)) \in Nat
      /\ Cardinality((Entries(b) \cup {x}) \cup {y}) \in Nat
  <2>1. /\ IsFiniteSet(Entries(b) \cup {x}) /\ Cardinality(Entries(b)) \in Nat
        /\ Cardinality(Entries(b) \cup {x}) \in Nat
        /\ Cardinality(Entries(b) \cup {x}) <= Cardinality(Entries(b)) + 1
    BY FS_AddElement, FS_CardinalityType
  <2> DEFINE T == Entries(b) \cup {x}
  <2>2. IsFiniteSet(T) /\ Cardinality(T) \in Nat
    BY <2>1
  <2> HIDE DEF x, y, T
  <2>5. /\ IsFiniteSet(T \cup {y})
        /\ Cardinality(T \cup {y}) = IF y \in T THEN Cardinality(T) ELSE Cardinality(T) + 1
    BY <2>2, FS_AddElement, Zenon
  <2>3. IsFiniteSet(T \cup {y}) /\ Cardinality(T \cup {y}) <= Cardinality(T) + 1
    BY <2>2, <2>5
  <2>4. Cardinality(T \cup {y}) \in Nat
    BY <2>3, FS_CardinalityType
  <2> QED
    BY <2>1, <2>3, <2>4 DEF T
<1>7. /\ IsFiniteSet(Entries(c)) /\ Cardinality(Entries(c)) \in Nat
      /\ Cardinality(Entries(c)) <= Cardinality((Entries(b) \cup {x}) \cup {y})
  BY <1>5, <1>6, FS_Subset, FS_CardinalityType
<1> QED
  BY <1>6, <1>7

-----------------------------------------------------------------------------
(* Sequences *)

\* A completion is about a descriptor if it is of its connection, or accepted it.
Arrived(e, fd) == e.type = "ACCEPT" /\ e.res = fd
Once(q) == \A i, j \in 1 .. Len(q) : \A fd \in Fd :
    (IsAbout(q[i], fd) \/ Arrived(q[i], fd)) /\ (IsAbout(q[j], fd) \/ Arrived(q[j], fd)) => i = j

\* The worker's list is one of descriptors, none of them twice.
Distinct(s) == \A i, j \in 1 .. Len(s) : s[i] = s[j] => i = j

\* A sequence and what is left when its first element is taken.
LEMMA TailOf ==
    ASSUME NEW S, NEW q \in Seq(S), q # <<>>
    PROVE  /\ Head(q) \in S /\ Head(q) = q[1] /\ Tail(q) \in Seq(S)
           /\ Len(q) \in Nat /\ Len(q) >= 1 /\ Len(Tail(q)) = Len(q) - 1
           /\ DOMAIN q = 1 .. Len(q) /\ DOMAIN Tail(q) = 1 .. Len(q) - 1
           /\ \A i \in 1 .. Len(q) - 1 : i + 1 \in 1 .. Len(q) /\ Tail(q)[i] = q[i + 1]
           /\ \A i \in 1 .. Len(q) : i = 1 \/ (i - 1 \in 1 .. Len(q) - 1 /\ q[i] = Tail(q)[i - 1])
OBVIOUS

LEMMA AppendOf ==
    ASSUME NEW S, NEW q \in Seq(S), NEW e \in S
    PROVE  /\ Append(q, e) \in Seq(S) /\ Len(q) \in Nat /\ Len(Append(q, e)) = Len(q) + 1
           /\ DOMAIN q = 1 .. Len(q) /\ DOMAIN Append(q, e) = 1 .. Len(q) + 1
           /\ \A i \in 1 .. Len(q) : Append(q, e)[i] = q[i]
           /\ Append(q, e)[Len(q) + 1] = e
OBVIOUS

LEMMA PushOf ==
    ASSUME NEW S, NEW q \in Seq(S), NEW e \in S
    PROVE  /\ <<e>> \o q \in Seq(S) /\ Len(q) \in Nat /\ Len(<<e>> \o q) = Len(q) + 1
           /\ DOMAIN q = 1 .. Len(q) /\ DOMAIN (<<e>> \o q) = 1 .. Len(q) + 1
           /\ (<<e>> \o q)[1] = e
           /\ \A i \in 1 .. Len(q) : (<<e>> \o q)[i + 1] = q[i]
           /\ \A i \in 1 .. Len(q) + 1 : i = 1 \/ (i - 1 \in 1 .. Len(q) /\ (<<e>> \o q)[i] = q[i - 1])
<1> DEFINE t == <<e>> \o q
<1>1. /\ t \in Seq(S) /\ Len(t) = Len(q) + 1 /\ Len(q) \in Nat /\ t[1] = e
      /\ \A i \in 1 .. Len(q) : t[i + 1] = q[i]
  OBVIOUS
<1> HIDE DEF t
<1>2. DOMAIN q = 1 .. Len(q) /\ DOMAIN t = 1 .. Len(t)
  BY <1>1
<1>3. \A i \in 1 .. Len(q) + 1 : i = 1 \/ (i - 1 \in 1 .. Len(q) /\ t[i] = q[i - 1])
  BY <1>1
<1> QED
  BY <1>1, <1>2, <1>3 DEF t

\* What a completion is handled or added for the read of the eventfd.
LEMMA FiredTail ==
    ASSUME NEW S, NEW q \in Seq(S), q # <<>>
    PROVE  /\ IsFiniteSet(Fired(q)) /\ IsFiniteSet(Fired(Tail(q)))
           /\ Cardinality(Fired(q)) \in Nat
           /\ Cardinality(Fired(Tail(q))) =
                Cardinality(Fired(q)) - IF Head(q).type = "EV_READ" THEN 1 ELSE 0
<1> DEFINE f == [j \in Fired(Tail(q)) |-> j + 1]
           R == Fired(q) \ {1}
<1>1. IsFiniteSet(Fired(q)) /\ IsFiniteSet(Fired(Tail(q)))
  <2>1. IsFiniteSet(DOMAIN q) /\ IsFiniteSet(DOMAIN Tail(q))
    BY TailOf, FS_Interval
  <2>2. Fired(q) \in SUBSET DOMAIN q /\ Fired(Tail(q)) \in SUBSET DOMAIN Tail(q)
    BY DEF Fired
  <2> QED
    BY <2>1, <2>2, FS_Subset
<1>2. f \in Bijection(Fired(Tail(q)), R)
  <2>1. \A j \in Fired(Tail(q)) : j \in Nat /\ j + 1 \in R
    BY TailOf DEF Fired
  <2>2. \A i \in R : i - 1 \in Fired(Tail(q)) /\ i = (i - 1) + 1
    BY TailOf DEF Fired
  <2>3. f \in [Fired(Tail(q)) -> R]
    BY <2>1
  <2>4. \A a, b \in Fired(Tail(q)) : f[a] = f[b] => a = b
    BY <2>1
  <2>5. \A i \in R : \E j \in Fired(Tail(q)) : f[j] = i
    BY <2>2
  <2> HIDE DEF f, R
  <2> QED
    BY <2>3, <2>4, <2>5 DEF Bijection, Injection, Surjection, IsInjective
<1>3. Cardinality(Fired(Tail(q))) = Cardinality(R)
  BY <1>1, <1>2, FS_Bijection DEF ExistsBijection
<1>4. 1 \in Fired(q) <=> Head(q).type = "EV_READ"
  BY TailOf DEF Fired
<1>5. Cardinality(Fired(q)) \in Nat
  BY <1>1, FS_CardinalityType
<1>6. Cardinality(R) = IF 1 \in Fired(q) THEN Cardinality(Fired(q)) - 1 ELSE Cardinality(Fired(q))
  BY <1>1, FS_RemoveElement
<1> QED
  BY <1>1, <1>3, <1>4, <1>5, <1>6

LEMMA FiredAppend ==
    ASSUME NEW S, NEW q \in Seq(S), NEW e \in S
    PROVE  /\ Cardinality(Fired(q)) \in Nat
           /\ Cardinality(Fired(Append(q, e))) =
                Cardinality(Fired(q)) + IF e.type = "EV_READ" THEN 1 ELSE 0
<1>1. IsFiniteSet(Fired(q))
  <2>1. IsFiniteSet(DOMAIN q) /\ Fired(q) \in SUBSET DOMAIN q
    BY AppendOf, FS_Interval DEF Fired
  <2> QED
    BY <2>1, FS_Subset
<1>2. Len(q) + 1 \notin Fired(q)
  BY AppendOf DEF Fired
<1>3. Fired(Append(q, e)) = IF e.type = "EV_READ" THEN Fired(q) \cup {Len(q) + 1} ELSE Fired(q)
  <2>1. \A i : i \in Fired(Append(q, e)) <=> i \in Fired(q) \/ (i = Len(q) + 1 /\ e.type = "EV_READ")
    BY AppendOf DEF Fired
  <2> QED
    BY <2>1
<1> QED
  BY <1>1, <1>2, <1>3, FS_AddElement, FS_CardinalityType

\* What is in a queue of completions, and on a list.
EndedIn(q, fd)   == \E j \in 1 .. Len(q) : IsAbout(q[j], fd)
ArrivedIn(q, fd) == \E j \in 1 .. Len(q) : Arrived(q[j], fd)
AcceptIn(q)      == \E j \in 1 .. Len(q) : q[j].type = "ACCEPT"
OneAccept(q)     == \A i, j \in 1 .. Len(q) : q[i].type = "ACCEPT" /\ q[j].type = "ACCEPT" => i = j
OnList(s, fd)    == \E j \in 1 .. Len(s) : s[j] = fd

LEMMA QueueTail ==
    ASSUME NEW S, NEW q \in Seq(S), q # <<>>
    PROVE  /\ Once(q) => /\ Once(Tail(q))
                         /\ \A fd \in Fd :
                              /\ EndedIn(Tail(q), fd) <=> EndedIn(q, fd) /\ ~IsAbout(Head(q), fd)
                              /\ ArrivedIn(Tail(q), fd) <=> ArrivedIn(q, fd) /\ ~Arrived(Head(q), fd)
           /\ OneAccept(q) => /\ OneAccept(Tail(q))
                              /\ AcceptIn(Tail(q)) <=> AcceptIn(q) /\ Head(q).type # "ACCEPT"
<1> DEFINE t == Tail(q)
<1>1. /\ Len(q) \in Nat /\ Len(q) >= 1 /\ Len(t) = Len(q) - 1 /\ Head(q) = q[1]
      /\ \A i \in 1 .. Len(t) : i + 1 \in 1 .. Len(q) /\ t[i] = q[i + 1]
      /\ \A i \in 1 .. Len(q) : i = 1 \/ (i - 1 \in 1 .. Len(t) /\ q[i] = t[i - 1])
  BY TailOf
<1> HIDE DEF t
<1>2. 1 \in 1 .. Len(q) /\ \A i \in 1 .. Len(t) : i + 1 # 1
  BY <1>1
<1>3. ASSUME Once(q) PROVE Once(t)
  BY <1>1, <1>3 DEF Once
<1>4. ASSUME Once(q), NEW fd \in Fd
      PROVE  /\ EndedIn(t, fd) <=> EndedIn(q, fd) /\ ~IsAbout(Head(q), fd)
             /\ ArrivedIn(t, fd) <=> ArrivedIn(q, fd) /\ ~Arrived(Head(q), fd)
  BY <1>1, <1>2, <1>4 DEF Once, EndedIn, ArrivedIn
<1>5. ASSUME OneAccept(q)
      PROVE  OneAccept(t) /\ (AcceptIn(t) <=> AcceptIn(q) /\ Head(q).type # "ACCEPT")
  <2>1. OneAccept(t)
    BY <1>1, <1>5 DEF OneAccept
  <2>2. AcceptIn(t) => AcceptIn(q) /\ Head(q).type # "ACCEPT"
    BY <1>1, <1>2, <1>5 DEF OneAccept, AcceptIn
  <2>3. AcceptIn(q) /\ Head(q).type # "ACCEPT" => AcceptIn(t)
    BY <1>1 DEF AcceptIn
  <2> QED
    BY <2>1, <2>2, <2>3
<1> QED
  BY <1>3, <1>4, <1>5 DEF t

LEMMA QueueAppend ==
    ASSUME NEW S, NEW q \in Seq(S), NEW e \in S
    PROVE  /\ \A fd \in Fd :
                /\ EndedIn(Append(q, e), fd) <=> EndedIn(q, fd) \/ IsAbout(e, fd)
                /\ ArrivedIn(Append(q, e), fd) <=> ArrivedIn(q, fd) \/ Arrived(e, fd)
           /\ AcceptIn(Append(q, e)) <=> AcceptIn(q) \/ e.type = "ACCEPT"
           /\ Once(q) /\ (\A fd \in Fd : IsAbout(e, fd) \/ Arrived(e, fd) =>
                                ~EndedIn(q, fd) /\ ~ArrivedIn(q, fd))
                => Once(Append(q, e))
           /\ OneAccept(q) /\ (e.type = "ACCEPT" => ~AcceptIn(q)) => OneAccept(Append(q, e))
<1> DEFINE t == Append(q, e)
<1>1. /\ Len(q) \in Nat /\ Len(t) = Len(q) + 1 /\ t[Len(q) + 1] = e
      /\ \A i \in 1 .. Len(q) : t[i] = q[i]
  BY AppendOf
<1> HIDE DEF t
<1>2. /\ \A i \in 1 .. Len(t) : i \in 1 .. Len(q) \/ i = Len(q) + 1
      /\ Len(q) + 1 \in 1 .. Len(t) /\ \A i \in 1 .. Len(q) : i \in 1 .. Len(t)
  BY <1>1
<1>3. ASSUME NEW fd \in Fd
      PROVE  /\ EndedIn(t, fd) <=> EndedIn(q, fd) \/ IsAbout(e, fd)
             /\ ArrivedIn(t, fd) <=> ArrivedIn(q, fd) \/ Arrived(e, fd)
  BY <1>1, <1>2 DEF EndedIn, ArrivedIn
<1>4. AcceptIn(t) <=> AcceptIn(q) \/ e.type = "ACCEPT"
  BY <1>1, <1>2 DEF AcceptIn
<1>5. ASSUME Once(q), \A fd \in Fd : IsAbout(e, fd) \/ Arrived(e, fd) =>
                                       ~EndedIn(q, fd) /\ ~ArrivedIn(q, fd)
      PROVE  Once(t)
  BY <1>1, <1>2, <1>5 DEF Once, EndedIn, ArrivedIn
<1>6. ASSUME OneAccept(q), e.type = "ACCEPT" => ~AcceptIn(q) PROVE OneAccept(t)
  BY <1>1, <1>2, <1>6 DEF OneAccept, AcceptIn
<1> QED
  BY <1>3, <1>4, <1>5, <1>6 DEF t

LEMMA ListTail ==
    ASSUME NEW q \in Seq(Fd), q # <<>>, Distinct(q)
    PROVE  /\ Distinct(Tail(q)) /\ OnList(q, Head(q))
           /\ \A fd : OnList(Tail(q), fd) <=> OnList(q, fd) /\ Head(q) # fd
<1> DEFINE t == Tail(q)
<1>1. /\ Len(q) \in Nat /\ Len(q) >= 1 /\ Len(t) = Len(q) - 1 /\ Head(q) = q[1]
      /\ \A i \in 1 .. Len(t) : i + 1 \in 1 .. Len(q) /\ t[i] = q[i + 1]
      /\ \A i \in 1 .. Len(q) : i = 1 \/ (i - 1 \in 1 .. Len(t) /\ q[i] = t[i - 1])
  BY TailOf
<1> HIDE DEF t
<1>2. 1 \in 1 .. Len(q) /\ \A i \in 1 .. Len(t) : i + 1 # 1
  BY <1>1
<1>3. Distinct(t)
  BY <1>1 DEF Distinct
<1>4. \A fd : OnList(t, fd) <=> OnList(q, fd) /\ Head(q) # fd
  BY <1>1, <1>2 DEF Distinct, OnList
<1> QED
  BY <1>1, <1>2, <1>3, <1>4 DEF t, OnList

LEMMA ListPush ==
    ASSUME NEW q \in Seq(Fd), NEW e \in Fd
    PROVE  /\ \A fd : OnList(<<e>> \o q, fd) <=> OnList(q, fd) \/ e = fd
           /\ Distinct(q) /\ ~OnList(q, e) => Distinct(<<e>> \o q)
<1> DEFINE t == <<e>> \o q
<1>1. /\ Len(q) \in Nat /\ Len(t) = Len(q) + 1 /\ t[1] = e
      /\ \A i \in 1 .. Len(q) : t[i + 1] = q[i]
      /\ \A i \in 1 .. Len(t) : i = 1 \/ (i - 1 \in 1 .. Len(q) /\ t[i] = q[i - 1])
  BY PushOf
<1> HIDE DEF t
<1>2. 1 \in 1 .. Len(t) /\ \A i \in 1 .. Len(q) : i + 1 \in 1 .. Len(t)
  BY <1>1
<1>3. \A fd : OnList(t, fd) <=> OnList(q, fd) \/ e = fd
  BY <1>1, <1>2 DEF OnList
<1>4. ASSUME Distinct(q), ~OnList(q, e) PROVE Distinct(t)
  <2>1. \A i \in 1 .. Len(q) : q[i] # e
    BY <1>4 DEF OnList
  <2>2. ASSUME NEW i \in 1 .. Len(t), NEW j \in 1 .. Len(t), t[i] = t[j] PROVE i = j
    <3>1. CASE i = 1 \/ j = 1
      BY <1>1, <2>1, <2>2, <3>1
    <3>2. CASE i # 1 /\ j # 1
      <4>1. /\ i - 1 \in 1 .. Len(q) /\ t[i] = q[i - 1]
            /\ j - 1 \in 1 .. Len(q) /\ t[j] = q[j - 1]
        BY <1>1, <3>2
      <4>2. i - 1 = j - 1
        BY <1>4, <2>2, <4>1 DEF Distinct
      <4> QED
        BY <1>1, <4>2
    <3> QED
      BY <3>1, <3>2
  <2> QED
    BY <2>2 DEF Distinct
<1> QED
  BY <1>3, <1>4 DEF t

-----------------------------------------------------------------------------
(* The inductive invariant *)

AcceptReq       == Req("ACCEPT", NULL, 0)
EventReq        == Req("EV_READ", NULL, 0)
SignalReq(w)    == Req("EV_WRITE", w, 0)
Out(r, w)       == Copies(r, sq[w]) + Copies(r, flight[w])

\* Where a descriptor may be, and with which worker.
Kind == {"request", "ended", "accepted", "listed", "closing"}
Spot(k, w, fd) ==
    \/ k = "request"  /\ \E r \in Request : IsAbout(r, fd) /\ Out(r, w) > 0
    \/ k = "ended"    /\ EndedIn(cq[w], fd)
    \/ k = "accepted" /\ ArrivedIn(cq[w], fd)
    \/ k = "listed"   /\ OnList(incoming[w], fd)
    \/ k = "closing"  /\ closing[w] = fd

\* There is a connection for it.
Connected(w, fd) == Spot("request", w, fd) \/ Spot("ended", w, fd)
                        \/ (Spot("closing", w, fd) /\ pc[w] = "close")

Unique(fd) ==
    /\ \A k, l \in Kind, v, w \in Worker : Spot(k, v, fd) /\ Spot(l, w, fd) => k = l /\ v = w
    /\ sock[fd] # NULL <=> \E k \in Kind, w \in Worker : Spot(k, w, fd)
    /\ conns[fd] # NULL <=> \E w \in Worker : Connected(w, fd)

\* Nothing is about a descriptor twice, and a worker closes one at a time.
Single(w) ==
    /\ \A r, s \in Request, fd \in Fd :
         IsAbout(r, fd) /\ IsAbout(s, fd) /\ Out(r, w) > 0 /\ Out(s, w) > 0 => r = s /\ Out(r, w) = 1
    /\ Once(cq[w]) /\ Distinct(incoming[w])
    /\ closing[w] # NULL <=> pc[w] \in {"close", "closed"}

\* A request is for what the connection's message lacks.
Lens(w) == \A fd \in Fd :
    /\ \A r \in Request : IsAbout(r, fd) /\ Out(r, w) > 0 => r.len = msg_size - conns[fd]
    /\ \A j \in 1 .. Len(cq[w]) : IsAbout(cq[w][j], fd) => cq[w][j].res <= msg_size - conns[fd]

\* One accept is asked for at a time.
Accepting(w) ==
    /\ Out(AcceptReq, w) <= 1 /\ OneAccept(cq[w])
    /\ AcceptIn(cq[w]) => Out(AcceptReq, w) = 0

\* The queue has two entries at most for each descriptor that is asked about in it,
\* and two if it asks for an accept.
Fits(b) ==
    /\ IsFiniteSet(Entries(b))
    /\ Cardinality(Entries(b)) <= 2 * Cardinality(SockFds(b)) + 2 * Copies(AcceptReq, b)

Own == /\ \A fd \in Fd : Unique(fd)
       /\ \A w \in Worker : Single(w) /\ Lens(w) /\ Accepting(w) /\ Fits(sq[w])
UringInv == TypeOK /\ (Alive => Own)

\* The requests a worker queues are in Request, and are what they are about.
LEMMA Requests ==
    /\ AcceptReq \in Request /\ EventReq \in Request
    /\ \A w \in Worker : SignalReq(w) \in Request /\ SignalReq(w) # AcceptReq
    /\ AcceptReq # EventReq
    /\ \A fd \in Fd, n \in 1 .. msg_size, t \in {"SOCK_READ", "SOCK_WRITE"} :
         /\ Req(t, fd, n) \in Request /\ Req(t, fd, n).len = n
         /\ Req(t, fd, n) # AcceptReq /\ Req(t, fd, n) # EventReq
         /\ \A w \in Worker : Req(t, fd, n) # SignalReq(w)
         /\ \A g : IsAbout(Req(t, fd, n), g) <=> g = fd
    /\ \A g : ~IsAbout(AcceptReq, g) /\ ~IsAbout(EventReq, g) /\ \A w : ~IsAbout(SignalReq(w), g)
BY DEF AcceptReq, EventReq, SignalReq, Req, Request, IsAbout

LEMMA RequestIs ==
    \A r \in Request : /\ r = [type |-> r.type, on |-> r.on, len |-> r.len]
                       /\ \A g : IsAbout(r, g) => g \in Fd /\ r.len \in 1 .. msg_size
BY DEF Request, IsAbout

\* The bags of a worker and what they hold together.
LEMMA OutIs ==
    ASSUME TypeOK, NEW w \in Worker
    PROVE  /\ IsABag(sq[w]) /\ IsABag(flight[w]) /\ IsABag(Asked(w))
           /\ BagToSet(sq[w]) \subseteq Request /\ BagToSet(flight[w]) \subseteq Request
           /\ \A r : /\ Copies(r, sq[w]) \in Nat /\ Copies(r, flight[w]) \in Nat /\ Out(r, w) \in Nat
                     /\ Copies(r, Asked(w)) = Out(r, w)
                     /\ Out(r, w) > 0 => r \in Request
                     /\ Copies(r, sq[w]) > 0 <=> r \in BagToSet(sq[w])
                     /\ Copies(r, flight[w]) > 0 <=> r \in BagToSet(flight[w])
<1>1. /\ IsABag(sq[w]) /\ IsABag(flight[w])
      /\ BagToSet(sq[w]) \subseteq Request /\ BagToSet(flight[w]) \subseteq Request
  BY DEF TypeOK
<1>2. \A r : /\ Copies(r, sq[w]) \in Nat /\ Copies(r, flight[w]) \in Nat
             /\ Copies(r, sq[w]) > 0 <=> r \in BagToSet(sq[w])
             /\ Copies(r, flight[w]) > 0 <=> r \in BagToSet(flight[w])
  BY <1>1, CopiesType
<1>3. IsABag(Asked(w)) /\ \A r : Copies(r, Asked(w)) = Out(r, w)
  BY <1>1, BagPlus DEF Asked, Out
<1> QED
  BY <1>1, <1>2, <1>3 DEF Out

-----------------------------------------------------------------------------
(* What the parts of an action do *)

\* A completion is taken from the queue.
LEMMA HandlesIs ==
    ASSUME TypeOK, NEW w \in Worker, NEW t, Handles(w, t)
    PROVE  /\ pc[w] \in {"wait", "handle"} /\ UNCHANGED <<flight, kernel, client>>
           /\ cq[w] \in Seq(Completion) /\ cq[w] # <<>>
           /\ Head(cq[w]) \in Completion /\ Head(cq[w]).type = t /\ Head(cq[w]) = cq[w][1]
           /\ 1 \in 1 .. Len(cq[w])
           /\ cq' \in [Worker -> Seq(Completion)] /\ cq'[w] = Tail(cq[w])
           /\ \A v \in Worker \ {w} : cq'[v] = cq[v]
<1>1. cq \in [Worker -> Seq(Completion)]
  BY DEF TypeOK
<1>2. cq[w] \in Seq(Completion)
  BY <1>1
<1> QED
  BY <1>1, <1>2, TailOf DEF Handles

\* Requests are queued, or the process ends at the one that found no entry.
LEMMA QueuesIs ==
    ASSUME TypeOK, NEW w \in Worker, NEW D \in SUBSET Request, NEW p, p # "segv",
           Queues(w, SetToBag(D), p)
    PROVE  /\ DOMAIN sq' = Worker
           /\ \A v \in Worker : IsABag(sq'[v]) /\ BagToSet(sq'[v]) \subseteq Request
           /\ \/ pc' = [pc EXCEPT ![w] = "segv"]
                 /\ ~(Cardinality(Entries(sq[w] (+) SetToBag(D))) <= QUEUE_DEPTH)
              \/ pc' = [pc EXCEPT ![w] = p]
           /\ pc'[w] # "segv" =>
                /\ pc' = [pc EXCEPT ![w] = p]
                /\ sq'[w] = sq[w] (+) SetToBag(D)
                /\ \A v \in Worker \ {w} : sq'[v] = sq[v]
                /\ \A v \in Worker : \A r : Copies(r, sq'[v]) =
                     Copies(r, sq[v]) + IF v = w /\ r \in D THEN 1 ELSE 0
<1>1. /\ IsABag(sq[w] (+) SetToBag(D)) /\ BagToSet(sq[w] (+) SetToBag(D)) \subseteq Request
      /\ \A r : Copies(r, sq[w] (+) SetToBag(D)) = Copies(r, sq[w]) + IF r \in D THEN 1 ELSE 0
  BY Singles, BagPlus, OutIs
<1>2. /\ DOMAIN sq = Worker /\ pc \in [Worker -> {"wait", "handle", "drain", "close", "closed", "segv"}]
      /\ \A v \in Worker : IsABag(sq[v]) /\ BagToSet(sq[v]) \subseteq Request
  BY DEF TypeOK
<1>3. CASE sq' = [sq EXCEPT ![w] = @ (+) SetToBag(D)] /\ Goes(w, p)
  <2>1. /\ DOMAIN sq' = Worker /\ sq'[w] = sq[w] (+) SetToBag(D)
        /\ \A v \in Worker \ {w} : sq'[v] = sq[v]
    BY <1>2, <1>3
  <2>2. \A v \in Worker \ {w} : \A r : Copies(r, sq[v]) \in Nat
    BY OutIs
  <2>3. \A v \in Worker : IsABag(sq'[v]) /\ BagToSet(sq'[v]) \subseteq Request
    BY <1>1, <1>2, <2>1
  <2>4. \A v \in Worker : \A r : Copies(r, sq'[v]) =
                     Copies(r, sq[v]) + IF v = w /\ r \in D THEN 1 ELSE 0
    <3> TAKE v \in Worker
    <3>1. CASE v = w
      BY <1>1, <2>1, <3>1
    <3>2. CASE v # w
      BY <2>1, <2>2, <3>2
    <3> QED
      BY <3>1, <3>2
  <2> QED
    BY <1>3, <2>1, <2>3, <2>4 DEF Goes
<1>4. CASE /\ Goes(w, "segv") /\ UNCHANGED sq
           /\ ~(Cardinality(Entries(sq[w] (+) SetToBag(D))) <= QUEUE_DEPTH)
  BY <1>2, <1>4 DEF Goes
<1> QED
  BY <1>3, <1>4 DEF Queues

\* The kernel completes a request.
LEMMA CompletedIs ==
    ASSUME TypeOK, NEW w \in Worker, NEW r, NEW res, Completed(w, r, res),
           [type |-> r.type, on |-> r.on, res |-> res] \in Completion
    PROVE  /\ r \in Request /\ Out(r, w) > 0 /\ UNCHANGED <<table, pc, closing, sq>>
           /\ DOMAIN flight' = Worker
           /\ \A v \in Worker : IsABag(flight'[v]) /\ BagToSet(flight'[v]) \subseteq Request
           /\ \A v \in Worker \ {w} : flight'[v] = flight[v] /\ cq'[v] = cq[v]
           /\ \A s : Copies(s, flight'[w]) = Copies(s, flight[w]) - IF s = r THEN 1 ELSE 0
           /\ cq' \in [Worker -> Seq(Completion)]
           /\ cq'[w] = Append(cq[w], [type |-> r.type, on |-> r.on, res |-> res])
<1>1. /\ BagIn(r, flight[w])
      /\ flight' = [flight EXCEPT ![w] = @ (-) SetToBag({r})]
      /\ cq' = [cq EXCEPT ![w] = Append(@, [type |-> r.type, on |-> r.on, res |-> res])]
      /\ UNCHANGED <<table, pc, closing, sq>>
  BY DEF Completed
<1>2. /\ DOMAIN flight = Worker /\ cq \in [Worker -> Seq(Completion)]
      /\ \A v \in Worker : IsABag(flight[v]) /\ BagToSet(flight[v]) \subseteq Request
  BY DEF TypeOK
<1>3. r \in Request /\ Out(r, w) > 0
  <2>1. r \in BagToSet(flight[w]) /\ r \in Request
    BY <1>1, <1>2 DEF BagIn
  <2>2. Copies(r, flight[w]) > 0 /\ Copies(r, flight[w]) \in Nat /\ Copies(r, sq[w]) \in Nat
    BY <2>1, OutIs
  <2> QED
    BY <2>1, <2>2 DEF Out
<1>4. /\ IsABag(flight[w] (-) SetToBag({r}))
      /\ BagToSet(flight[w] (-) SetToBag({r})) \subseteq Request
      /\ \A s : Copies(s, flight[w] (-) SetToBag({r})) = Copies(s, flight[w]) - IF s = r THEN 1 ELSE 0
  BY <1>1, <1>2, BagMinus
<1>5. /\ DOMAIN flight' = Worker /\ flight'[w] = flight[w] (-) SetToBag({r})
      /\ \A v \in Worker \ {w} : flight'[v] = flight[v]
  BY <1>1, <1>2
<1>6. /\ \A v \in Worker \ {w} : cq'[v] = cq[v]
      /\ cq'[w] = Append(cq[w], [type |-> r.type, on |-> r.on, res |-> res])
      /\ cq' \in [Worker -> Seq(Completion)]
  <2> DEFINE e == [type |-> r.type, on |-> r.on, res |-> res]
  <2>1. e \in Completion
    OBVIOUS
  <2> HIDE DEF e
  <2>2. cq' = [cq EXCEPT ![w] = Append(@, e)]
    BY <1>1 DEF e
  <2>3. cq'[w] = Append(cq[w], e) /\ Append(cq[w], e) \in Seq(Completion)
    BY <1>2, <2>1, <2>2
  <2> QED
    BY <1>2, <2>2, <2>3 DEF e
<1> QED
  BY <1>1, <1>2, <1>3, <1>4, <1>5, <1>6

\* A worker asks about a descriptor it does not ask about yet.
LEMMA AsksMore ==
    ASSUME TypeOK, NEW w \in Worker, Single(w), NEW D \in SUBSET Request, NEW x \in D, NEW fd \in Fd,
           \A r \in D : \A g : IsAbout(r, g) <=> r = x /\ g = fd,
           \A r : Copies(r, sq'[w]) = Copies(r, sq[w]) + IF r \in D THEN 1 ELSE 0,
           UNCHANGED flight, ~Spot("request", w, fd)
    PROVE  /\ \A g \in Fd : Spot("request", w, g)' <=> Spot("request", w, g) \/ g = fd
           /\ \A r, s \in Request, g \in Fd :
                IsAbout(r, g) /\ IsAbout(s, g) /\ Out(r, w)' > 0 /\ Out(s, w)' > 0
                => r = s /\ Out(r, w)' = 1
           /\ \A r \in Request : IsAbout(r, fd) /\ Out(r, w)' > 0 => r = x
           /\ \A r \in Request, g \in Fd \ {fd} : IsAbout(r, g) => Out(r, w)' = Out(r, w)
<1>1. \A r : Out(r, w) \in Nat /\ Out(r, w)' = Out(r, w) + IF r \in D THEN 1 ELSE 0
  BY OutIs DEF Out
<1>2. \A r \in Request : IsAbout(r, fd) => Out(r, w) = 0
  BY <1>1 DEF Spot
<1>3. \A r \in Request, g \in Fd : IsAbout(r, g) =>
        Out(r, w)' = Out(r, w) + IF r = x /\ g = fd THEN 1 ELSE 0
  BY <1>1
<1>4. x \in Request /\ IsAbout(x, fd)
  OBVIOUS
<1>5. \A r \in Request, g \in Fd \ {fd} : IsAbout(r, g) => Out(r, w)' = Out(r, w)
  BY <1>1, <1>3
<1>6. \A r \in Request : IsAbout(r, fd) => Out(r, w)' = IF r = x THEN 1 ELSE 0
  BY <1>2, <1>3
<1>7. \A g \in Fd : Spot("request", w, g)' <=> Spot("request", w, g) \/ g = fd
  <2> TAKE g \in Fd
  <2>1. CASE g = fd
    BY <1>4, <1>6, <2>1 DEF Spot
  <2>2. CASE g # fd
    BY <1>5, <2>2 DEF Spot
  <2> QED
    BY <2>1, <2>2
<1>8. ASSUME NEW r \in Request, NEW s \in Request, NEW g \in Fd,
             IsAbout(r, g), IsAbout(s, g), Out(r, w)' > 0, Out(s, w)' > 0
      PROVE  r = s /\ Out(r, w)' = 1
  <2>1. CASE g = fd
    BY <1>6, <1>8, <2>1
  <2>2. CASE g # fd
    BY <1>5, <1>8, <2>2 DEF Single
  <2> QED
    BY <2>1, <2>2
<1> QED
  BY <1>5, <1>6, <1>7, <1>8

\* What is asked about connections stays as it is.
SameAsked(w) == \A r \in Request, g \in Fd : IsAbout(r, g) => Out(r, w)' = Out(r, w)

LEMMA AsksSame ==
    ASSUME NEW w \in Worker, SameAsked(w)
    PROVE  /\ \A g \in Fd : Spot("request", w, g)' <=> Spot("request", w, g)
           /\ Single(w) => \A r, s \in Request, g \in Fd :
                IsAbout(r, g) /\ IsAbout(s, g) /\ Out(r, w)' > 0 /\ Out(s, w)' > 0
                => r = s /\ Out(r, w)' = 1
BY DEF SameAsked, Spot, Single

-----------------------------------------------------------------------------
(* A descriptor goes from one place to another *)

Shift(fd, k, w, l, v) ==
    \A m \in Kind, u \in Worker, g \in Fd : Spot(m, u, g)' <=>
        \/ Spot(m, u, g) /\ ~(m = k /\ u = w /\ g = fd)
        \/ m = l /\ u = v /\ g = fd

\* k or l is "none" when it is accepted or closed.
LEMMA ShiftKeeps ==
    ASSUME \A g \in Fd : Unique(g),
           NEW fd \in Fd, NEW k \in Kind \cup {"none"}, NEW l \in Kind \cup {"none"},
           NEW w \in Worker, NEW v \in Worker, Shift(fd, k, w, l, v),
           IF k = "none" THEN sock[fd] = NULL ELSE Spot(k, w, fd),
           sock'[fd] # NULL <=> l # "none",
           conns'[fd] # NULL <=> l \in {"request", "ended"} \/ (l = "closing" /\ pc'[v] = "close"),
           \A g \in Fd \ {fd} : sock'[g] = sock[g] /\ conns'[g] = conns[g],
           \A g \in Fd \ {fd}, u \in Worker : Spot("closing", u, g) => (pc'[u] = "close" <=> pc[u] = "close")
    PROVE  \A g \in Fd : Unique(g)'
<1> TAKE g \in Fd
<1> USE DEF Shift
<1>1. CASE g = fd
  <2>1. \A m \in Kind, u \in Worker : Spot(m, u, fd) => m = k /\ u = w
    BY DEF Unique
  <2>2. \A m \in Kind, u \in Worker : Spot(m, u, fd)' <=> m = l /\ u = v
    BY <2>1
  <2>3. (\E m \in Kind, u \in Worker : Spot(m, u, fd)') <=> l # "none"
    BY <2>2 DEF Kind
  <2>4. (\E u \in Worker : Connected(u, fd)') <=>
           l \in {"request", "ended"} \/ (l = "closing" /\ pc'[v] = "close")
    <3>1. \A u \in Worker : Connected(u, fd)' <=>
            u = v /\ (l \in {"request", "ended"} \/ (l = "closing" /\ pc'[u] = "close"))
      BY <2>2 DEF Connected, Kind
    <3> QED
      BY <3>1
  <2> QED
    BY <1>1, <2>2, <2>3, <2>4 DEF Unique
<1>2. CASE g # fd
  <2>1. \A m \in Kind, u \in Worker : Spot(m, u, g)' <=> Spot(m, u, g)
    BY <1>2
  <2>2. \A u \in Worker : Connected(u, g)' <=> Connected(u, g)
    BY <1>2, <2>1 DEF Connected, Kind
  <2>3. sock'[g] = sock[g] /\ conns'[g] = conns[g]
    BY <1>2
  <2> QED
    BY <2>1, <2>2, <2>3 DEF Unique
<1> QED
  BY <1>1, <1>2

\* Or all descriptors stay where they are.
Stay == \A m \in Kind, u \in Worker, g \in Fd : Spot(m, u, g)' <=> Spot(m, u, g)

LEMMA StayKeeps ==
    ASSUME \A g \in Fd : Unique(g), Stay, UNCHANGED <<sock, conns>>,
           \A g \in Fd, u \in Worker : Spot("closing", u, g) => (pc'[u] = "close" <=> pc[u] = "close")
    PROVE  \A g \in Fd : Unique(g)'
<1> TAKE g \in Fd
<1>1. \A u \in Worker : Connected(u, g)' <=> Connected(u, g)
  BY DEF Connected, Kind, Stay
<1> QED
  BY <1>1 DEF Unique, Stay

\* A worker's requests and completions are for what the messages lack, if those of fd are.
LEMMA LensKeeps ==
    ASSUME NEW v \in Worker, Lens(v), NEW fd,
           \A g \in Fd \ {fd} : conns'[g] = conns[g],
           \A r \in Request, g \in Fd \ {fd} : IsAbout(r, g) /\ Out(r, v)' > 0 => Out(r, v) > 0,
           \A i \in 1 .. Len(cq'[v]) : \A g \in Fd \ {fd} : IsAbout(cq'[v][i], g) =>
                \E j \in 1 .. Len(cq[v]) : cq'[v][i] = cq[v][j],
           fd \in Fd => \A r \in Request : IsAbout(r, fd) /\ Out(r, v)' > 0 => r.len = msg_size - conns'[fd],
           fd \in Fd => \A i \in 1 .. Len(cq'[v]) :
                IsAbout(cq'[v][i], fd) => cq'[v][i].res <= msg_size - conns'[fd]
    PROVE  Lens(v)'
<1> SUFFICES ASSUME NEW g \in Fd
             PROVE  /\ \A r \in Request : IsAbout(r, g) /\ Out(r, v)' > 0 => r.len = msg_size - conns'[g]
                    /\ \A i \in 1 .. Len(cq'[v]) :
                         IsAbout(cq'[v][i], g) => cq'[v][i].res <= msg_size - conns'[g]
  BY DEF Lens
<1>1. CASE g = fd
  BY <1>1
<1>2. CASE g # fd
  BY <1>2 DEF Lens
<1> QED
  BY <1>1, <1>2

-----------------------------------------------------------------------------
(* The room in the queue *)

LEMMA FdsFinite ==
    ASSUME NEW S \in SUBSET Fd
    PROVE  IsFiniteSet(S) /\ Cardinality(S) \in Nat /\ Cardinality(S) <= NFd
<1>1. IsFiniteSet(Fd) /\ Cardinality(Fd) = NFd
  BY Sizes, FS_Interval DEF Fd
<1> QED
  BY <1>1, FS_Subset, FS_CardinalityType

\* Two requests more fit, if one of them asks about a descriptor nothing in the
\* queue asks about, or for an accept.
LEMMA FitsMore ==
    ASSUME NEW b, IsABag(b), Fits(b), NEW x, NEW y, NEW fd,
           \/ fd \in Fd /\ IsAbout(x, fd) /\ fd \notin SockFds(b)
           \/ AcceptReq \in {x, y}
    PROVE  Fits(b (+) SetToBag({x, y}))
<1> DEFINE c == b (+) SetToBag({x, y})
<1>1. /\ BagToSet(c) = BagToSet(b) \cup {x, y}
      /\ Copies(AcceptReq, b) \in Nat
      /\ Copies(AcceptReq, c) = Copies(AcceptReq, b) + IF AcceptReq \in {x, y} THEN 1 ELSE 0
  BY BagPlus, Singles, CopiesType
<1>2. /\ IsFiniteSet(Entries(c)) /\ Cardinality(Entries(c)) <= Cardinality(Entries(b)) + 2
      /\ Cardinality(Entries(b)) \in Nat /\ Cardinality(Entries(c)) \in Nat
  BY TwoMore DEF Fits
<1> SUFFICES Fits(c)
  OBVIOUS
<1> HIDE DEF c
<1>3. /\ SockFds(b) \in SUBSET Fd /\ SockFds(c) \in SUBSET Fd /\ SockFds(b) \in SUBSET SockFds(c)
      /\ IsFiniteSet(SockFds(b)) /\ Cardinality(SockFds(b)) \in Nat
      /\ IsFiniteSet(SockFds(c)) /\ Cardinality(SockFds(c)) \in Nat
  <2>1. SockFds(b) \in SUBSET Fd /\ SockFds(c) \in SUBSET Fd /\ SockFds(b) \in SUBSET SockFds(c)
    BY <1>1 DEF SockFds
  <2> QED
    BY <2>1, FdsFinite
<1>4. Cardinality(SockFds(b)) <= Cardinality(SockFds(c))
  BY <1>3, FS_Subset
<1> DEFINE e == Cardinality(Entries(b))
           f == Cardinality(Entries(c))
           s == Cardinality(SockFds(b))
           t == Cardinality(SockFds(c))
           a == Copies(AcceptReq, b)
<1>7. e <= 2 * s + 2 * a /\ f <= e + 2 /\ e \in Nat /\ f \in Nat /\ s \in Nat /\ t \in Nat /\ a \in Nat
  BY <1>1, <1>2, <1>3 DEF Fits
<1> HIDE DEF e, f, s, t, a
<1>5. CASE AcceptReq \in {x, y}
  <2>1. s <= t /\ Copies(AcceptReq, c) = a + 1
    BY <1>1, <1>4, <1>5 DEF s, t, a
  <2>2. f <= 2 * t + 2 * (a + 1)
    BY <1>7, <2>1
  <2> QED
    BY <1>2, <2>1, <2>2 DEF Fits, f, t
<1>6. CASE fd \in Fd /\ IsAbout(x, fd) /\ fd \notin SockFds(b)
  <2>1. SockFds(b) \cup {fd} \in SUBSET SockFds(c)
    BY <1>1, <1>6 DEF SockFds
  <2>2. /\ Cardinality(SockFds(b) \cup {fd}) = Cardinality(SockFds(b)) + 1
        /\ Cardinality(SockFds(b) \cup {fd}) <= Cardinality(SockFds(c))
    BY <1>3, <1>6, <2>1, FS_AddElement, FS_Subset
  <2>3. s + 1 <= t /\ Copies(AcceptReq, c) \in Nat /\ Copies(AcceptReq, c) >= a
    BY <1>1, <2>2 DEF s, t, a
  <2>4. f <= 2 * t + 2 * Copies(AcceptReq, c)
    BY <1>7, <2>3
  <2> QED
    BY <1>2, <2>4 DEF Fits, f, t
<1> QED
  BY <1>5, <1>6

\* If two requests more find no entry, the queue has requests for many connections.
LEMMA FindsNone ==
    ASSUME NEW b, IsABag(b), Fits(b), Copies(AcceptReq, b) <= 1, NEW x, NEW y,
           ~(Cardinality(Entries(b (+) SetToBag({x, y}))) <= QUEUE_DEPTH)
    PROVE  2 * Cardinality(SockFds(b)) + 4 > QUEUE_DEPTH
<1> DEFINE e == Cardinality(Entries(b))
           f == Cardinality(Entries(b (+) SetToBag({x, y})))
           s == Cardinality(SockFds(b))
           a == Copies(AcceptReq, b)
<1>1. e \in Nat /\ f \in Nat /\ f <= e + 2
  BY TwoMore DEF Fits
<1>2. a \in Nat /\ s \in Nat /\ a <= 1
  BY CopiesType, FdsFinite DEF SockFds
<1>3. e <= 2 * s + 2 * a
  BY DEF Fits
<1>4. ~(f <= QUEUE_DEPTH)
  OBVIOUS
<1> HIDE DEF e, f, s, a
<1>5. 2 * s + 4 > QUEUE_DEPTH
  BY <1>1, <1>2, <1>3, <1>4, Sizes
<1> QED
  BY <1>5 DEF s

\* A process that runs on overran no queue.
LEMMA AliveFits == /\ Alive => SqeFits
                   /\ Alive' => SqeFits'
BY DEF Alive, SqeFits

-----------------------------------------------------------------------------
(* A completion is handled *)

LEMMA ShiftIs ==
    ASSUME NEW fd, NEW k, NEW w, NEW l, NEW v,
           \A m \in Kind, u \in Worker, g \in Fd :
             LET before == Spot(m, u, g) /\ ~(m = k /\ u = w /\ g = fd)
             IN  /\ m = "request"  => (Spot(m, u, g)' <=> before \/ (m = l /\ u = v /\ g = fd))
                 /\ m = "ended"    => (Spot(m, u, g)' <=> before \/ (m = l /\ u = v /\ g = fd))
                 /\ m = "accepted" => (Spot(m, u, g)' <=> before \/ (m = l /\ u = v /\ g = fd))
                 /\ m = "listed"   => (Spot(m, u, g)' <=> before \/ (m = l /\ u = v /\ g = fd))
                 /\ m = "closing"  => (Spot(m, u, g)' <=> before \/ (m = l /\ u = v /\ g = fd))
    PROVE  Shift(fd, k, w, l, v)
BY DEF Shift, Kind

LEMMA Pops ==
    ASSUME UringInv, Alive, NEW w \in Worker, NEW t, Handles(w, t)
    PROVE  /\ \A u \in Worker, g \in Fd :
                /\ Spot("ended", u, g)' <=> Spot("ended", u, g) /\ ~(u = w /\ IsAbout(Head(cq[w]), g))
                /\ Spot("accepted", u, g)' <=> Spot("accepted", u, g) /\ ~(u = w /\ Arrived(Head(cq[w]), g))
           /\ \A u \in Worker :
                /\ Once(cq'[u]) /\ OneAccept(cq'[u]) /\ (AcceptIn(cq'[u]) => AcceptIn(cq[u]))
                /\ \A i \in 1 .. Len(cq'[u]) : \E j \in 1 .. Len(cq[u]) : cq'[u][i] = cq[u][j]
           /\ t = "ACCEPT" => AcceptIn(cq[w]) /\ ~AcceptIn(cq'[w])
           /\ closing[w] = NULL
<1>1. /\ cq[w] \in Seq(Completion) /\ cq[w] # <<>> /\ Head(cq[w]).type = t /\ Head(cq[w]) = cq[w][1]
      /\ 1 \in 1 .. Len(cq[w]) /\ cq'[w] = Tail(cq[w]) /\ pc[w] \in {"wait", "handle"}
      /\ \A v \in Worker \ {w} : cq'[v] = cq[v]
  BY HandlesIs DEF UringInv
<1>2. \A u \in Worker : Once(cq[u]) /\ OneAccept(cq[u])
  BY DEF UringInv, Own, Single, Accepting
<1>3. /\ Once(cq'[w]) /\ OneAccept(cq'[w])
      /\ \A g \in Fd : /\ EndedIn(cq'[w], g) <=> EndedIn(cq[w], g) /\ ~IsAbout(Head(cq[w]), g)
                       /\ ArrivedIn(cq'[w], g) <=> ArrivedIn(cq[w], g) /\ ~Arrived(Head(cq[w]), g)
      /\ AcceptIn(cq'[w]) <=> AcceptIn(cq[w]) /\ t # "ACCEPT"
  BY <1>1, <1>2, QueueTail
<1>4. \A i \in 1 .. Len(cq'[w]) : \E j \in 1 .. Len(cq[w]) : cq'[w][i] = cq[w][j]
  BY <1>1, TailOf
<1>5. closing[w] = NULL
  BY <1>1 DEF UringInv, Own, Single
<1>6. t = "ACCEPT" => AcceptIn(cq[w])
  BY <1>1 DEF AcceptIn
<1>7. ASSUME NEW u \in Worker, NEW g \in Fd
      PROVE  /\ Spot("ended", u, g)' <=> Spot("ended", u, g) /\ ~(u = w /\ IsAbout(Head(cq[w]), g))
             /\ Spot("accepted", u, g)' <=> Spot("accepted", u, g) /\ ~(u = w /\ Arrived(Head(cq[w]), g))
  BY <1>1, <1>3 DEF Spot
<1>8. ASSUME NEW u \in Worker
      PROVE  /\ Once(cq'[u]) /\ OneAccept(cq'[u]) /\ (AcceptIn(cq'[u]) => AcceptIn(cq[u]))
             /\ \A i \in 1 .. Len(cq'[u]) : \E j \in 1 .. Len(cq[u]) : cq'[u][i] = cq[u][j]
  <2>1. CASE u = w
    BY <1>3, <1>4, <2>1
  <2>2. CASE u # w
    BY <1>1, <1>2, <2>2
  <2> QED
    BY <2>1, <2>2
<1> QED
  BY <1>3, <1>5, <1>6, <1>7, <1>8

\* What an action of w leaves to another worker.
LEMMA OthersKeep ==
    ASSUME Own, NEW u \in Worker, sq'[u] = sq[u], flight'[u] = flight[u], cq'[u] = cq[u],
           closing'[u] = closing[u], pc'[u] = pc[u], Distinct(incoming'[u])
    PROVE  Single(u)' /\ Accepting(u)' /\ Fits(sq'[u]) /\ \A r : Out(r, u)' = Out(r, u)
<1>1. \A r : Out(r, u)' = Out(r, u)
  BY DEF Out
<1>2. Single(u) /\ Accepting(u) /\ Fits(sq[u])
  BY DEF Own
<1>3. Single(u)'
  BY <1>1, <1>2 DEF Single
<1>4. Accepting(u)'
  BY <1>1, <1>2 DEF Accepting
<1> QED
  BY <1>1, <1>2, <1>3, <1>4

\* The queue of w before and after x and y are queued.
QueuesTwo(w, fd, x, y, p) ==
    /\ x \in Request /\ y \in Request
    /\ p \in {"handle", "drain"} /\ Queues(w, SetToBag({x, y}), p)
    /\ \/ fd \in Fd /\ IsAbout(x, fd) /\ ~Spot("request", w, fd)
       \/ AcceptReq \in {x, y}
    /\ AcceptReq \in {x, y} => AcceptIn(cq[w])

LEMMA AsksFit ==
    ASSUME UringInv, Alive, NEW w \in Worker, NEW fd, NEW x, NEW y, NEW p, QueuesTwo(w, fd, x, y, p)
    PROVE  /\ Fits(sq[w] (+) SetToBag({x, y}))
           /\ \A u \in Worker \ {w} : pc'[u] = pc[u]
           /\ SqeFits'
           /\ Alive' => /\ pc' = [pc EXCEPT ![w] = p]
                        /\ sq'[w] = sq[w] (+) SetToBag({x, y})
                        /\ \A u \in Worker \ {w} : sq'[u] = sq[u]
                        /\ \A r : Copies(r, sq'[w]) = Copies(r, sq[w]) + IF r \in {x, y} THEN 1 ELSE 0
<1> DEFINE b == sq[w] (+) SetToBag({x, y})
<1>0. /\ x \in Request /\ y \in Request
      /\ p \in {"handle", "drain"} /\ Queues(w, SetToBag({x, y}), p)
      /\ \/ fd \in Fd /\ IsAbout(x, fd) /\ ~Spot("request", w, fd)
         \/ AcceptReq \in {x, y}
      /\ AcceptReq \in {x, y} => AcceptIn(cq[w])
  BY DEF QueuesTwo
<1>1. TypeOK /\ Fits(sq[w]) /\ Accepting(w) /\ IsABag(sq[w])
  BY OutIs DEF UringInv, Own
<1>2. fd \in Fd /\ IsAbout(x, fd) /\ ~Spot("request", w, fd) => fd \notin SockFds(sq[w])
  <2>1. ASSUME fd \in SockFds(sq[w]) PROVE Spot("request", w, fd)
    <3>1. PICK r \in BagToSet(sq[w]) : IsAbout(r, fd)
      BY <2>1 DEF SockFds
    <3>2. /\ r \in Request /\ Copies(r, sq[w]) > 0 /\ Copies(r, sq[w]) \in Nat
          /\ Copies(r, flight[w]) \in Nat
      BY <1>1, <3>1, OutIs
    <3>3. Out(r, w) > 0
      BY <3>2 DEF Out
    <3> QED
      BY <3>1, <3>2, <3>3 DEF Spot
  <2> QED
    BY <2>1
<1>3. Fits(b)
  BY <1>0, <1>1, <1>2, FitsMore
<1>5. {x, y} \in SUBSET Request /\ p # "segv"
  BY <1>0
<1>6. /\ \/ pc' = [pc EXCEPT ![w] = "segv"] /\ ~(Cardinality(Entries(b)) <= QUEUE_DEPTH)
         \/ pc' = [pc EXCEPT ![w] = p]
      /\ pc'[w] # "segv" =>
           /\ pc' = [pc EXCEPT ![w] = p]
           /\ sq'[w] = b
           /\ \A u \in Worker \ {w} : sq'[u] = sq[u]
           /\ \A r : Copies(r, sq'[w]) = Copies(r, sq[w]) + IF r \in {x, y} THEN 1 ELSE 0
  BY <1>0, <1>1, <1>5, QueuesIs
<1> HIDE DEF b
<1>7. pc \in [Worker -> {"wait", "handle", "drain", "close", "closed", "segv"}]
  BY <1>1 DEF TypeOK
<1>8. \A u \in Worker \ {w} : pc'[u] = pc[u]
  BY <1>6, <1>7
<1>9. SqeFits'
  <2>1. \A u \in Worker \ {w} : pc'[u] # "segv"
    BY <1>8 DEF Alive
  <2>2. ASSUME pc'[w] = "segv" PROVE 2 * Cardinality(SockFds(sq[w])) + 4 > QUEUE_DEPTH /\ sq' = sq
    <3>1. sq' = sq /\ ~(Cardinality(Entries(b)) <= QUEUE_DEPTH)
      BY <1>0, <1>5, <1>6, <1>7, <2>2 DEF b, Queues, Goes
    <3>2. Copies(AcceptReq, sq[w]) <= 1
      <4>1. Copies(AcceptReq, sq[w]) \in Nat /\ Copies(AcceptReq, flight[w]) \in Nat
        BY <1>1, OutIs
      <4> QED
        BY <1>1, <4>1 DEF Accepting, Out
    <3> QED
      BY <1>1, <3>1, <3>2, FindsNone DEF b
  <2> QED
    BY <2>1, <2>2 DEF SqeFits
<1>10. Alive' => pc'[w] # "segv"
  BY DEF Alive
<1> QED
  BY <1>3, <1>6, <1>8, <1>9, <1>10 DEF b

\* A descriptor that arrived, ended or was listed is asked about: x is the request
\* for it, y the other request made with it, or x again.
AsksFor(w, k, fd, x, y, n, p) ==
    /\ k \in {"accepted", "ended", "listed"} /\ fd \in Fd /\ Spot(k, w, fd) /\ closing[w] = NULL
    /\ x \in Request /\ y \in Request /\ IsAbout(x, fd) /\ y \in {x, AcceptReq, EventReq}
    /\ n \in 0 .. msg_size - 1 /\ x.len = msg_size - n /\ conns' = [conns EXCEPT ![fd] = n]
    /\ p \in {"handle", "drain"} /\ Queues(w, SetToBag({x, y}), p)
    /\ UNCHANGED <<flight, sock, closing>>
    /\ \A u \in Worker, g \in Fd :
         /\ Spot("ended", u, g)' <=> Spot("ended", u, g) /\ ~(k = "ended" /\ u = w /\ g = fd)
         /\ Spot("accepted", u, g)' <=> Spot("accepted", u, g) /\ ~(k = "accepted" /\ u = w /\ g = fd)
         /\ Spot("listed", u, g)' <=> Spot("listed", u, g) /\ ~(k = "listed" /\ u = w /\ g = fd)
    /\ \A u \in Worker :
         /\ Distinct(incoming'[u])
         /\ Once(cq'[u]) /\ OneAccept(cq'[u]) /\ (AcceptIn(cq'[u]) => AcceptIn(cq[u]))
         /\ \A i \in 1 .. Len(cq'[u]) : \E j \in 1 .. Len(cq[u]) : cq'[u][i] = cq[u][j]
    /\ \A u \in Worker \ {w} : cq'[u] = cq[u]
    /\ y = AcceptReq => AcceptIn(cq[w]) /\ ~AcceptIn(cq'[w])

LEMMA AsksAbout ==
    ASSUME UringInv, Alive, NEW w \in Worker, NEW k, NEW fd, NEW x, NEW y, NEW n, NEW p,
           AsksFor(w, k, fd, x, y, n, p)
    PROVE  (Alive' => Own') /\ SqeFits'
<1> USE DEF AsksFor
<1>1. /\ TypeOK /\ Own /\ k \in Kind
      /\ \A g \in Fd : Unique(g)
      /\ ~Spot("request", w, fd) /\ ~Spot("ended", w, fd)' /\ sock[fd] # NULL
  <2>1. TypeOK /\ Own /\ k \in Kind /\ \A g \in Fd : Unique(g)
    BY DEF UringInv, Own, Kind
  <2>2. ~Spot("request", w, fd) /\ sock[fd] # NULL
    BY <2>1 DEF Unique, Kind
  <2>3. ~Spot("ended", w, fd)'
    <3>1. CASE k = "ended"
      BY <3>1
    <3>2. CASE k # "ended"
      <4>1. ~Spot("ended", w, fd)
        BY <2>1, <3>2 DEF Unique, Kind
      <4> QED
        BY <4>1
    <3> QED
      BY <3>1, <3>2
  <2> QED
    BY <2>1, <2>2, <2>3
<1>2. /\ \A g : ~IsAbout(AcceptReq, g) /\ ~IsAbout(EventReq, g)
      /\ \A g : IsAbout(x, g) <=> g = fd
  BY Requests DEF IsAbout
<1>3. x # AcceptReq /\ (AcceptReq \in {x, y} => AcceptIn(cq[w]))
  BY <1>2
<1>4. /\ Fits(sq[w] (+) SetToBag({x, y}))
      /\ \A u \in Worker \ {w} : pc'[u] = pc[u]
      /\ SqeFits'
      /\ Alive' => /\ pc' = [pc EXCEPT ![w] = p]
                   /\ sq'[w] = sq[w] (+) SetToBag({x, y})
                   /\ \A u \in Worker \ {w} : sq'[u] = sq[u]
                   /\ \A r : Copies(r, sq'[w]) = Copies(r, sq[w]) + IF r \in {x, y} THEN 1 ELSE 0
  <2>1. QueuesTwo(w, fd, x, y, p)
    BY <1>1, <1>3 DEF QueuesTwo
  <2>2. UringInv /\ Alive
    OBVIOUS
  <2> QED
    BY ONLY w \in Worker, <2>1, <2>2, AsksFit
<1> SUFFICES ASSUME Alive' PROVE Own'
  BY <1>4
<1>5. /\ pc'[w] = p /\ pc'[w] # "close" /\ Fits(sq'[w])
      /\ \A u \in Worker \ {w} : sq'[u] = sq[u]
      /\ \A r : Copies(r, sq'[w]) = Copies(r, sq[w]) + IF r \in {x, y} THEN 1 ELSE 0
  BY <1>1, <1>4 DEF TypeOK
<1>6. \A u \in Worker \ {w} : Single(u)' /\ Accepting(u)' /\ Fits(sq'[u]) /\ \A r : Out(r, u)' = Out(r, u)
  BY <1>1, <1>4, <1>5, OthersKeep
<1>7. Single(w) /\ Lens(w) /\ Accepting(w)
  BY <1>1 DEF Own
<1>8. /\ \A g \in Fd : Spot("request", w, g)' <=> Spot("request", w, g) \/ g = fd
      /\ \A r, s \in Request, g \in Fd :
           IsAbout(r, g) /\ IsAbout(s, g) /\ Out(r, w)' > 0 /\ Out(s, w)' > 0
           => r = s /\ Out(r, w)' = 1
      /\ \A r \in Request : IsAbout(r, fd) /\ Out(r, w)' > 0 => r = x
      /\ \A r \in Request, g \in Fd \ {fd} : IsAbout(r, g) => Out(r, w)' = Out(r, w)
  <2> DEFINE D == {x, y}
  <2>1. D \in SUBSET Request /\ x \in D /\ \A r \in D : \A g : IsAbout(r, g) <=> r = x /\ g = fd
    BY <1>2
  <2>2. \A r : Copies(r, sq'[w]) = Copies(r, sq[w]) + IF r \in D THEN 1 ELSE 0
    BY <1>5
  <2> HIDE DEF D
  <2> QED
    BY <1>1, <1>7, <2>1, <2>2, AsksMore
<1>9. Shift(fd, k, w, "request", w)
  <2>1. \A u \in Worker, g \in Fd : Spot("request", u, g)' <=> Spot("request", u, g) \/ (u = w /\ g = fd)
    BY <1>6, <1>8 DEF Spot
  <2>2. \A u \in Worker, g \in Fd : Spot("closing", u, g)' <=> Spot("closing", u, g)
    BY DEF Spot
  <2> QED
    BY <1>1, <2>1, <2>2, ShiftIs
<1>10. \A g \in Fd : Unique(g)'
  <2>1. conns'[fd] # NULL /\ \A g \in Fd \ {fd} : sock'[g] = sock[g] /\ conns'[g] = conns[g]
    BY <1>1, Sizes DEF TypeOK
  <2>2. \A g \in Fd \ {fd}, u \in Worker : Spot("closing", u, g) => (pc'[u] = "close" <=> pc[u] = "close")
    <3>1. \A g \in Fd : ~Spot("closing", w, g)
      BY Sizes DEF Spot
    <3> QED
      BY <1>4, <3>1
  <2>3. "request" \in Kind
    BY DEF Kind
  <2>4. sock'[fd] # NULL
    BY <1>1
  <2>5. k # "none"
    OBVIOUS
  <2> QED
    BY <1>1, <1>9, <2>1, <2>2, <2>3, <2>4, <2>5, ShiftKeeps
<1>11. Single(w)'
  <2>1. closing'[w] # NULL <=> pc'[w] \in {"close", "closed"}
    BY <1>5
  <2> QED
    BY <1>8, <2>1 DEF Single
<1>12. Accepting(w)'
  <2>1. Out(AcceptReq, w)' = Out(AcceptReq, w) + IF AcceptReq = y THEN 1 ELSE 0
    <3>1. Copies(AcceptReq, sq[w]) \in Nat /\ Copies(AcceptReq, flight[w]) \in Nat
      BY <1>1, OutIs
    <3> QED
      BY <1>3, <1>5, <3>1 DEF Out
  <2>2. Out(AcceptReq, w) \in Nat
    BY <1>1, OutIs
  <2> QED
    BY <1>7, <2>1, <2>2 DEF Accepting
<1>13. ASSUME NEW u \in Worker PROVE Lens(u)'
  <2>1. \A g \in Fd \ {fd} : conns'[g] = conns[g] /\ conns'[fd] = n
    BY <1>1 DEF TypeOK
  <2>2. \A r \in Request, g \in Fd \ {fd} : IsAbout(r, g) /\ Out(r, u)' > 0 => Out(r, u) > 0
    BY <1>6, <1>8
  <2>3. \A r \in Request : IsAbout(r, fd) /\ Out(r, u)' > 0 => r.len = msg_size - conns'[fd]
    <3>1. conns'[fd] = n
      BY <1>1 DEF TypeOK
    <3>2. CASE u = w
      BY <1>8, <3>1, <3>2
    <3>3. CASE u # w
      <4>1. ~Spot("request", u, fd)
        BY <1>1, <3>3 DEF Unique, Kind
      <4> QED
        BY <1>6, <3>3, <4>1 DEF Spot
    <3> QED
      BY <3>2, <3>3
  <2>4. \A i \in 1 .. Len(cq'[u]) : ~IsAbout(cq'[u][i], fd)
    <3>1. ~Spot("ended", u, fd)'
      BY <1>1, <1>9 DEF Shift, Unique, Kind
    <3> QED
      BY <3>1 DEF Spot, EndedIn
  <2>5. Lens(u)
    BY <1>1 DEF Own
  <2>6. \A i \in 1 .. Len(cq'[u]) : \A g \in Fd \ {fd} : IsAbout(cq'[u][i], g) =>
          \E j \in 1 .. Len(cq[u]) : cq'[u][i] = cq[u][j]
    BY <1>1
  <2>7. \A i \in 1 .. Len(cq'[u]) :
          IsAbout(cq'[u][i], fd) => cq'[u][i].res <= msg_size - conns'[fd]
    BY <2>4
  <2>8. \A g \in Fd \ {fd} : conns'[g] = conns[g]
    BY <2>1
  <2> QED
    BY <2>8, <2>2, <2>3, <2>5, <2>6, <2>7, LensKeeps, Zenon
<1> QED
  BY <1>5, <1>6, <1>10, <1>11, <1>12, <1>13 DEF Own

-----------------------------------------------------------------------------
(* The actions of a worker *)

\* The invariant after a step.
Keeps == TypeOK' /\ (Alive' => Own') /\ SqeFits'

LEMMA PcType ==
    ASSUME TypeOK, NEW w \in Worker, NEW D \in SUBSET Request, NEW p \in {"handle", "drain"},
           Queues(w, SetToBag(D), p), DOMAIN flight' = Worker,
           \A u \in Worker : IsABag(flight'[u]) /\ BagToSet(flight'[u]) \subseteq Request
    PROVE  /\ pc' \in [Worker -> {"wait", "handle", "drain", "close", "closed", "segv"}]
           /\ DOMAIN sq' = Worker
           /\ \A u \in Worker : \A b \in {sq'[u], flight'[u]} : IsABag(b) /\ BagToSet(b) \subseteq Request
<1>1. p # "segv"
  OBVIOUS
<1>2. pc' = [pc EXCEPT ![w] = "segv"] \/ pc' = [pc EXCEPT ![w] = p]
  BY <1>1, QueuesIs
<1>3. /\ DOMAIN sq' = Worker
      /\ \A u \in Worker : IsABag(sq'[u]) /\ BagToSet(sq'[u]) \subseteq Request
  BY <1>1, QueuesIs
<1>4. pc' \in [Worker -> {"wait", "handle", "drain", "close", "closed", "segv"}]
  BY <1>2 DEF TypeOK
<1> QED
  BY <1>3, <1>4

\* The connection of another worker is put on that worker's list.
LEMMA GivesAway ==
    ASSUME UringInv, Alive, NEW w \in Worker, NEW owner \in Worker, owner # w,
           Handles(w, "ACCEPT"), UNCHANGED <<conns, closing>>,
           incoming' = [incoming EXCEPT ![owner] = <<Head(cq[w]).res>> \o @],
           Queues(w, SetToBag({SignalReq(owner), AcceptReq}), "handle")
    PROVE  Keeps
<1> DEFINE fd == Head(cq[w]).res
           D  == {SignalReq(owner), AcceptReq}
<1>1. TypeOK /\ Own /\ \A g \in Fd : Unique(g)
  BY DEF UringInv, Own
<1>2. /\ UNCHANGED <<flight, kernel, client>> /\ cq[w] # <<>> /\ 1 \in 1 .. Len(cq[w])
      /\ Head(cq[w]) \in Completion /\ Head(cq[w]).type = "ACCEPT" /\ Head(cq[w]) = cq[w][1]
      /\ cq' \in [Worker -> Seq(Completion)] /\ \A v \in Worker \ {w} : cq'[v] = cq[v]
  BY <1>1, HandlesIs
<1>3. fd \in Fd /\ \A g : Arrived(Head(cq[w]), g) <=> g = fd
  BY <1>2 DEF Completion, Arrived
<1>4. \A g : ~IsAbout(Head(cq[w]), g)
  BY <1>2 DEF IsAbout
<1>5. Spot("accepted", w, fd)
  BY <1>2, <1>3 DEF Spot, ArrivedIn
<1>6. /\ \A u \in Worker, g \in Fd :
           /\ Spot("ended", u, g)' <=> Spot("ended", u, g)
           /\ Spot("accepted", u, g)' <=> Spot("accepted", u, g) /\ ~(u = w /\ g = fd)
      /\ \A u \in Worker :
           /\ Once(cq'[u]) /\ OneAccept(cq'[u]) /\ (AcceptIn(cq'[u]) => AcceptIn(cq[u]))
           /\ \A i \in 1 .. Len(cq'[u]) : \E j \in 1 .. Len(cq[u]) : cq'[u][i] = cq[u][j]
      /\ AcceptIn(cq[w]) /\ ~AcceptIn(cq'[w]) /\ closing[w] = NULL
  BY <1>3, <1>4, Pops
<1> HIDE DEF fd
<1>7. incoming \in [Worker -> Seq(Fd)] /\ incoming' = [incoming EXCEPT ![owner] = <<fd>> \o @]
  BY <1>1 DEF TypeOK, fd
<1>8. /\ incoming' \in [Worker -> Seq(Fd)]
      /\ incoming'[owner] = <<fd>> \o incoming[owner]
      /\ \A u \in Worker \ {owner} : incoming'[u] = incoming[u]
  BY <1>3, <1>7, PushOf
<1>9. \A u \in Worker, g \in Fd : Spot("listed", u, g)' <=> Spot("listed", u, g) \/ (u = owner /\ g = fd)
  BY <1>3, <1>7, <1>8, ListPush DEF Spot
<1>10. \A u \in Worker : Distinct(incoming'[u])
  <2>1. \A u \in Worker : Distinct(incoming[u])
    BY <1>1 DEF Own, Single
  <2>2. ~Spot("listed", owner, fd)
    BY <1>1, <1>3, <1>5 DEF Unique, Kind
  <2>3. Distinct(incoming'[owner])
    BY <1>3, <1>7, <1>8, <2>1, <2>2, ListPush DEF Spot
  <2> QED
    BY <1>8, <2>1, <2>3
<1>11. TypeOK'
  <2>1. D \in SUBSET Request
    BY Requests
  <2>2. /\ DOMAIN flight' = Worker
        /\ \A u \in Worker : IsABag(flight'[u]) /\ BagToSet(flight'[u]) \subseteq Request
    BY <1>1, <1>2 DEF TypeOK
  <2>3. /\ pc' \in [Worker -> {"wait", "handle", "drain", "close", "closed", "segv"}]
        /\ DOMAIN sq' = Worker
        /\ \A u \in Worker : \A b \in {sq'[u], flight'[u]} : IsABag(b) /\ BagToSet(b) \subseteq Request
    BY <1>1, <2>1, <2>2, PcType
  <2> QED
    BY <1>1, <1>2, <1>8, <2>2, <2>3 DEF TypeOK, kernel, client
<1>12. /\ SignalReq(owner) \in Request /\ AcceptReq \in Request
       /\ \A r \in D : \A g : ~IsAbout(r, g)
  <2>1. SignalReq(owner) \in Request /\ AcceptReq \in Request
    BY Requests
  <2>2. \A g : ~IsAbout(SignalReq(owner), g) /\ ~IsAbout(AcceptReq, g)
    BY Requests
  <2> QED
    BY <2>1, <2>2
<1>13. /\ Fits(sq[w] (+) SetToBag(D))
       /\ \A u \in Worker \ {w} : pc'[u] = pc[u]
       /\ SqeFits'
       /\ Alive' => /\ pc' = [pc EXCEPT ![w] = "handle"]
                    /\ sq'[w] = sq[w] (+) SetToBag(D)
                    /\ \A u \in Worker \ {w} : sq'[u] = sq[u]
                    /\ \A r : Copies(r, sq'[w]) = Copies(r, sq[w]) + IF r \in D THEN 1 ELSE 0
  <2>1. QueuesTwo(w, fd, SignalReq(owner), AcceptReq, "handle")
    BY <1>6, <1>12 DEF QueuesTwo
  <2> QED
    BY <2>1, AsksFit
<1>14. ASSUME Alive' PROVE Own'
  <2>1. /\ pc'[w] = "handle" /\ Fits(sq'[w])
        /\ \A u \in Worker \ {w} : sq'[u] = sq[u]
        /\ \A r : Copies(r, sq'[w]) = Copies(r, sq[w]) + IF r \in D THEN 1 ELSE 0
    BY <1>1, <1>13, <1>14 DEF TypeOK
  <2>2. \A u \in Worker \ {w} : Single(u)' /\ Accepting(u)' /\ Fits(sq'[u]) /\ \A r : Out(r, u)' = Out(r, u)
    BY <1>1, <1>2, <1>10, <1>13, <2>1, OthersKeep
  <2>3. \A r : Out(r, w)' = Out(r, w) + IF r \in D THEN 1 ELSE 0
    <3>1. \A r : Copies(r, sq[w]) \in Nat /\ Copies(r, flight[w]) \in Nat
      BY <1>1, OutIs
    <3> QED
      BY <1>2, <2>1, <3>1 DEF Out
  <2>4. SameAsked(w) /\ \A u \in Worker : SameAsked(u)
    <3>1. \A r : Out(r, w) \in Nat
      BY <1>1, OutIs
    <3>2. SameAsked(w)
      BY <1>12, <2>3, <3>1 DEF SameAsked
    <3> QED
      BY <2>2, <3>2 DEF SameAsked
  <2>5. Shift(fd, "accepted", w, "listed", owner)
    <3>1. \A u \in Worker, g \in Fd : Spot("request", u, g)' <=> Spot("request", u, g)
      BY <2>4, AsksSame
    <3>2. \A u \in Worker, g \in Fd : Spot("closing", u, g)' <=> Spot("closing", u, g)
      BY DEF Spot
    <3> QED
      BY <1>6, <1>9, <3>1, <3>2, ShiftIs
  <2>6. \A g \in Fd : Unique(g)'
    <3>1. sock[fd] # NULL /\ conns[fd] = NULL
      BY <1>1, <1>3, <1>5 DEF Unique, Kind, Connected
    <3>2. \A g \in Fd \ {fd} : sock'[g] = sock[g] /\ conns'[g] = conns[g]
      BY <1>2 DEF kernel
    <3>3. sock'[fd] # NULL /\ conns'[fd] = NULL
      BY <1>2, <3>1 DEF kernel
    <3>4. \A g \in Fd \ {fd}, u \in Worker : Spot("closing", u, g) => (pc'[u] = "close" <=> pc[u] = "close")
      <4>1. \A g \in Fd : ~Spot("closing", w, g)
        BY <1>6, Sizes DEF Spot
      <4> QED
        BY <1>13, <4>1
    <3>5. "accepted" \in Kind /\ "listed" \in Kind
      BY DEF Kind
    <3> QED
      BY <1>1, <1>3, <1>5, <2>5, <3>2, <3>3, <3>4, <3>5, ShiftKeeps
  <2>7. Single(w)'
    <3>1. closing'[w] = NULL
      BY <1>6
    <3> QED
      BY <1>1, <1>6, <1>10, <2>1, <2>4, <3>1, AsksSame DEF Single, Own
  <2>8. Accepting(w)'
    <3>1. Accepting(w) /\ Out(AcceptReq, w) \in Nat
      BY <1>1, OutIs DEF Own
    <3> QED
      BY <1>6, <2>3, <3>1 DEF Accepting
  <2>9. \A u \in Worker : Lens(u)'
    <3>1. TAKE u \in Worker
    <3>2. Lens(u) /\ \A r \in Request, g \in Fd : IsAbout(r, g) => Out(r, u)' = Out(r, u)
      BY <1>1, <2>4 DEF Own, SameAsked
    <3>3. NULL \notin Fd
      BY Sizes
    <3> QED
      BY <1>6, <3>2, <3>3, LensKeeps
  <2> QED
    BY <2>1, <2>2, <2>6, <2>7, <2>8, <2>9 DEF Own
<1> QED
  BY <1>11, <1>13, <1>14 DEF Keeps

LEMMA AskedType ==
    ASSUME TypeOK, NEW w \in Worker, NEW fd \in Fd, NEW n \in 0 .. msg_size - 1,
           conns' = [conns EXCEPT ![fd] = n], incoming' \in [Worker -> Seq(Fd)],
           UNCHANGED <<closing, flight, kernel, client>>, cq' \in [Worker -> Seq(Completion)],
           NEW D \in SUBSET Request, NEW p \in {"handle", "drain"}, Queues(w, SetToBag(D), p)
    PROVE  TypeOK'
<1>1. /\ DOMAIN flight' = Worker
      /\ \A u \in Worker : IsABag(flight'[u]) /\ BagToSet(flight'[u]) \subseteq Request
  BY DEF TypeOK
<1>2. /\ pc' \in [Worker -> {"wait", "handle", "drain", "close", "closed", "segv"}]
      /\ DOMAIN sq' = Worker
      /\ \A u \in Worker : \A b \in {sq'[u], flight'[u]} : IsABag(b) /\ BagToSet(b) \subseteq Request
  BY <1>1, PcType
<1>3. conns' \in [Fd -> (0 .. msg_size - 1) \cup {NULL}]
  BY DEF TypeOK
<1> QED
  BY <1>1, <1>2, <1>3 DEF TypeOK, kernel, client

\* A connection of its own is read from.
LEMMA KeepsOwn ==
    ASSUME UringInv, Alive, NEW w \in Worker,
           Handles(w, "ACCEPT"), UNCHANGED <<incoming, closing>>,
           conns' = [conns EXCEPT ![Head(cq[w]).res] = 0],
           Queues(w, SetToBag({Req("SOCK_READ", Head(cq[w]).res, msg_size), AcceptReq}), "handle")
    PROVE  Keeps
<1> DEFINE fd == Head(cq[w]).res
           x  == Req("SOCK_READ", fd, msg_size)
<1>1. TypeOK /\ Own
  BY DEF UringInv
<1>2. /\ UNCHANGED <<flight, kernel, client>> /\ cq[w] # <<>> /\ 1 \in 1 .. Len(cq[w])
      /\ Head(cq[w]) \in Completion /\ Head(cq[w]).type = "ACCEPT" /\ Head(cq[w]) = cq[w][1]
      /\ cq' \in [Worker -> Seq(Completion)] /\ \A v \in Worker \ {w} : cq'[v] = cq[v]
  BY <1>1, HandlesIs
<1>3. fd \in Fd /\ \A g : Arrived(Head(cq[w]), g) <=> g = fd
  BY <1>2 DEF Completion, Arrived
<1>4. \A g : ~IsAbout(Head(cq[w]), g)
  BY <1>2 DEF IsAbout
<1>5. Spot("accepted", w, fd)
  BY <1>2, <1>3 DEF Spot, ArrivedIn
<1>6. /\ \A u \in Worker, g \in Fd :
           /\ Spot("ended", u, g)' <=> Spot("ended", u, g)
           /\ Spot("accepted", u, g)' <=> Spot("accepted", u, g) /\ ~(u = w /\ g = fd)
           /\ Spot("listed", u, g)' <=> Spot("listed", u, g)
      /\ \A u \in Worker :
           /\ Once(cq'[u]) /\ OneAccept(cq'[u]) /\ (AcceptIn(cq'[u]) => AcceptIn(cq[u]))
           /\ \A i \in 1 .. Len(cq'[u]) : \E j \in 1 .. Len(cq[u]) : cq'[u][i] = cq[u][j]
      /\ AcceptIn(cq[w]) /\ ~AcceptIn(cq'[w]) /\ closing[w] = NULL
  <2>1. \A u \in Worker, g \in Fd : Spot("listed", u, g)' <=> Spot("listed", u, g)
    BY DEF Spot
  <2> QED
    BY <1>3, <1>4, <2>1, Pops
<1> HIDE DEF fd
<1>7. msg_size \in 1 .. msg_size /\ 0 \in 0 .. msg_size - 1 /\ msg_size = msg_size - 0
  BY Sizes
<1>8. /\ x \in Request /\ x.len = msg_size /\ IsAbout(x, fd) /\ AcceptReq \in Request
      /\ conns' = [conns EXCEPT ![fd] = 0] /\ Queues(w, SetToBag({x, AcceptReq}), "handle")
  BY <1>3, <1>7, Requests DEF fd
<1> HIDE DEF x
<1>9. TypeOK'
  <2>1. incoming' \in [Worker -> Seq(Fd)] /\ {x, AcceptReq} \in SUBSET Request
    BY <1>1, <1>8 DEF TypeOK
  <2> QED
    BY <1>1, <1>2, <1>3, <1>7, <1>8, <2>1, AskedType
<1>10. (Alive' => Own') /\ SqeFits'
  <2>1. /\ "accepted" \in {"accepted", "ended", "listed"} /\ "handle" \in {"handle", "drain"}
        /\ UNCHANGED <<flight, sock, closing>> /\ AcceptReq \in {x, AcceptReq, EventReq}
        /\ x.len = msg_size - 0 /\ UringInv /\ Alive
    BY <1>2, <1>7, <1>8 DEF kernel
  <2>2. \A u \in Worker, g \in Fd :
          /\ Spot("ended", u, g)' <=> Spot("ended", u, g) /\ ~("accepted" = "ended" /\ u = w /\ g = fd)
          /\ Spot("accepted", u, g)' <=> Spot("accepted", u, g) /\ ~("accepted" = "accepted" /\ u = w /\ g = fd)
          /\ Spot("listed", u, g)' <=> Spot("listed", u, g) /\ ~("accepted" = "listed" /\ u = w /\ g = fd)
    BY <1>6
  <2>3. \A u \in Worker :
          /\ Distinct(incoming'[u])
          /\ Once(cq'[u]) /\ OneAccept(cq'[u]) /\ (AcceptIn(cq'[u]) => AcceptIn(cq[u]))
          /\ \A i \in 1 .. Len(cq'[u]) : \E j \in 1 .. Len(cq[u]) : cq'[u][i] = cq[u][j]
    BY <1>1, <1>6 DEF Own, Single
  <2> QED
    <3>1. AsksFor(w, "accepted", fd, x, AcceptReq, 0, "handle")
      BY <1>2, <1>3, <1>5, <1>6, <1>7, <1>8, <2>1, <2>2, <2>3 DEF AsksFor
    <3> QED
      BY <2>1, <3>1, AsksAbout
<1> QED
  BY <1>9, <1>10 DEF Keeps

\* The first of its list is read from.
LEMMA Takes1 ==
    ASSUME UringInv, Alive, NEW w \in Worker, pc[w] = "drain", incoming[w] # <<>>,
           incoming' = [incoming EXCEPT ![w] = Tail(@)],
           conns' = [conns EXCEPT ![Head(incoming[w])] = 0],
           Queues(w, SetToBag({Req("SOCK_READ", Head(incoming[w]), msg_size), EventReq}), "drain"),
           UNCHANGED <<closing, flight, cq, kernel, client>>
    PROVE  Keeps
<1> DEFINE fd == Head(incoming[w])
           x  == Req("SOCK_READ", fd, msg_size)
<1>1. TypeOK /\ Own /\ incoming \in [Worker -> Seq(Fd)] /\ cq \in [Worker -> Seq(Completion)]
      /\ \A u \in Worker : Single(u) /\ Accepting(u)
  BY DEF UringInv, TypeOK, Own
<1>2. /\ incoming[w] \in Seq(Fd) /\ incoming' \in [Worker -> Seq(Fd)]
      /\ incoming'[w] = Tail(incoming[w]) /\ fd \in Fd
      /\ \A u \in Worker \ {w} : incoming'[u] = incoming[u]
  <2>1. incoming[w] \in Seq(Fd) /\ Tail(incoming[w]) \in Seq(Fd) /\ fd \in Fd
    BY <1>1, TailOf
  <2> QED
    BY <1>1, <2>1
<1>3. /\ \A u \in Worker : Distinct(incoming'[u])
      /\ OnList(incoming[w], fd)
      /\ \A g : OnList(incoming'[w], g) <=> OnList(incoming[w], g) /\ g # fd
  <2>1. \A u \in Worker : Distinct(incoming[u])
    BY <1>1 DEF Single
  <2>2. /\ Distinct(Tail(incoming[w])) /\ OnList(incoming[w], fd)
        /\ \A g : OnList(Tail(incoming[w]), g) <=> OnList(incoming[w], g) /\ fd # g
    BY <1>2, <2>1, ListTail
  <2>3. \A u \in Worker : Distinct(incoming'[u])
    BY <1>2, <2>1, <2>2
  <2> QED
    BY <1>2, <2>2, <2>3
<1> HIDE DEF fd
<1>4. /\ Spot("listed", w, fd)
      /\ \A u \in Worker, g \in Fd :
           /\ Spot("ended", u, g)' <=> Spot("ended", u, g)
           /\ Spot("accepted", u, g)' <=> Spot("accepted", u, g)
           /\ Spot("listed", u, g)' <=> Spot("listed", u, g) /\ ~(u = w /\ g = fd)
  BY <1>2, <1>3 DEF Spot
<1>5. closing[w] = NULL
  BY <1>1 DEF Single
<1>7. msg_size \in 1 .. msg_size /\ 0 \in 0 .. msg_size - 1 /\ msg_size = msg_size - 0
  BY Sizes
<1>8. /\ x \in Request /\ x.len = msg_size /\ IsAbout(x, fd) /\ EventReq \in Request
      /\ EventReq # AcceptReq
      /\ conns' = [conns EXCEPT ![fd] = 0] /\ Queues(w, SetToBag({x, EventReq}), "drain")
  BY <1>2, <1>7, Requests DEF fd
<1> HIDE DEF x
<1>9. TypeOK'
  <2>1. cq' \in [Worker -> Seq(Completion)] /\ {x, EventReq} \in SUBSET Request
    BY <1>1, <1>8 DEF TypeOK
  <2> QED
    BY <1>1, <1>2, <1>7, <1>8, <2>1, AskedType
<1>10. (Alive' => Own') /\ SqeFits'
  <2> DEFINE k == "listed"
             n == 0
             y == EventReq
             p == "drain"
  <2>1. /\ k \in {"accepted", "ended", "listed"} /\ p \in {"handle", "drain"}
        /\ UNCHANGED <<flight, sock, closing>> /\ y \in Request /\ y \in {x, AcceptReq, EventReq}
        /\ n \in 0 .. msg_size - 1 /\ x.len = msg_size - n /\ conns' = [conns EXCEPT ![fd] = n]
        /\ Queues(w, SetToBag({x, y}), p)
        /\ UringInv /\ Alive
        /\ y = AcceptReq => AcceptIn(cq[w]) /\ ~AcceptIn(cq'[w])
    BY <1>7, <1>8 DEF kernel
  <2>2. \A u \in Worker, g \in Fd :
          /\ Spot("ended", u, g)' <=> Spot("ended", u, g) /\ ~(k = "ended" /\ u = w /\ g = fd)
          /\ Spot("accepted", u, g)' <=> Spot("accepted", u, g) /\ ~(k = "accepted" /\ u = w /\ g = fd)
          /\ Spot("listed", u, g)' <=> Spot("listed", u, g) /\ ~(k = "listed" /\ u = w /\ g = fd)
    BY <1>4
  <2>3. /\ \A u \in Worker :
             /\ Distinct(incoming'[u])
             /\ Once(cq'[u]) /\ OneAccept(cq'[u]) /\ (AcceptIn(cq'[u]) => AcceptIn(cq[u]))
             /\ \A i \in 1 .. Len(cq'[u]) : \E j \in 1 .. Len(cq[u]) : cq'[u][i] = cq[u][j]
        /\ \A u \in Worker \ {w} : cq'[u] = cq[u]
    BY <1>1, <1>3 DEF Single, Accepting
  <2>4. fd \in Fd /\ Spot(k, w, fd) /\ x \in Request /\ IsAbout(x, fd)
    BY <1>2, <1>4, <1>8
  <2> HIDE DEF k, n, y, p
  <2> QED
    <3>1. AsksFor(w, k, fd, x, y, n, p)
      BY <1>5, <2>1, <2>2, <2>3, <2>4 DEF AsksFor
    <3> QED
      BY <2>1, <3>1, AsksAbout
<1> QED
  BY <1>9, <1>10 DEF Keeps

LEMMA PlacesIs ==
    ASSUME NEW w \in Worker, OnAccept(w)
    PROVE  /\ Handles(w, "ACCEPT") /\ UNCHANGED closing
           /\ \/ \E owner \in Worker \ {w} :
                   /\ incoming' = [incoming EXCEPT ![owner] = <<Head(cq[w]).res>> \o @]
                   /\ Queues(w, SetToBag({SignalReq(owner), AcceptReq}), "handle")
                   /\ UNCHANGED conns
              \/ /\ conns' = [conns EXCEPT ![Head(cq[w]).res] = 0]
                 /\ Queues(w, SetToBag({Req("SOCK_READ", Head(cq[w]).res, msg_size), AcceptReq}), "handle")
                 /\ UNCHANGED incoming
<1> DEFINE fd == Head(cq[w]).res
<1>1. PICK owner \in Worker :
        /\ Handles(w, "ACCEPT")
        /\ IF owner # w
           THEN /\ incoming' = [incoming EXCEPT ![owner] = <<fd>> \o @]
                /\ Queues(w, add_write_event(owner) (+) add_accept_request, "handle")
                /\ UNCHANGED conns
           ELSE /\ conns' = [conns EXCEPT ![fd] = 0]
                /\ Queues(w, add_read_request(fd, msg_size) (+) add_accept_request, "handle")
                /\ UNCHANGED incoming
        /\ UNCHANGED closing
  BY DEF OnAccept, Places
<1>2. /\ add_write_event(owner) (+) add_accept_request = SetToBag({SignalReq(owner), AcceptReq})
      /\ add_read_request(fd, msg_size) (+) add_accept_request
           = SetToBag({Req("SOCK_READ", fd, msg_size), AcceptReq})
  <2>1. SignalReq(owner) # AcceptReq /\ Req("SOCK_READ", fd, msg_size) # AcceptReq
    BY DEF SignalReq, AcceptReq, Req
  <2> QED
    BY <2>1, TwoSingles DEF add_write_event, add_accept_request, add_read_request, SignalReq, AcceptReq
<1> QED
  BY <1>1, <1>2

LEMMA Accepts1 ==
    ASSUME UringInv, Alive, NEW w \in Worker, OnAccept(w)
    PROVE  Keeps
<1>1. /\ Handles(w, "ACCEPT") /\ UNCHANGED closing
      /\ \/ \E owner \in Worker \ {w} :
              /\ incoming' = [incoming EXCEPT ![owner] = <<Head(cq[w]).res>> \o @]
              /\ Queues(w, SetToBag({SignalReq(owner), AcceptReq}), "handle")
              /\ UNCHANGED conns
         \/ /\ conns' = [conns EXCEPT ![Head(cq[w]).res] = 0]
            /\ Queues(w, SetToBag({Req("SOCK_READ", Head(cq[w]).res, msg_size), AcceptReq}), "handle")
            /\ UNCHANGED incoming
  BY PlacesIs
<1> QED
  BY <1>1, GivesAway, KeepsOwn

\* A step that leaves requests, completions and descriptors of connections where they are.
LEMMA Stays ==
    ASSUME UringInv, Alive, TypeOK', Alive', UNCHANGED <<conns, sock, closing, incoming>>,
           \A u \in Worker : pc'[u] = pc[u] \/ (pc[u] \notin {"close", "closed"} /\ pc'[u] \notin {"close", "closed"}),
           \A u \in Worker : /\ SameAsked(u) /\ Out(AcceptReq, u)' = Out(AcceptReq, u)
                             /\ Fits(sq'[u]) /\ Once(cq'[u]) /\ OneAccept(cq'[u])
                             /\ AcceptIn(cq'[u]) <=> AcceptIn(cq[u])
                             /\ \A g \in Fd : /\ EndedIn(cq'[u], g) <=> EndedIn(cq[u], g)
                                              /\ ArrivedIn(cq'[u], g) <=> ArrivedIn(cq[u], g)
                             /\ \A i \in 1 .. Len(cq'[u]) : \A g \in Fd : IsAbout(cq'[u][i], g) =>
                                  \E j \in 1 .. Len(cq[u]) : cq'[u][i] = cq[u][j]
    PROVE  Keeps
<1>1. Own /\ \A u \in Worker : Single(u) /\ Lens(u) /\ Accepting(u)
  BY DEF UringInv, Own
<1>2. Stay
  <2>1. \A u \in Worker, g \in Fd : Spot("request", u, g)' <=> Spot("request", u, g)
    BY AsksSame
  <2>2. \A u \in Worker, g \in Fd :
          /\ Spot("ended", u, g)' <=> Spot("ended", u, g)
          /\ Spot("accepted", u, g)' <=> Spot("accepted", u, g)
          /\ Spot("listed", u, g)' <=> Spot("listed", u, g)
          /\ Spot("closing", u, g)' <=> Spot("closing", u, g)
    BY DEF Spot
  <2> QED
    BY <2>1, <2>2 DEF Stay, Kind
<1>3. \A g \in Fd : Unique(g)'
  BY <1>1, <1>2, StayKeeps DEF Own
<1>4. ASSUME NEW u \in Worker PROVE Single(u)'
  <2>1. \A r, s \in Request, g \in Fd :
          IsAbout(r, g) /\ IsAbout(s, g) /\ Out(r, u)' > 0 /\ Out(s, u)' > 0 => r = s /\ Out(r, u)' = 1
    BY <1>1, AsksSame
  <2>2. Distinct(incoming'[u]) /\ (closing'[u] # NULL <=> pc'[u] \in {"close", "closed"})
    BY <1>1 DEF Single
  <2> QED
    BY <2>1, <2>2 DEF Single
<1>5. ASSUME NEW u \in Worker PROVE Lens(u)'
  <2>1. \A r \in Request, g \in Fd : IsAbout(r, g) /\ Out(r, u)' > 0 => Out(r, u) > 0
    BY DEF SameAsked
  <2>2. NULL \notin Fd /\ Lens(u)
    BY <1>1, Sizes
  <2> QED
    BY <2>1, <2>2, LensKeeps
<1>6. ASSUME NEW u \in Worker PROVE Accepting(u)'
  BY <1>1 DEF Accepting
<1> QED
  BY <1>3, <1>4, <1>5, <1>6, AliveFits DEF Keeps, Own


\* Where the worker goes.
LEMMA GoesTo ==
    ASSUME TypeOK, NEW w \in Worker, NEW p \in {"wait", "handle", "drain", "close", "closed"}, Goes(w, p)
    PROVE  /\ pc' \in [Worker -> {"wait", "handle", "drain", "close", "closed", "segv"}]
           /\ pc'[w] = p /\ \A u \in Worker \ {w} : pc'[u] = pc[u]
           /\ Alive => Alive'
BY DEF TypeOK, Goes, Alive

\* The cases of the eventfd but for the request that OnEvRead_Arms makes.
LEMMA EventHandled ==
    ASSUME UringInv, Alive, NEW w \in Worker, NEW t \in {"EV_READ", "EV_WRITE"}, Handles(w, t),
           NEW p \in {"handle", "drain"}, Goes(w, p), UNCHANGED <<table, closing, sq>>
    PROVE  Keeps
<1>1. TypeOK /\ Own
  BY DEF UringInv
<1>2. /\ UNCHANGED <<flight, kernel, client>> /\ pc[w] \in {"wait", "handle"}
      /\ cq' \in [Worker -> Seq(Completion)]
      /\ Head(cq[w]).type = t /\ \A v \in Worker \ {w} : cq'[v] = cq[v]
  BY <1>1, HandlesIs
<1>3. /\ pc' \in [Worker -> {"wait", "handle", "drain", "close", "closed", "segv"}]
      /\ pc'[w] = p /\ \A u \in Worker \ {w} : pc'[u] = pc[u]
      /\ Alive'
  BY <1>1, GoesTo
<1>4. TypeOK'
  BY <1>1, <1>2, <1>3 DEF TypeOK, table, kernel, client
<1>5. \A g : ~IsAbout(Head(cq[w]), g) /\ ~Arrived(Head(cq[w]), g)
  BY <1>2 DEF IsAbout, Arrived
<1>6. /\ \A u \in Worker, g \in Fd : /\ Spot("ended", u, g)' <=> Spot("ended", u, g)
                                     /\ Spot("accepted", u, g)' <=> Spot("accepted", u, g)
      /\ \A u \in Worker :
           /\ Once(cq'[u]) /\ OneAccept(cq'[u])
           /\ \A i \in 1 .. Len(cq'[u]) : \E j \in 1 .. Len(cq[u]) : cq'[u][i] = cq[u][j]
  BY <1>5, Pops
<1>7. ASSUME NEW u \in Worker PROVE AcceptIn(cq'[u]) <=> AcceptIn(cq[u])
  <2>1. CASE u = w
    <3>1. cq[w] \in Seq(Completion) /\ cq[w] # <<>> /\ cq'[w] = Tail(cq[w]) /\ OneAccept(cq[w])
      BY <1>1, HandlesIs DEF Own, Accepting
    <3>2. AcceptIn(Tail(cq[w])) <=> AcceptIn(cq[w]) /\ Head(cq[w]).type # "ACCEPT"
      BY <3>1, QueueTail
    <3> QED
      BY <1>2, <2>1, <3>1, <3>2
  <2>2. CASE u # w
    BY <1>2, <2>2
  <2> QED
    BY <2>1, <2>2
<1>8. ASSUME NEW u \in Worker
      PROVE  /\ SameAsked(u) /\ Out(AcceptReq, u)' = Out(AcceptReq, u) /\ Fits(sq'[u])
             /\ \A g \in Fd : /\ EndedIn(cq'[u], g) <=> EndedIn(cq[u], g)
                              /\ ArrivedIn(cq'[u], g) <=> ArrivedIn(cq[u], g)
  <2>1. SameAsked(u) /\ Out(AcceptReq, u)' = Out(AcceptReq, u) /\ Fits(sq'[u])
    BY <1>1, <1>2 DEF SameAsked, Out, Own
  <2>2. \A g \in Fd : /\ EndedIn(cq'[u], g) <=> EndedIn(cq[u], g)
                      /\ ArrivedIn(cq'[u], g) <=> ArrivedIn(cq[u], g)
    BY <1>6 DEF Spot
  <2> QED
    BY <2>1, <2>2
<1>9. UNCHANGED <<conns, sock, closing, incoming>>
  BY <1>2 DEF table, kernel
<1>10. \A u \in Worker : pc'[u] = pc[u] \/ (pc[u] \notin {"close", "closed"} /\ pc'[u] \notin {"close", "closed"})
  BY <1>2, <1>3
<1> QED
  BY <1>3, <1>4, <1>6, <1>7, <1>8, <1>9, <1>10, Stays

\* The list is emptied, or its first is read from.
LEMMA Takes2 ==
    ASSUME UringInv, Alive, NEW w \in Worker, TakeNew(w)
    PROVE  Keeps
<1>1. TypeOK /\ Own /\ pc[w] = "drain" /\ UNCHANGED <<closing, flight, cq, kernel, client>>
  BY DEF UringInv, TakeNew, Takes
<1>2. CASE incoming[w] = <<>>
  <2>1. Goes(w, "handle") /\ UNCHANGED <<table, sq>>
    BY <1>2 DEF TakeNew, Takes
  <2>2. /\ pc' \in [Worker -> {"wait", "handle", "drain", "close", "closed", "segv"}]
        /\ pc'[w] = "handle" /\ \A u \in Worker \ {w} : pc'[u] = pc[u]
        /\ Alive'
    BY <1>1, <2>1, GoesTo
  <2>3. TypeOK'
    BY <1>1, <2>1, <2>2 DEF TypeOK, table, kernel, client
  <2>4. \A u \in Worker : /\ SameAsked(u) /\ Out(AcceptReq, u)' = Out(AcceptReq, u)
                          /\ Fits(sq'[u]) /\ Once(cq'[u]) /\ OneAccept(cq'[u])
    BY <1>1, <2>1 DEF SameAsked, Out, Own, Single, Accepting
  <2>5. \A u \in Worker : pc'[u] = pc[u] \/ (pc[u] \notin {"close", "closed"} /\ pc'[u] \notin {"close", "closed"})
    BY <1>1, <2>2
  <2>6. UNCHANGED <<conns, sock, closing, incoming, cq>>
    BY <1>1, <2>1 DEF table, kernel
  <2> QED
    BY <2>2, <2>3, <2>4, <2>5, <2>6, Stays
<1>3. CASE incoming[w] # <<>>
  <2> DEFINE fd == Head(incoming[w])
  <2>1. /\ incoming' = [incoming EXCEPT ![w] = Tail(@)]
        /\ conns' = [conns EXCEPT ![fd] = 0]
        /\ Queues(w, add_read_request(fd, msg_size) (+) add_read_event, "drain")
    BY <1>3 DEF TakeNew, Takes
  <2>2. add_read_request(fd, msg_size) (+) add_read_event
           = SetToBag({Req("SOCK_READ", fd, msg_size), EventReq})
    <3>1. Req("SOCK_READ", fd, msg_size) # EventReq
      BY DEF EventReq, Req
    <3> QED
      BY <3>1, TwoSingles DEF add_read_request, add_read_event, EventReq
  <2> QED
    BY <1>1, <1>3, <2>1, <2>2, Takes1
<1> QED
  BY <1>2, <1>3

LEMMA EmptyIs ==
    /\ IsABag(EmptyBag) /\ BagToSet(EmptyBag) = {} /\ \A r : Copies(r, EmptyBag) = 0
    /\ Fits(EmptyBag)
<1>1. IsABag(EmptyBag) /\ BagToSet(EmptyBag) = {} /\ \A r : Copies(r, EmptyBag) = 0
  BY DEF EmptyBag, IsABag, BagToSet, Copies, BagIn, SetToBag
<1>2. Entries(EmptyBag) = {} /\ SockFds(EmptyBag) = {}
  BY <1>1 DEF Entries, SockFds
<1> QED
  BY <1>1, <1>2, FS_EmptySet DEF Fits

\* The queue is submitted: what is asked for stays the same.
LEMMA Submits ==
    ASSUME UringInv, Alive, NEW w \in Worker, Submit(w)
    PROVE  Keeps /\ \A u \in Worker : \A r : Out(r, u)' = Out(r, u)
<1>1. TypeOK /\ Own
  BY DEF UringInv
<1>2. /\ pc[w] = "handle" /\ Goes(w, "wait") /\ UNCHANGED <<table, closing, cq, kernel, client>>
      /\ flight' = [flight EXCEPT ![w] = @ (+) sq[w]]
      /\ sq' = [sq EXCEPT ![w] = EmptyBag]
  BY DEF Submit
<1>3. /\ pc' \in [Worker -> {"wait", "handle", "drain", "close", "closed", "segv"}]
      /\ pc'[w] = "wait" /\ \A u \in Worker \ {w} : pc'[u] = pc[u]
      /\ Alive'
  BY <1>1, <1>2, GoesTo
<1>4. /\ DOMAIN sq = Worker /\ DOMAIN flight = Worker
      /\ \A u \in Worker : /\ IsABag(sq[u]) /\ IsABag(flight[u])
                           /\ BagToSet(sq[u]) \subseteq Request /\ BagToSet(flight[u]) \subseteq Request
  BY <1>1 DEF TypeOK
<1>5. /\ DOMAIN sq' = Worker /\ DOMAIN flight' = Worker
      /\ sq'[w] = EmptyBag /\ flight'[w] = flight[w] (+) sq[w]
      /\ \A u \in Worker \ {w} : sq'[u] = sq[u] /\ flight'[u] = flight[u]
  BY <1>2, <1>4
<1>6. /\ IsABag(flight'[w]) /\ BagToSet(flight'[w]) \subseteq Request
      /\ \A r : Copies(r, flight'[w]) = Copies(r, flight[w]) + Copies(r, sq[w])
  BY <1>4, <1>5, BagPlus
<1>7. IsABag(sq'[w]) /\ BagToSet(sq'[w]) \subseteq Request /\ Fits(sq'[w])
      /\ \A r : Copies(r, sq'[w]) = 0
  BY <1>5, EmptyIs
<1>8. TypeOK'
  <2>1. \A u \in Worker : /\ IsABag(sq'[u]) /\ IsABag(flight'[u])
                          /\ BagToSet(sq'[u]) \subseteq Request /\ BagToSet(flight'[u]) \subseteq Request
    BY <1>4, <1>5, <1>6, <1>7
  <2> QED
    BY <1>1, <1>2, <1>3, <1>5, <2>1 DEF TypeOK, table, kernel, client
<1>9. \A u \in Worker : \A r : Out(r, u)' = Out(r, u)
  <2> TAKE u \in Worker
  <2> TAKE r
  <2>1. CASE u = w
    <3>1. Copies(r, sq[w]) \in Nat /\ Copies(r, flight[w]) \in Nat
      BY <1>1, OutIs
    <3> QED
      BY <1>6, <1>7, <2>1, <3>1 DEF Out
  <2>2. CASE u # w
    BY <1>5, <2>2 DEF Out
  <2> QED
    BY <2>1, <2>2
<1>10. \A u \in Worker : /\ SameAsked(u) /\ Out(AcceptReq, u)' = Out(AcceptReq, u)
                         /\ Fits(sq'[u]) /\ Once(cq'[u]) /\ OneAccept(cq'[u])
  <2>1. \A u \in Worker : Fits(sq'[u])
    BY <1>1, <1>5, <1>7 DEF Own
  <2> QED
    BY <1>1, <1>2, <1>9, <2>1 DEF SameAsked, Own, Single, Accepting
<1>11. \A u \in Worker : pc'[u] = pc[u] \/ (pc[u] \notin {"close", "closed"} /\ pc'[u] \notin {"close", "closed"})
  BY <1>2, <1>3
<1>12. UNCHANGED <<conns, sock, closing, incoming, cq>>
  BY <1>2 DEF table, kernel
<1> QED
  BY <1>3, <1>8, <1>9, <1>10, <1>11, <1>12, Stays


\* A completion of a connection, and what is asked for or closed then.
LEMMA EndedIs ==
    ASSUME UringInv, Alive, NEW w \in Worker, NEW t \in {"SOCK_READ", "SOCK_WRITE"}, Handles(w, t)
    PROVE  LET fd == Head(cq[w]).on IN
           /\ fd \in Fd /\ Spot("ended", w, fd) /\ closing[w] = NULL
           /\ conns[fd] \in 0 .. msg_size - 1
           /\ Head(cq[w]).res \in Int /\ Head(cq[w]).res <= msg_size - conns[fd]
           /\ UNCHANGED <<flight, kernel, client>> /\ pc[w] \in {"wait", "handle"}
           /\ cq' \in [Worker -> Seq(Completion)] /\ \A u \in Worker \ {w} : cq'[u] = cq[u]
           /\ \A u \in Worker, g \in Fd :
                /\ Spot("ended", u, g)' <=> Spot("ended", u, g) /\ ~(u = w /\ g = fd)
                /\ Spot("accepted", u, g)' <=> Spot("accepted", u, g)
           /\ \A u \in Worker :
                /\ Once(cq'[u]) /\ OneAccept(cq'[u]) /\ (AcceptIn(cq'[u]) => AcceptIn(cq[u]))
                /\ \A i \in 1 .. Len(cq'[u]) : \E j \in 1 .. Len(cq[u]) : cq'[u][i] = cq[u][j]
<1> DEFINE fd == Head(cq[w]).on
<1>1. TypeOK /\ Own /\ \A g \in Fd : Unique(g)
  BY DEF UringInv, Own
<1>2. /\ UNCHANGED <<flight, kernel, client>> /\ 1 \in 1 .. Len(cq[w]) /\ pc[w] \in {"wait", "handle"}
      /\ Head(cq[w]) \in Completion /\ Head(cq[w]).type = t /\ Head(cq[w]) = cq[w][1]
      /\ cq' \in [Worker -> Seq(Completion)] /\ \A v \in Worker \ {w} : cq'[v] = cq[v]
  BY <1>1, HandlesIs
<1>3. /\ fd \in Fd /\ Head(cq[w]).res \in Int /\ IsAbout(Head(cq[w]), fd)
      /\ \A g : IsAbout(Head(cq[w]), g) <=> g = fd
      /\ \A g : ~Arrived(Head(cq[w]), g)
  BY <1>2 DEF Completion, Arrived, IsAbout
<1>4. /\ \A u \in Worker, g \in Fd :
           /\ Spot("ended", u, g)' <=> Spot("ended", u, g) /\ ~(u = w /\ g = fd)
           /\ Spot("accepted", u, g)' <=> Spot("accepted", u, g)
      /\ \A u \in Worker :
           /\ Once(cq'[u]) /\ OneAccept(cq'[u]) /\ (AcceptIn(cq'[u]) => AcceptIn(cq[u]))
           /\ \A i \in 1 .. Len(cq'[u]) : \E j \in 1 .. Len(cq[u]) : cq'[u][i] = cq[u][j]
      /\ closing[w] = NULL
  BY <1>3, Pops
<1>5. Spot("ended", w, fd)
  BY <1>2, <1>3 DEF Spot, EndedIn
<1>6. conns[fd] \in 0 .. msg_size - 1
  <2>1. conns[fd] # NULL
    BY <1>1, <1>3, <1>5 DEF Unique, Connected
  <2> QED
    BY <1>1, <1>3, <2>1 DEF TypeOK
<1>7. Head(cq[w]).res <= msg_size - conns[fd]
  BY <1>1, <1>2, <1>3 DEF Own, Lens
<1> QED
  BY <1>2, <1>3, <1>4, <1>5, <1>6, <1>7

LEMMA Goon ==
    ASSUME UringInv, Alive, NEW w \in Worker, NEW t \in {"SOCK_READ", "SOCK_WRITE"}, Handles(w, t),
           NEW n \in 0 .. msg_size - 1, conns' = [conns EXCEPT ![Head(cq[w]).on] = n],
           NEW s \in {"SOCK_READ", "SOCK_WRITE"}, NEW len, len = msg_size - n,
           Queues(w, SetToBag({Req(s, Head(cq[w]).on, len)}), "handle"),
           UNCHANGED <<incoming, closing>>
    PROVE  Keeps
<1> DEFINE fd == Head(cq[w]).on
           x  == Req(s, fd, len)
<1>1. /\ fd \in Fd /\ Spot("ended", w, fd) /\ closing[w] = NULL
      /\ UNCHANGED <<flight, kernel, client>>
      /\ cq' \in [Worker -> Seq(Completion)] /\ \A u \in Worker \ {w} : cq'[u] = cq[u]
      /\ \A u \in Worker, g \in Fd :
           /\ Spot("ended", u, g)' <=> Spot("ended", u, g) /\ ~(u = w /\ g = fd)
           /\ Spot("accepted", u, g)' <=> Spot("accepted", u, g)
      /\ \A u \in Worker :
           /\ Once(cq'[u]) /\ OneAccept(cq'[u]) /\ (AcceptIn(cq'[u]) => AcceptIn(cq[u]))
           /\ \A i \in 1 .. Len(cq'[u]) : \E j \in 1 .. Len(cq[u]) : cq'[u][i] = cq[u][j]
  BY EndedIs
<1>2. TypeOK /\ Own
  BY DEF UringInv
<1> HIDE DEF fd
<1>3. len \in 1 .. msg_size
  BY Sizes
<1>4. /\ x \in Request /\ x.len = len /\ IsAbout(x, fd) /\ x # AcceptReq
      /\ Queues(w, SetToBag({x, x}), "handle")
  <2>1. {x, x} = {x}
    OBVIOUS
  <2>2. x \in Request /\ x.len = len /\ IsAbout(x, fd) /\ x # AcceptReq
    BY <1>1, <1>3, Requests
  <2> QED
    BY <2>1, <2>2 DEF fd
<1>5. conns' = [conns EXCEPT ![fd] = n]
  BY DEF fd
<1> HIDE DEF x
<1>6. TypeOK'
  <2>1. incoming' \in [Worker -> Seq(Fd)] /\ {x, x} \in SUBSET Request
    BY <1>2, <1>4 DEF TypeOK
  <2>2. "handle" \in {"handle", "drain"} /\ UNCHANGED <<closing, flight, kernel, client>>
    BY <1>1
  <2> QED
    BY <1>1, <1>2, <1>4, <1>5, <2>1, <2>2, AskedType
<1>7. (Alive' => Own') /\ SqeFits'
  <2>1. \A u \in Worker : Distinct(incoming'[u])
    BY <1>2 DEF Own, Single
  <2>2. \A u \in Worker, g \in Fd : Spot("listed", u, g)' <=> Spot("listed", u, g)
    BY DEF Spot
  <2>3. UNCHANGED <<flight, sock, closing>>
    BY <1>1 DEF kernel
  <2>4. AsksFor(w, "ended", fd, x, x, n, "handle")
    BY <1>1, <1>4, <1>5, <2>1, <2>2, <2>3 DEF AsksFor
  <2> QED
    BY <2>4, AsksAbout
<1> QED
  BY <1>6, <1>7 DEF Keeps


LEMMA Hangs ==
    ASSUME UringInv, Alive, NEW w \in Worker, NEW t \in {"SOCK_READ", "SOCK_WRITE"}, Handles(w, t),
           Closes(w, Head(cq[w]))
    PROVE  Keeps
<1> DEFINE fd == Head(cq[w]).on
<1>1. /\ fd \in Fd /\ Spot("ended", w, fd) /\ closing[w] = NULL
      /\ UNCHANGED <<flight, kernel, client>> /\ pc[w] \in {"wait", "handle"}
      /\ cq' \in [Worker -> Seq(Completion)] /\ \A u \in Worker \ {w} : cq'[u] = cq[u]
      /\ \A u \in Worker, g \in Fd :
           /\ Spot("ended", u, g)' <=> Spot("ended", u, g) /\ ~(u = w /\ g = fd)
           /\ Spot("accepted", u, g)' <=> Spot("accepted", u, g)
      /\ \A u \in Worker :
           /\ Once(cq'[u]) /\ OneAccept(cq'[u]) /\ (AcceptIn(cq'[u]) => AcceptIn(cq[u]))
           /\ \A i \in 1 .. Len(cq'[u]) : \E j \in 1 .. Len(cq[u]) : cq'[u][i] = cq[u][j]
  BY EndedIs
<1>2. TypeOK /\ Own /\ (\A g \in Fd : Unique(g)) /\ \A u \in Worker : Single(u) /\ Accepting(u) /\ Lens(u)
  BY DEF UringInv, Own
<1>3. /\ closing' = [closing EXCEPT ![w] = fd] /\ Goes(w, "close") /\ UNCHANGED <<table, sq>>
  BY DEF Closes
<1> HIDE DEF fd
<1>4. /\ pc' \in [Worker -> {"wait", "handle", "drain", "close", "closed", "segv"}]
      /\ pc'[w] = "close" /\ \A u \in Worker \ {w} : pc'[u] = pc[u]
      /\ Alive'
  BY <1>2, <1>3, GoesTo
<1>5. /\ closing' \in [Worker -> Fd \cup {NULL}] /\ closing'[w] = fd
      /\ \A u \in Worker \ {w} : closing'[u] = closing[u]
  BY <1>1, <1>2, <1>3 DEF TypeOK
<1>6. TypeOK'
  BY <1>1, <1>2, <1>3, <1>4, <1>5 DEF TypeOK, table, kernel, client
<1>7. \A u \in Worker : SameAsked(u) /\ \A r : Out(r, u)' = Out(r, u)
  BY <1>1, <1>3 DEF Out, SameAsked
<1>8. UNCHANGED <<conns, incoming, sock>>
  BY <1>1, <1>3 DEF table, kernel
<1>9. Shift(fd, "ended", w, "closing", w)
  <2>1. \A u \in Worker, g \in Fd :
          /\ Spot("request", u, g)' <=> Spot("request", u, g)
          /\ Spot("listed", u, g)' <=> Spot("listed", u, g)
    BY <1>7, <1>8, AsksSame DEF Spot
  <2>2. \A u \in Worker, g \in Fd : Spot("closing", u, g)' <=> Spot("closing", u, g) \/ (u = w /\ g = fd)
    BY <1>1, <1>5, Sizes DEF Spot
  <2>3. \A u \in Worker, g \in Fd :
          /\ Spot("ended", u, g)' <=> Spot("ended", u, g) /\ ~(u = w /\ g = fd)
          /\ Spot("accepted", u, g)' <=> Spot("accepted", u, g)
    BY <1>1
  <2> QED
    BY <2>1, <2>2, <2>3, ShiftIs
<1>10. \A g \in Fd : Unique(g)'
  <2>1. sock[fd] # NULL /\ conns[fd] # NULL
    BY <1>1, <1>2 DEF Unique, Kind, Connected
  <2>2. "ended" \in Kind /\ "closing" \in Kind
    BY DEF Kind
  <2>3. \A g \in Fd, u \in Worker : Spot("closing", u, g) => (pc'[u] = "close" <=> pc[u] = "close")
    BY <1>1, <1>4, Sizes DEF Spot
  <2> QED
    BY <1>1, <1>2, <1>4, <1>8, <1>9, <2>1, <2>2, <2>3, ShiftKeeps
<1>11. ASSUME NEW u \in Worker PROVE Single(u)' /\ Accepting(u)' /\ Fits(sq'[u])
  <2>1. \A r, s \in Request, g \in Fd :
          IsAbout(r, g) /\ IsAbout(s, g) /\ Out(r, u)' > 0 /\ Out(s, u)' > 0 => r = s /\ Out(r, u)' = 1
    BY <1>2, <1>7, AsksSame
  <2>2. closing'[u] # NULL <=> pc'[u] \in {"close", "closed"}
    <3>1. CASE u = w
      BY <1>1, <1>4, <1>5, <3>1, Sizes
    <3>2. CASE u # w
      BY <1>2, <1>4, <1>5, <3>2 DEF Single
    <3> QED
      BY <3>1, <3>2
  <2>3. Single(u)'
    BY <1>1, <1>2, <1>8, <2>1, <2>2 DEF Single
  <2>4. Accepting(u)'
    BY <1>1, <1>2, <1>7 DEF Accepting
  <2> QED
    BY <1>2, <1>3, <2>3, <2>4 DEF Own
<1>12. ASSUME NEW u \in Worker PROVE Lens(u)'
  <2>1. \A r \in Request, g \in Fd : IsAbout(r, g) /\ Out(r, u)' > 0 => Out(r, u) > 0
    BY <1>7
  <2>2. NULL \notin Fd /\ Lens(u)
    BY <1>2, Sizes
  <2> QED
    BY <1>1, <1>8, <2>1, <2>2, LensKeeps
<1> QED
  BY <1>4, <1>6, <1>10, <1>11, <1>12, AliveFits DEF Keeps, Own

LEMMA SockRead ==
    ASSUME UringInv, Alive, NEW w \in Worker, OnSockRead(w)
    PROVE  Keeps
<1> DEFINE e == Head(cq[w])
           n == conns[e.on] + e.res
<1>1. /\ Handles(w, "SOCK_READ")
      /\ \/ e.res <= 0 /\ Closes(w, e)
         \/ /\ ~(e.res <= 0) /\ UNCHANGED <<incoming, closing>>
            /\ \/ /\ n = msg_size
                  /\ conns' = [conns EXCEPT ![e.on] = 0]
                  /\ Queues(w, SetToBag({Req("SOCK_WRITE", e.on, msg_size)}), "handle")
               \/ /\ n # msg_size
                  /\ conns' = [conns EXCEPT ![e.on] = n]
                  /\ Queues(w, SetToBag({Req("SOCK_READ", e.on, msg_size - n)}), "handle")
  BY DEF OnSockRead, add_read_request, add_write_request
<1>2. /\ conns[e.on] \in 0 .. msg_size - 1
      /\ e.res \in Int /\ e.res <= msg_size - conns[e.on]
  BY <1>1, EndedIs
<1>3. CASE e.res <= 0 /\ Closes(w, e)
  BY <1>1, <1>3, Hangs
<1>4. CASE ~(e.res <= 0)
  <2>1. n \in Nat /\ n <= msg_size
    BY <1>2, <1>4, Sizes
  <2>2. CASE n = msg_size
    <3>1. 0 \in 0 .. msg_size - 1 /\ msg_size = msg_size - 0
      BY Sizes
    <3> QED
      BY <1>1, <1>4, <2>2, <3>1, Goon
  <2>3. CASE n # msg_size
    <3>1. n \in 0 .. msg_size - 1
      BY <2>1, <2>3, Sizes
    <3> HIDE DEF n
    <3> QED
      BY <1>1, <1>4, <2>3, <3>1, Goon
  <2> QED
    BY <2>2, <2>3
<1> QED
  BY <1>1, <1>3, <1>4

LEMMA SockWrite ==
    ASSUME UringInv, Alive, NEW w \in Worker, OnSockWrite(w)
    PROVE  Keeps
<1> DEFINE e == Head(cq[w])
           n == conns[e.on] + e.res
<1>1. /\ Handles(w, "SOCK_WRITE")
      /\ \/ e.res <= 0 /\ Closes(w, e)
         \/ /\ ~(e.res <= 0) /\ UNCHANGED <<incoming, closing>>
            /\ \/ /\ n = msg_size
                  /\ conns' = [conns EXCEPT ![e.on] = 0]
                  /\ Queues(w, SetToBag({Req("SOCK_READ", e.on, msg_size)}), "handle")
               \/ /\ n # msg_size
                  /\ conns' = [conns EXCEPT ![e.on] = n]
                  /\ Queues(w, SetToBag({Req("SOCK_WRITE", e.on, msg_size - n)}), "handle")
  BY DEF OnSockWrite, add_read_request, add_write_request
<1>2. /\ conns[e.on] \in 0 .. msg_size - 1
      /\ e.res \in Int /\ e.res <= msg_size - conns[e.on]
  BY <1>1, EndedIs
<1>3. CASE e.res <= 0 /\ Closes(w, e)
  BY <1>1, <1>3, Hangs
<1>4. CASE ~(e.res <= 0)
  <2>1. n \in Nat /\ n <= msg_size
    BY <1>2, <1>4, Sizes
  <2>2. CASE n = msg_size
    <3>1. 0 \in 0 .. msg_size - 1 /\ msg_size = msg_size - 0
      BY Sizes
    <3> QED
      BY <1>1, <1>4, <2>2, <3>1, Goon
  <2>3. CASE n # msg_size
    <3>1. n \in 0 .. msg_size - 1
      BY <2>1, <2>3, Sizes
    <3> HIDE DEF n
    <3> QED
      BY <1>1, <1>4, <2>3, <3>1, Goon
  <2> QED
    BY <2>2, <2>3
<1> QED
  BY <1>1, <1>3, <1>4


\* on_close clears the slot, and then closes the descriptor.
LEMMA ClosesConnection ==
    ASSUME UringInv, Alive, NEW w \in Worker, on_close(w)
    PROVE  Keeps
<1> DEFINE fd == closing[w]
<1>1. TypeOK /\ Own /\ (\A g \in Fd : Unique(g)) /\ \A u \in Worker : Single(u) /\ Accepting(u) /\ Lens(u)
  BY DEF UringInv, Own
<1>2. /\ \/ /\ pc[w] = "close" /\ Goes(w, "closed") /\ UNCHANGED <<closing, sock>>
            /\ conns' = [conns EXCEPT ![fd] = NULL]
         \/ /\ pc[w] = "closed" /\ Goes(w, "handle") /\ UNCHANGED conns
            /\ sock' = [sock EXCEPT ![fd] = NULL]
            /\ closing' = [closing EXCEPT ![w] = NULL]
      /\ UNCHANGED <<incoming, sq, flight, cq, event_fd, backlog, client>>
  BY DEF on_close, Undo, Unslot, Release, rings
<1>3. fd \in Fd /\ Spot("closing", w, fd) /\ sock[fd] # NULL
  <2>1. fd # NULL
    BY <1>1, <1>2 DEF Single
  <2>2. fd \in Fd
    BY <1>1, <2>1 DEF TypeOK
  <2>3. Spot("closing", w, fd)
    BY DEF Spot
  <2> QED
    BY <1>1, <2>2, <2>3 DEF Unique, Kind
<1> HIDE DEF fd
<1>4. \A u \in Worker : SameAsked(u) /\ Fits(sq'[u]) /\ \A r : Out(r, u)' = Out(r, u)
  BY <1>1, <1>2 DEF Out, SameAsked, Own
<1>5. /\ \A u \in Worker, g \in Fd :
           /\ Spot("request", u, g)' <=> Spot("request", u, g)
           /\ Spot("ended", u, g)' <=> Spot("ended", u, g)
           /\ Spot("accepted", u, g)' <=> Spot("accepted", u, g)
           /\ Spot("listed", u, g)' <=> Spot("listed", u, g)
      /\ \A u \in Worker : Once(cq'[u]) /\ Distinct(incoming'[u]) /\ Accepting(u)'
  <2>1. \A u \in Worker, g \in Fd :
           /\ Spot("request", u, g)' <=> Spot("request", u, g)
           /\ Spot("ended", u, g)' <=> Spot("ended", u, g)
           /\ Spot("accepted", u, g)' <=> Spot("accepted", u, g)
           /\ Spot("listed", u, g)' <=> Spot("listed", u, g)
    BY <1>2, <1>4, AsksSame DEF Spot
  <2>2. \A u \in Worker : Once(cq'[u]) /\ Distinct(incoming'[u]) /\ Accepting(u)'
    BY <1>1, <1>2, <1>4 DEF Single, Accepting
  <2> QED
    BY <2>1, <2>2
<1>6. \A u \in Worker, r, s \in Request, g \in Fd :
        IsAbout(r, g) /\ IsAbout(s, g) /\ Out(r, u)' > 0 /\ Out(s, u)' > 0 => r = s /\ Out(r, u)' = 1
  BY <1>1, <1>4, AsksSame
<1>7. /\ \A u \in Worker, r \in Request : IsAbout(r, fd) => ~(Out(r, u) > 0)
      /\ \A u \in Worker : \A i \in 1 .. Len(cq[u]) : ~IsAbout(cq[u][i], fd)
  <2>1. \A u \in Worker : ~Spot("request", u, fd) /\ ~Spot("ended", u, fd)
    BY <1>1, <1>3 DEF Unique, Kind
  <2> QED
    BY <2>1 DEF Spot, EndedIn
<1>8. ASSUME NEW u \in Worker, \A g \in Fd \ {fd} : conns'[g] = conns[g] PROVE Lens(u)'
  <2>1. \A r \in Request, g \in Fd \ {fd} : IsAbout(r, g) /\ Out(r, u)' > 0 => Out(r, u) > 0
    BY <1>4
  <2>2. \A r \in Request : IsAbout(r, fd) /\ Out(r, u)' > 0 => r.len = msg_size - conns'[fd]
    BY <1>4, <1>7
  <2> QED
    BY <1>1, <1>2, <1>7, <1>8, <2>1, <2>2, LensKeeps
<1>9. CASE /\ pc[w] = "close" /\ Goes(w, "closed") /\ UNCHANGED <<closing, sock>>
           /\ conns' = [conns EXCEPT ![fd] = NULL]
  <2>1. /\ pc' \in [Worker -> {"wait", "handle", "drain", "close", "closed", "segv"}]
        /\ pc'[w] = "closed" /\ \A u \in Worker \ {w} : pc'[u] = pc[u]
        /\ Alive'
    BY <1>1, <1>9, GoesTo
  <2>2. /\ conns' \in [Fd -> (0 .. msg_size - 1) \cup {NULL}] /\ conns'[fd] = NULL
        /\ \A g \in Fd \ {fd} : conns'[g] = conns[g]
    BY <1>1, <1>3, <1>9 DEF TypeOK
  <2>3. TypeOK'
    BY <1>1, <1>2, <1>9, <2>1, <2>2 DEF TypeOK, client
  <2>4. \A u \in Worker, g \in Fd : Spot("closing", u, g)' <=> Spot("closing", u, g)
    BY <1>9 DEF Spot
  <2>5. Shift(fd, "closing", w, "closing", w)
    BY <1>3, <1>5, <2>4 DEF Shift, Kind
  <2>6. \A g \in Fd : Unique(g)'
    <3>1. \A g \in Fd \ {fd}, u \in Worker : Spot("closing", u, g) => (pc'[u] = "close" <=> pc[u] = "close")
      BY <2>1 DEF Spot, fd
    <3>2. "closing" \in Kind
      BY DEF Kind
    <3> QED
      BY <1>1, <1>3, <1>9, <2>1, <2>2, <2>5, <3>1, <3>2, ShiftKeeps
  <2>7. \A u \in Worker : Single(u)'
    <3>1. \A u \in Worker : closing'[u] # NULL <=> pc'[u] \in {"close", "closed"}
      BY <1>1, <1>9, <2>1 DEF Single
    <3> QED
      BY <1>5, <1>6, <3>1 DEF Single
  <2> QED
    BY <1>4, <1>5, <1>8, <2>1, <2>2, <2>3, <2>6, <2>7, AliveFits DEF Keeps, Own
<1>10. CASE /\ pc[w] = "closed" /\ Goes(w, "handle") /\ UNCHANGED conns
            /\ sock' = [sock EXCEPT ![fd] = NULL]
            /\ closing' = [closing EXCEPT ![w] = NULL]
  <2>1. /\ pc' \in [Worker -> {"wait", "handle", "drain", "close", "closed", "segv"}]
        /\ pc'[w] = "handle" /\ \A u \in Worker \ {w} : pc'[u] = pc[u]
        /\ Alive'
    BY <1>1, <1>10, GoesTo
  <2>2. /\ sock' \in [Fd -> Client \cup {NULL}] /\ sock'[fd] = NULL
        /\ \A g \in Fd \ {fd} : sock'[g] = sock[g]
        /\ closing' \in [Worker -> Fd \cup {NULL}] /\ closing'[w] = NULL
        /\ \A u \in Worker \ {w} : closing'[u] = closing[u]
    BY <1>1, <1>3, <1>10 DEF TypeOK
  <2>3. TypeOK'
    BY <1>1, <1>2, <1>10, <2>1, <2>2 DEF TypeOK, client
  <2>4. \A u \in Worker, g \in Fd : Spot("closing", u, g)' <=> Spot("closing", u, g) /\ ~(u = w /\ g = fd)
    BY <2>2, Sizes DEF Spot, fd
  <2>5. Shift(fd, "closing", w, "none", w)
    BY <1>5, <2>4, ShiftIs
  <2>6. \A g \in Fd : Unique(g)'
    <3>1. \A g \in Fd \ {fd}, u \in Worker : Spot("closing", u, g) => (pc'[u] = "close" <=> pc[u] = "close")
      BY <2>1 DEF Spot, fd
    <3>2. "closing" \in Kind
      BY DEF Kind
    <3>3. conns'[fd] = NULL
      <4>1. \A u \in Worker : ~Connected(u, fd)
        BY <1>1, <1>3, <1>10 DEF Unique, Kind, Connected
      <4> QED
        BY <1>1, <1>3, <1>10, <4>1 DEF Unique
    <3> QED
      BY <1>1, <1>3, <1>10, <2>1, <2>2, <2>5, <3>1, <3>2, <3>3, ShiftKeeps
  <2>7. \A u \in Worker : Single(u)'
    <3>1. \A u \in Worker : closing'[u] # NULL <=> pc'[u] \in {"close", "closed"}
      BY <1>1, <2>1, <2>2 DEF Single
    <3> QED
      BY <1>5, <1>6, <3>1 DEF Single
  <2> QED
    BY <1>4, <1>5, <1>8, <1>10, <2>1, <2>3, <2>6, <2>7, AliveFits DEF Keeps, Own
<1> QED
  BY <1>2, <1>9, <1>10 DEF fd


-----------------------------------------------------------------------------
(* The kernel's steps *)

\* What holds when the kernel has completed r.
LEMMA Completes1 ==
    ASSUME UringInv, NEW w \in Worker, NEW r, NEW res, Completed(w, r, res),
           NEW e, e = [type |-> r.type, on |-> r.on, res |-> res], e \in Completion
    PROVE  /\ r \in Request /\ UNCHANGED <<conns, incoming, pc, closing, sq>> /\ (Alive => Alive')
           /\ DOMAIN flight' = Worker
           /\ \A u \in Worker : IsABag(flight'[u]) /\ BagToSet(flight'[u]) \subseteq Request
           /\ \A u \in Worker : \A s : Out(s, u) \in Nat
           /\ Out(r, w) > 0 /\ \A u \in Worker : \A s :
                Out(s, u)' = Out(s, u) - IF s = r /\ u = w THEN 1 ELSE 0
           /\ cq' \in [Worker -> Seq(Completion)]
           /\ cq[w] \in Seq(Completion) /\ cq'[w] = Append(cq[w], e)
           /\ \A u \in Worker \ {w} : cq'[u] = cq[u]
<1>1. /\ r \in Request /\ Out(r, w) > 0 /\ UNCHANGED <<table, pc, closing, sq>>
      /\ DOMAIN flight' = Worker
      /\ \A v \in Worker : IsABag(flight'[v]) /\ BagToSet(flight'[v]) \subseteq Request
      /\ \A v \in Worker \ {w} : flight'[v] = flight[v] /\ cq'[v] = cq[v]
      /\ \A s : Copies(s, flight'[w]) = Copies(s, flight[w]) - IF s = r THEN 1 ELSE 0
      /\ cq' \in [Worker -> Seq(Completion)]
      /\ cq'[w] = Append(cq[w], e)
  <2>1. TypeOK /\ Completed(w, r, res) /\ [type |-> r.type, on |-> r.on, res |-> res] \in Completion
    BY DEF UringInv
  <2>2. /\ r \in Request /\ Out(r, w) > 0 /\ UNCHANGED <<table, pc, closing, sq>>
        /\ DOMAIN flight' = Worker
        /\ \A v \in Worker : IsABag(flight'[v]) /\ BagToSet(flight'[v]) \subseteq Request
        /\ \A v \in Worker \ {w} : flight'[v] = flight[v] /\ cq'[v] = cq[v]
        /\ \A s : Copies(s, flight'[w]) = Copies(s, flight[w]) - IF s = r THEN 1 ELSE 0
        /\ cq' \in [Worker -> Seq(Completion)]
        /\ cq'[w] = Append(cq[w], [type |-> r.type, on |-> r.on, res |-> res])
    BY ONLY w \in Worker, <2>1, CompletedIs
  <2> QED
    BY <2>2
<1>2. \A u \in Worker : \A s : /\ Copies(s, sq[u]) \in Nat /\ Copies(s, flight[u]) \in Nat
                           /\ Out(s, u) \in Nat
  BY OutIs DEF UringInv
<1>3. \A u \in Worker : \A s : Out(s, u)' = Out(s, u) - IF s = r /\ u = w THEN 1 ELSE 0
  <2> TAKE u \in Worker
  <2> TAKE s
  <2>1. CASE u = w
    <3>1. /\ Copies(s, flight'[w]) = Copies(s, flight[w]) - IF s = r THEN 1 ELSE 0
          /\ Copies(s, sq'[w]) = Copies(s, sq[w])
      BY <1>1
    <3>2. CASE s = r
      BY <1>2, <2>1, <3>1, <3>2 DEF Out
    <3>3. CASE s # r
      BY <1>2, <2>1, <3>1, <3>3 DEF Out
    <3> QED
      BY <3>2, <3>3
  <2>2. CASE u # w
    <3>1. Out(s, u)' = Out(s, u)
      BY <1>1, <2>2 DEF Out
    <3> QED
      BY <1>2, <2>2, <3>1
  <2> QED
    BY <2>1, <2>2
<1>4. cq[w] \in Seq(Completion)
  BY DEF UringInv, TypeOK
<1> QED
  BY <1>1, <1>2, <1>3, <1>4 DEF table, Alive

\* A read of an eventfd or a write to one.
LEMMA EventCompleted ==
    ASSUME UringInv, Alive, NEW w \in Worker, NEW r \in Request, r.type \in {"EV_READ", "EV_WRITE"},
           NEW res \in Nat, Completed(w, r, res),
           event_fd' \in [Worker -> Nat], UNCHANGED <<sock, backlog, client>>
    PROVE  Keeps
<1> DEFINE e == [type |-> r.type, on |-> r.on, res |-> res]
<1>1. /\ e \in Completion /\ e.type = r.type
      /\ \A g : ~IsAbout(e, g) /\ ~Arrived(e, g) /\ ~IsAbout(r, g)
      /\ r # AcceptReq /\ e.type # "ACCEPT"
  BY DEF Request, Completion, IsAbout, Arrived, AcceptReq, Req
<1> HIDE DEF e
<1>2. /\ UNCHANGED <<conns, incoming, pc, closing, sq>> /\ Alive'
      /\ DOMAIN flight' = Worker
      /\ \A u \in Worker : IsABag(flight'[u]) /\ BagToSet(flight'[u]) \subseteq Request
      /\ \A u \in Worker : \A s : Out(s, u) \in Nat
      /\ \A u \in Worker : \A s : Out(s, u)' = Out(s, u) - IF s = r /\ u = w THEN 1 ELSE 0
      /\ cq' \in [Worker -> Seq(Completion)]
      /\ cq[w] \in Seq(Completion) /\ cq'[w] = Append(cq[w], e)
      /\ \A u \in Worker \ {w} : cq'[u] = cq[u]
  BY <1>1, Completes1 DEF e
<1>3. TypeOK /\ Own /\ \A u \in Worker : Once(cq[u]) /\ OneAccept(cq[u]) /\ Fits(sq[u])
  BY DEF UringInv, Own, Single, Accepting
<1>4. TypeOK'
  BY <1>2, <1>3 DEF TypeOK, client
<1>5. \A u \in Worker : SameAsked(u) /\ Out(AcceptReq, u)' = Out(AcceptReq, u)
  <2>1. \A u \in Worker : \A s : s # r => Out(s, u)' = Out(s, u)
    BY <1>2
  <2> QED
    BY <1>1, <2>1 DEF SameAsked
<1>6. /\ Once(cq'[w]) /\ OneAccept(cq'[w]) /\ (AcceptIn(cq'[w]) <=> AcceptIn(cq[w]))
      /\ \A g \in Fd : /\ EndedIn(cq'[w], g) <=> EndedIn(cq[w], g)
                       /\ ArrivedIn(cq'[w], g) <=> ArrivedIn(cq[w], g)
  BY <1>1, <1>2, <1>3, QueueAppend
<1>7. \A i \in 1 .. Len(cq'[w]) : \A g \in Fd : IsAbout(cq'[w][i], g) =>
        \E j \in 1 .. Len(cq[w]) : cq'[w][i] = cq[w][j]
  <2>1. /\ Len(cq[w]) \in Nat /\ Len(cq'[w]) = Len(cq[w]) + 1 /\ cq'[w][Len(cq[w]) + 1] = e
        /\ \A i \in 1 .. Len(cq[w]) : cq'[w][i] = cq[w][i]
    BY <1>1, <1>2, AppendOf
  <2> QED
    BY <1>1, <2>1
<1>8. ASSUME NEW u \in Worker
      PROVE  /\ Fits(sq'[u]) /\ Once(cq'[u]) /\ OneAccept(cq'[u])
             /\ AcceptIn(cq'[u]) <=> AcceptIn(cq[u])
             /\ \A g \in Fd : /\ EndedIn(cq'[u], g) <=> EndedIn(cq[u], g)
                              /\ ArrivedIn(cq'[u], g) <=> ArrivedIn(cq[u], g)
             /\ \A i \in 1 .. Len(cq'[u]) : \A g \in Fd : IsAbout(cq'[u][i], g) =>
                  \E j \in 1 .. Len(cq[u]) : cq'[u][i] = cq[u][j]
  <2>1. CASE u = w
    BY <1>2, <1>3, <1>6, <1>7, <2>1
  <2>2. CASE u # w
    BY <1>2, <1>3, <2>2
  <2> QED
    BY <2>1, <2>2
<1>9. UNCHANGED <<conns, sock, closing, incoming, pc>>
  BY <1>2
<1> QED
  BY <1>2, <1>4, <1>5, <1>8, <1>9, Stays


\* The completions w has after one more, about a descriptor it had none of.
LEMMA Arrives ==
    ASSUME UringInv, Alive, NEW w \in Worker, NEW e \in Completion, NEW fd \in Fd,
           \A g \in Fd : IsAbout(e, g) \/ Arrived(e, g) => g = fd,
           ~Spot("ended", w, fd), ~Spot("accepted", w, fd),
           e.type = "ACCEPT" => ~AcceptIn(cq[w]),
           cq'[w] = Append(cq[w], e), \A u \in Worker \ {w} : cq'[u] = cq[u]
    PROVE  /\ \A u \in Worker : Once(cq'[u]) /\ OneAccept(cq'[u])
           /\ \A u \in Worker : AcceptIn(cq'[u]) <=> AcceptIn(cq[u]) \/ (u = w /\ e.type = "ACCEPT")
           /\ \A u \in Worker, g \in Fd :
                /\ Spot("ended", u, g)' <=> Spot("ended", u, g) \/ (u = w /\ IsAbout(e, g))
                /\ Spot("accepted", u, g)' <=> Spot("accepted", u, g) \/ (u = w /\ Arrived(e, g))
           /\ \A u \in Worker : \A i \in 1 .. Len(cq'[u]) :
                \/ u = w /\ cq'[u][i] = e
                \/ \E j \in 1 .. Len(cq[u]) : cq'[u][i] = cq[u][j]
<1>1. /\ cq[w] \in Seq(Completion)
      /\ \A u \in Worker : Once(cq[u]) /\ OneAccept(cq[u])
  BY DEF UringInv, TypeOK, Own, Single, Accepting
<1>2. /\ \A g \in Fd :
           /\ EndedIn(cq'[w], g) <=> EndedIn(cq[w], g) \/ IsAbout(e, g)
           /\ ArrivedIn(cq'[w], g) <=> ArrivedIn(cq[w], g) \/ Arrived(e, g)
      /\ AcceptIn(cq'[w]) <=> AcceptIn(cq[w]) \/ e.type = "ACCEPT"
      /\ OneAccept(cq'[w])
  BY <1>1, QueueAppend
<1>3. Once(cq'[w])
  <2>1. \A g \in Fd : IsAbout(e, g) \/ Arrived(e, g) => ~EndedIn(cq[w], g) /\ ~ArrivedIn(cq[w], g)
    BY DEF Spot
  <2> QED
    BY <1>1, <2>1, QueueAppend
<1>4. \A i \in 1 .. Len(cq'[w]) : cq'[w][i] = e \/ \E j \in 1 .. Len(cq[w]) : cq'[w][i] = cq[w][j]
  <2>1. /\ Len(cq[w]) \in Nat /\ Len(cq'[w]) = Len(cq[w]) + 1 /\ cq'[w][Len(cq[w]) + 1] = e
        /\ \A i \in 1 .. Len(cq[w]) : cq'[w][i] = cq[w][i]
    BY <1>1, AppendOf
  <2> QED
    BY <2>1
<1>5. ASSUME NEW u \in Worker
      PROVE  /\ Once(cq'[u]) /\ OneAccept(cq'[u])
             /\ AcceptIn(cq'[u]) <=> AcceptIn(cq[u]) \/ (u = w /\ e.type = "ACCEPT")
             /\ \A g \in Fd :
                  /\ Spot("ended", u, g)' <=> Spot("ended", u, g) \/ (u = w /\ IsAbout(e, g))
                  /\ Spot("accepted", u, g)' <=> Spot("accepted", u, g) \/ (u = w /\ Arrived(e, g))
             /\ \A i \in 1 .. Len(cq'[u]) :
                  \/ u = w /\ cq'[u][i] = e
                  \/ \E j \in 1 .. Len(cq[u]) : cq'[u][i] = cq[u][j]
  <2>1. CASE u = w
    BY <1>2, <1>3, <1>4, <2>1 DEF Spot
  <2>2. CASE u # w
    BY <1>1, <2>2 DEF Spot
  <2> QED
    BY <2>1, <2>2
<1> QED
  BY <1>5

\* A request of a connection ends.
LEMMA Ends ==
    ASSUME UringInv, Alive, NEW w \in Worker, NEW fd \in Fd, NEW r, IsAbout(r, fd), r \in Request,
           NEW res \in Int, res <= r.len, Completed(w, r, res), UNCHANGED <<kernel, cst, csent>>,
           sread' \in [Client -> Nat], echo' \in [Client -> Nat]
    PROVE  Keeps
<1> DEFINE e == [type |-> r.type, on |-> r.on, res |-> res]
<1>1. /\ e \in Completion /\ e.type = r.type /\ e.res = res
      /\ \A g \in Fd : (IsAbout(e, g) <=> g = fd) /\ ~Arrived(e, g)
      /\ \A g \in Fd : IsAbout(r, g) <=> g = fd
      /\ e.type # "ACCEPT" /\ r # AcceptReq
  BY DEF Request, Completion, IsAbout, Arrived, AcceptReq, Req
<1> HIDE DEF e
<1>2. /\ UNCHANGED <<conns, incoming, pc, closing, sq>> /\ Alive'
      /\ DOMAIN flight' = Worker
      /\ \A u \in Worker : IsABag(flight'[u]) /\ BagToSet(flight'[u]) \subseteq Request
      /\ Out(r, w) > 0
      /\ \A u \in Worker : \A s : Out(s, u) \in Nat
      /\ \A u \in Worker : \A s : Out(s, u)' = Out(s, u) - IF s = r /\ u = w THEN 1 ELSE 0
      /\ cq' \in [Worker -> Seq(Completion)]
      /\ cq'[w] = Append(cq[w], e)
      /\ \A u \in Worker \ {w} : cq'[u] = cq[u]
  BY <1>1, Completes1 DEF e
<1>3. TypeOK /\ Own /\ (\A g \in Fd : Unique(g)) /\ \A u \in Worker : Single(u) /\ Accepting(u) /\ Lens(u) /\ Fits(sq[u])
  BY DEF UringInv, Own
<1>4. TypeOK'
  BY <1>2, <1>3 DEF TypeOK, kernel
<1>5. Spot("request", w, fd)
  BY <1>2 DEF Spot
<1>6. \A k \in Kind, u \in Worker : Spot(k, u, fd) => k = "request" /\ u = w
  BY <1>3, <1>5 DEF Unique, Kind
<1>7. /\ \A u \in Worker : Once(cq'[u]) /\ OneAccept(cq'[u]) /\ (AcceptIn(cq'[u]) <=> AcceptIn(cq[u]))
      /\ \A u \in Worker, g \in Fd :
           /\ Spot("ended", u, g)' <=> Spot("ended", u, g) \/ (u = w /\ g = fd)
           /\ Spot("accepted", u, g)' <=> Spot("accepted", u, g)
      /\ \A u \in Worker : \A i \in 1 .. Len(cq'[u]) :
           \/ u = w /\ cq'[u][i] = e
           \/ \E j \in 1 .. Len(cq[u]) : cq'[u][i] = cq[u][j]
  <2>1. ~Spot("ended", w, fd) /\ ~Spot("accepted", w, fd)
    BY <1>6 DEF Kind
  <2>2. /\ \A g \in Fd : IsAbout(e, g) \/ Arrived(e, g) => g = fd
        /\ e.type = "ACCEPT" => ~AcceptIn(cq[w])
        /\ cq'[w] = Append(cq[w], e) /\ \A u \in Worker \ {w} : cq'[u] = cq[u]
    BY <1>1, <1>2
  <2>3. UringInv /\ Alive /\ e \in Completion
    BY <1>1
  <2>4. /\ \A u \in Worker : Once(cq'[u]) /\ OneAccept(cq'[u])
        /\ \A u \in Worker : AcceptIn(cq'[u]) <=> AcceptIn(cq[u]) \/ (u = w /\ e.type = "ACCEPT")
        /\ \A u \in Worker, g \in Fd :
             /\ Spot("ended", u, g)' <=> Spot("ended", u, g) \/ (u = w /\ IsAbout(e, g))
             /\ Spot("accepted", u, g)' <=> Spot("accepted", u, g) \/ (u = w /\ Arrived(e, g))
        /\ \A u \in Worker : \A i \in 1 .. Len(cq'[u]) :
             \/ u = w /\ cq'[u][i] = e
             \/ \E j \in 1 .. Len(cq[u]) : cq'[u][i] = cq[u][j]
    BY ONLY w \in Worker, fd \in Fd, <2>1, <2>2, <2>3, Arrives
  <2> QED
    BY <1>1, <2>4
\* Nothing is asked about fd now, and the rest is as it was.
<1>8. /\ \A u \in Worker, s \in Request : IsAbout(s, fd) => Out(s, u)' = 0
      /\ \A u \in Worker, s \in Request, g \in Fd \ {fd} : IsAbout(s, g) => Out(s, u)' = Out(s, u)
      /\ \A u \in Worker : Out(AcceptReq, u)' = Out(AcceptReq, u)
  <2>1. ASSUME NEW u \in Worker, NEW s \in Request, IsAbout(s, fd) PROVE Out(s, u)' = 0
    <3>1. CASE u = w /\ s = r
      <4>1. Out(r, w) = 1
        BY <1>2, <1>3, <2>1, <3>1 DEF Single
      <4> QED
        BY <1>2, <3>1, <4>1
    <3>2. CASE u = w /\ s # r
      <4>1. ~(Out(s, w) > 0)
        BY <1>2, <1>3, <2>1, <3>2 DEF Single
      <4>2. Out(s, w) \in Nat /\ Out(s, w)' = Out(s, w) - 0
        BY <1>2, <3>2
      <4> QED
        BY <3>2, <4>1, <4>2
    <3>3. CASE u # w
      <4>1. ~Spot("request", u, fd)
        BY <1>6, <3>3 DEF Kind
      <4>2. ~(Out(s, u) > 0)
        BY <2>1, <4>1 DEF Spot
      <4>3. Out(s, u) \in Nat /\ Out(s, u)' = Out(s, u) - 0
        BY <1>2, <3>3
      <4> QED
        BY <4>2, <4>3
    <3> QED
      BY <3>1, <3>2, <3>3
  <2>2. \A u \in Worker : \A s : s # r => Out(s, u)' = Out(s, u)
    BY <1>2
  <2>3. \A u \in Worker : Out(AcceptReq, u)' = Out(AcceptReq, u)
    BY <1>1, <2>2
  <2>4. \A u \in Worker, s \in Request, g \in Fd \ {fd} : IsAbout(s, g) => Out(s, u)' = Out(s, u)
    BY <1>1, <2>2
  <2> QED
    BY <2>1, <2>3, <2>4
<1>9. Shift(fd, "request", w, "ended", w)
  <2>1. \A u \in Worker, g \in Fd : Spot("request", u, g)' <=> Spot("request", u, g) /\ ~(u = w /\ g = fd)
    <3> TAKE u \in Worker, g \in Fd
    <3>1. CASE g = fd
      <4>1. ~Spot("request", u, fd)'
        BY <1>8 DEF Spot
      <4>2. Spot("request", u, fd) => u = w
        BY <1>6 DEF Kind
      <4> QED
        BY <3>1, <4>1, <4>2
    <3>2. CASE g # fd
      BY <1>8, <3>2 DEF Spot
    <3> QED
      BY <3>1, <3>2
  <2>2. \A u \in Worker, g \in Fd : /\ Spot("listed", u, g)' <=> Spot("listed", u, g)
                                    /\ Spot("closing", u, g)' <=> Spot("closing", u, g)
    BY <1>2 DEF Spot
  <2>3. \A u \in Worker, g \in Fd :
           /\ Spot("ended", u, g)' <=> Spot("ended", u, g) \/ (u = w /\ g = fd)
           /\ Spot("accepted", u, g)' <=> Spot("accepted", u, g)
    BY <1>7
  <2> QED
    BY <2>1, <2>2, <2>3, ShiftIs
<1>10. \A g \in Fd : Unique(g)'
  <2>1. sock[fd] # NULL /\ conns[fd] # NULL
    BY <1>3, <1>5 DEF Unique, Kind, Connected
  <2>2. UNCHANGED <<sock, conns>> /\ "request" \in Kind /\ "ended" \in Kind
    BY <1>2 DEF kernel, Kind
  <2>3. \A g \in Fd, u \in Worker : Spot("closing", u, g) => (pc'[u] = "close" <=> pc[u] = "close")
    BY <1>2
  <2> QED
    BY <1>3, <1>5, <1>9, <2>1, <2>2, <2>3, ShiftKeeps
<1>11. ASSUME NEW u \in Worker PROVE Single(u)'
  <2>1. ASSUME NEW s \in Request, NEW q \in Request, NEW g \in Fd,
               IsAbout(s, g), IsAbout(q, g), Out(s, u)' > 0, Out(q, u)' > 0
        PROVE  s = q /\ Out(s, u)' = 1
    <3>1. g # fd
      BY <1>8, <2>1
    <3> QED
      BY <1>3, <1>8, <2>1, <3>1 DEF Single
  <2>2. Distinct(incoming'[u]) /\ (closing'[u] # NULL <=> pc'[u] \in {"close", "closed"})
    BY <1>2, <1>3 DEF Single
  <2> QED
    BY <1>7, <2>1, <2>2 DEF Single
<1>12. ASSUME NEW u \in Worker PROVE Accepting(u)'
  BY <1>3, <1>7, <1>8 DEF Accepting
<1>13. ASSUME NEW u \in Worker PROVE Lens(u)'
  <2>1. \A s \in Request, g \in Fd \ {fd} : IsAbout(s, g) /\ Out(s, u)' > 0 => Out(s, u) > 0
    BY <1>8
  <2>2. \A i \in 1 .. Len(cq'[u]) : \A g \in Fd \ {fd} : IsAbout(cq'[u][i], g) =>
                \E j \in 1 .. Len(cq[u]) : cq'[u][i] = cq[u][j]
    BY <1>1, <1>7
  <2>3. \A s \in Request : IsAbout(s, fd) /\ Out(s, u)' > 0 => s.len = msg_size - conns'[fd]
    BY <1>8
  <2>4. ASSUME NEW i \in 1 .. Len(cq'[u]), IsAbout(cq'[u][i], fd)
        PROVE  cq'[u][i].res <= msg_size - conns'[fd]
    <3>1. cq'[u][i] = e
      <4>1. ~EndedIn(cq[u], fd)
        BY <1>6 DEF Spot, Kind
      <4> QED
        BY <1>7, <2>4, <4>1 DEF EndedIn
    <3>2. r.len = msg_size - conns[fd]
      BY <1>2, <1>3 DEF Lens
    <3> QED
      BY <1>1, <1>2, <3>1, <3>2
  <2>5. \A g \in Fd \ {fd} : conns'[g] = conns[g]
    BY <1>2
  <2> QED
    BY <1>3, <2>1, <2>2, <2>3, <2>4, <2>5, LensKeeps
<1> QED
  BY <1>2, <1>3, <1>4, <1>10, <1>11, <1>12, <1>13, AliveFits DEF Keeps, Own


\* The descriptor of an accepted connection is the least that is free.
LEMMA LeastElement ==
    ASSUME NEW S \in SUBSET Nat, S # {}
    PROVE  Min(S) \in S
<1> DEFINE less == OpToRel(<, Nat)
<1>1. IsWellFoundedOn(less, Nat)
  BY NatLessThanWellFounded
<1>2. \A i, j \in Nat : i < j => <<i, j>> \in less
  BY DEF OpToRel
<1> HIDE DEF less
<1>3. PICK x \in S : \A y \in S : ~(<<y, x>> \in less)
  <2>1. S \subseteq Nat /\ S # {}
    OBVIOUS
  <2> QED
    BY <1>1, <2>1, WFMin, Zenon
<1>4. \A y \in S : x =< y
  <2> TAKE y \in S
  <2>1. x \in Nat /\ y \in Nat
    OBVIOUS
  <2>2. ~(y < x)
    BY <1>2, <1>3, <2>1, Zenon
  <2> QED
    BY <2>1, <2>2
<1> QED
  BY <1>4 DEF Min

LEMMA MinOfTwo ==
    ASSUME NEW a \in Int, NEW b \in Int
    PROVE  Min({a, b}) = IF a <= b THEN a ELSE b
BY DEF Min

LEMMA AcceptsOne ==
    ASSUME UringInv, Alive, NEW w \in Worker, Accepts(w)
    PROVE  Keeps
<1>1. PICK fd : fd = Min(FreeFds)
  OBVIOUS
<1> DEFINE e == [type |-> "ACCEPT", on |-> NULL, res |-> fd]
<1>2. fd \in Fd /\ sock[fd] = NULL
  <2>1. FreeFds # {} /\ FreeFds \in SUBSET Nat
    BY Sizes DEF Accepts, FreeFds
  <2>2. fd \in FreeFds
    BY <1>1, <2>1, LeastElement
  <2> QED
    BY <2>2 DEF FreeFds
<1>3. PICK c \in backlog[w] :
        /\ Completed(w, AcceptReq, fd)
        /\ backlog' = [backlog EXCEPT ![w] = @ \ {c}]
        /\ sock' = [sock EXCEPT ![fd] = c]
        /\ UNCHANGED <<event_fd, client>>
  BY <1>1 DEF Accepts, AcceptReq
<1>4. /\ e \in Completion /\ e.type = "ACCEPT"
      /\ e = [type |-> AcceptReq.type, on |-> AcceptReq.on, res |-> fd]
      /\ \A g \in Fd : (Arrived(e, g) <=> g = fd) /\ ~IsAbout(e, g)
  BY <1>2 DEF Completion, IsAbout, Arrived, AcceptReq, Req
<1> HIDE DEF e
<1>5. /\ UNCHANGED <<conns, incoming, pc, closing, sq>> /\ Alive'
      /\ DOMAIN flight' = Worker
      /\ \A u \in Worker : IsABag(flight'[u]) /\ BagToSet(flight'[u]) \subseteq Request
      /\ Out(AcceptReq, w) > 0
      /\ \A u \in Worker : \A s : Out(s, u) \in Nat
      /\ \A u \in Worker : \A s : Out(s, u)' = Out(s, u) - IF s = AcceptReq /\ u = w THEN 1 ELSE 0
      /\ cq' \in [Worker -> Seq(Completion)]
      /\ cq'[w] = Append(cq[w], e)
      /\ \A u \in Worker \ {w} : cq'[u] = cq[u]
  BY <1>3, <1>4, Completes1
<1>6. TypeOK /\ Own /\ (\A g \in Fd : Unique(g)) /\ \A u \in Worker : Single(u) /\ Accepting(u) /\ Lens(u) /\ Fits(sq[u])
  BY DEF UringInv, Own
<1>7. c \in Client /\ sock' \in [Fd -> Client \cup {NULL}] /\ sock'[fd] # NULL
      /\ backlog' \in [Worker -> SUBSET Client]
      /\ \A g \in Fd \ {fd} : sock'[g] = sock[g]
  <2>1. /\ sock \in [Fd -> Client \cup {NULL}] /\ backlog \in [Worker -> SUBSET Client]
        /\ NULL \notin Client
    BY <1>6, Sizes DEF TypeOK
  <2> QED
    BY <1>2, <1>3, <2>1
<1>8. TypeOK'
  <2>1. /\ DOMAIN sq' = Worker
        /\ \A u \in Worker : \A b \in {sq'[u], flight'[u]} : IsABag(b) /\ BagToSet(b) \subseteq Request
    BY <1>5, <1>6 DEF TypeOK
  <2> QED
    BY <1>3, <1>5, <1>6, <1>7, <2>1 DEF TypeOK, client
<1>9. \A k \in Kind, u \in Worker : ~Spot(k, u, fd)
  BY <1>2, <1>6 DEF Unique
<1>10. Out(AcceptReq, w) = 1 /\ ~AcceptIn(cq[w])
  <2>1. Out(AcceptReq, w) \in Nat /\ Out(AcceptReq, w) > 0
    BY <1>5
  <2> QED
    BY <1>6, <2>1 DEF Accepting
<1>11. /\ \A u \in Worker : Once(cq'[u]) /\ OneAccept(cq'[u])
       /\ \A u \in Worker : AcceptIn(cq'[u]) <=> AcceptIn(cq[u]) \/ (u = w /\ e.type = "ACCEPT")
       /\ \A u \in Worker, g \in Fd :
            /\ Spot("ended", u, g)' <=> Spot("ended", u, g) \/ (u = w /\ IsAbout(e, g))
            /\ Spot("accepted", u, g)' <=> Spot("accepted", u, g) \/ (u = w /\ Arrived(e, g))
       /\ \A u \in Worker : \A i \in 1 .. Len(cq'[u]) :
            \/ u = w /\ cq'[u][i] = e
            \/ \E j \in 1 .. Len(cq[u]) : cq'[u][i] = cq[u][j]
  <2>1. ~Spot("ended", w, fd) /\ ~Spot("accepted", w, fd)
    BY <1>9 DEF Kind
  <2>2. /\ \A g \in Fd : IsAbout(e, g) \/ Arrived(e, g) => g = fd
        /\ e.type = "ACCEPT" => ~AcceptIn(cq[w])
        /\ cq'[w] = Append(cq[w], e) /\ \A u \in Worker \ {w} : cq'[u] = cq[u]
    BY <1>4, <1>5, <1>10
  <2>3. UringInv /\ Alive /\ e \in Completion /\ fd \in Fd
    BY <1>2, <1>4
  <2> QED
    BY ONLY w \in Worker, <2>1, <2>2, <2>3, Arrives
<1>12. \A u \in Worker : SameAsked(u)
  <2>1. \A r \in Request, g \in Fd : IsAbout(r, g) => r # AcceptReq
    BY Requests
  <2> QED
    BY <1>5, <2>1 DEF SameAsked
<1>13. Shift(fd, "none", w, "accepted", w)
  <2>1. \A u \in Worker, g \in Fd : /\ Spot("listed", u, g)' <=> Spot("listed", u, g)
                                    /\ Spot("closing", u, g)' <=> Spot("closing", u, g)
    BY <1>5 DEF Spot
  <2>2. \A u \in Worker, g \in Fd : Spot("request", u, g)' <=> Spot("request", u, g)
    BY <1>12, AsksSame
  <2>3. \A u \in Worker, g \in Fd :
            /\ Spot("ended", u, g)' <=> Spot("ended", u, g)
            /\ Spot("accepted", u, g)' <=> Spot("accepted", u, g) \/ (u = w /\ g = fd)
    BY <1>4, <1>11
  <2> QED
    BY <2>1, <2>2, <2>3, ShiftIs
<1>14. \A g \in Fd : Unique(g)'
  <2>1. conns'[fd] = NULL
    <3>1. \A u \in Worker : ~Connected(u, fd)
      BY <1>9 DEF Connected, Kind
    <3> QED
      BY <1>2, <1>5, <1>6, <3>1 DEF Unique
  <2>2. "accepted" \in Kind
    BY DEF Kind
  <2>3. \A g \in Fd, u \in Worker : Spot("closing", u, g) => (pc'[u] = "close" <=> pc[u] = "close")
    BY <1>5
  <2>4. \A g \in Fd \ {fd} : sock'[g] = sock[g] /\ conns'[g] = conns[g]
    BY <1>5, <1>7
  <2> QED
    BY <1>2, <1>6, <1>7, <1>13, <2>1, <2>2, <2>3, <2>4, ShiftKeeps
<1>15. ASSUME NEW u \in Worker PROVE Single(u)'
  <2>1. \A r, s \in Request, g \in Fd :
          IsAbout(r, g) /\ IsAbout(s, g) /\ Out(r, u)' > 0 /\ Out(s, u)' > 0 => r = s /\ Out(r, u)' = 1
    BY <1>6, <1>12, AsksSame
  <2>2. Distinct(incoming'[u]) /\ (closing'[u] # NULL <=> pc'[u] \in {"close", "closed"})
    BY <1>5, <1>6 DEF Single
  <2> QED
    BY <1>11, <2>1, <2>2 DEF Single
<1>16. ASSUME NEW u \in Worker PROVE Accepting(u)'
  <2>1. CASE u = w
    <3>1. Out(AcceptReq, w)' = 0
      BY <1>5, <1>10
    <3> QED
      BY <1>11, <2>1, <3>1 DEF Accepting
  <2>2. CASE u # w
    <3>1. Out(AcceptReq, u) \in Nat /\ Out(AcceptReq, u)' = Out(AcceptReq, u) - 0
      BY <1>5, <2>2
    <3> QED
      BY <1>6, <1>11, <2>2, <3>1 DEF Accepting
  <2> QED
    BY <2>1, <2>2
<1>17. ASSUME NEW u \in Worker PROVE Lens(u)'
  <2>1. \A s \in Request, g \in Fd : IsAbout(s, g) /\ Out(s, u)' > 0 => Out(s, u) > 0
    BY <1>12 DEF SameAsked
  <2>2. \A i \in 1 .. Len(cq'[u]) : \A g \in Fd : IsAbout(cq'[u][i], g) =>
                \E j \in 1 .. Len(cq[u]) : cq'[u][i] = cq[u][j]
    BY <1>4, <1>11
  <2>3. NULL \notin Fd /\ Lens(u) /\ \A g \in Fd : conns'[g] = conns[g]
    BY <1>5, <1>6, Sizes
  <2> QED
    BY <2>1, <2>2, <2>3, LensKeeps
<1> QED
  BY <1>5, <1>6, <1>8, <1>14, <1>15, <1>16, <1>17, AliveFits DEF Keeps, Own

\* Bytes come from a client, and go to it.
\* A read or a write of a socket ends, with no more bytes than it asked for.
LEMMA ReadsIs ==
    ASSUME UringInv, Alive, NEW w \in Worker, NEW fd \in Fd, Reads(w, fd)
    PROVE  \E r \in Request : \E m \in Int :
             /\ r.type = "SOCK_READ" /\ IsAbout(r, fd) /\ m <= r.len /\ Completed(w, r, m)
             /\ UNCHANGED <<kernel, cst, csent, echo>> /\ sread' \in [Client -> Nat]
<1>1. PICK r \in BagToSet(flight[w]) :
        LET c == sock[fd]
            n == Min({csent[c] - sread[c], r.len})
        IN  /\ r.type = "SOCK_READ" /\ r.on = fd
            /\ \/ \E m \in 1 .. n : Completed(w, r, m) /\ sread' = [sread EXCEPT ![c] = @ + m]
               \/ n = 0 /\ cst[c] = "shut" /\ Completed(w, r, 0) /\ UNCHANGED sread
               \/ cst[c] = "reset" /\ Completed(w, r, -1) /\ UNCHANGED sread
            /\ UNCHANGED <<kernel, cst, csent, echo>>
  BY DEF Reads
<1>2. /\ TypeOK /\ r \in Request /\ IsAbout(r, fd) /\ r.len \in 1 .. msg_size
      /\ sread \in [Client -> Nat] /\ echo' \in [Client -> Nat] /\ csent \in [Client -> Nat]
  <2>1. r \in Request /\ TypeOK
    BY OutIs DEF UringInv
  <2> QED
    BY <1>1, <2>1 DEF TypeOK, Request, IsAbout
<1>3. sock[fd] \in Client
  <2>1. Spot("request", w, fd)
    <3>1. Copies(r, flight[w]) > 0 /\ Copies(r, flight[w]) \in Nat /\ Copies(r, sq[w]) \in Nat
      BY <1>1, <1>2, OutIs
    <3> QED
      BY <1>2, <3>1 DEF Spot, Out
  <2>2. sock[fd] # NULL
    BY <2>1 DEF UringInv, Own, Unique, Kind
  <2> QED
    BY <1>2, <2>2 DEF TypeOK
<1>4. PICK m \in Int : /\ m <= r.len /\ Completed(w, r, m)
                       /\ \/ UNCHANGED sread
                          \/ m \in Nat /\ sread' = [sread EXCEPT ![sock[fd]] = @ + m]
  <2> DEFINE c == sock[fd]
             a == csent[c] - sread[c]
             n == Min({a, r.len})
  <2>1. CASE \E m \in 1 .. n : Completed(w, r, m) /\ sread' = [sread EXCEPT ![c] = @ + m]
    <3>1. a \in Int /\ r.len \in Int
      BY <1>2, <1>3
    <3> HIDE DEF a
    <3>2. n \in Int /\ n <= r.len
      BY <3>1, MinOfTwo
    <3> HIDE DEF n
    <3>3. PICK m \in 1 .. n : Completed(w, r, m) /\ sread' = [sread EXCEPT ![c] = @ + m]
      BY <2>1
    <3>4. m \in Int /\ m \in Nat /\ m <= r.len
      BY <1>2, <3>2
    <3> QED
      BY <3>3, <3>4
  <2>2. CASE Completed(w, r, 0) /\ UNCHANGED sread
    BY <1>2, <2>2
  <2>3. CASE Completed(w, r, -1) /\ UNCHANGED sread
    BY <1>2, <2>3
  <2> QED
    BY <1>1, <2>1, <2>2, <2>3
<1>5. sread' \in [Client -> Nat]
  BY <1>2, <1>3, <1>4
<1> QED
  BY <1>1, <1>2, <1>4, <1>5

LEMMA ReadsSome ==
    ASSUME UringInv, Alive, NEW w \in Worker, NEW fd \in Fd, Reads(w, fd)
    PROVE  Keeps
<1>1. PICK r \in Request : \E m \in Int :
        /\ r.type = "SOCK_READ" /\ IsAbout(r, fd) /\ m <= r.len /\ Completed(w, r, m)
        /\ UNCHANGED <<kernel, cst, csent, echo>> /\ sread' \in [Client -> Nat]
  BY ReadsIs
<1>2. echo' \in [Client -> Nat]
  BY <1>1 DEF UringInv, TypeOK
<1> QED
  BY <1>1, <1>2, Ends

LEMMA WritesIs ==
    ASSUME UringInv, Alive, NEW w \in Worker, NEW fd \in Fd, Writes(w, fd)
    PROVE  \E r \in Request : \E n \in Int :
             /\ r.type = "SOCK_WRITE" /\ IsAbout(r, fd) /\ n <= r.len /\ Completed(w, r, n)
             /\ UNCHANGED <<kernel, cst, csent, sread>> /\ echo' \in [Client -> Nat]
<1>1. PICK r \in BagToSet(flight[w]) :
        LET c == sock[fd]
        IN  /\ r.type = "SOCK_WRITE" /\ r.on = fd
            /\ \/ /\ cst[c] # "reset"
                  /\ \E n \in 1 .. r.len : Completed(w, r, n) /\ echo' = [echo EXCEPT ![c] = @ + n]
               \/ cst[c] = "reset" /\ Completed(w, r, -1) /\ UNCHANGED echo
            /\ UNCHANGED <<kernel, cst, csent, sread>>
  BY DEF Writes
<1>2. /\ TypeOK /\ r \in Request /\ IsAbout(r, fd) /\ r.len \in 1 .. msg_size
      /\ echo \in [Client -> Nat] /\ sread' \in [Client -> Nat]
  <2>1. r \in Request /\ TypeOK
    BY OutIs DEF UringInv
  <2> QED
    BY <1>1, <2>1 DEF TypeOK, Request, IsAbout
<1>3. PICK n \in Int : /\ n <= r.len /\ Completed(w, r, n)
                       /\ \/ UNCHANGED echo
                          \/ n \in Nat /\ echo' = [echo EXCEPT ![sock[fd]] = @ + n]
  <2>1. CASE \E n \in 1 .. r.len : Completed(w, r, n) /\ echo' = [echo EXCEPT ![sock[fd]] = @ + n]
    <3>1. PICK n \in 1 .. r.len : Completed(w, r, n) /\ echo' = [echo EXCEPT ![sock[fd]] = @ + n]
      BY <2>1
    <3>2. n \in Int /\ n \in Nat /\ n <= r.len
      BY <1>2
    <3> QED
      BY <3>1, <3>2
  <2>2. CASE Completed(w, r, -1) /\ UNCHANGED echo
    BY <1>2, <2>2
  <2> QED
    BY <1>1, <2>1, <2>2
<1>4. echo' \in [Client -> Nat]
  BY <1>2, <1>3
<1> QED
  BY <1>1, <1>2, <1>3, <1>4

LEMMA WritesSome ==
    ASSUME UringInv, Alive, NEW w \in Worker, NEW fd \in Fd, Writes(w, fd)
    PROVE  Keeps
<1>1. PICK r \in Request : \E n \in Int :
        /\ r.type = "SOCK_WRITE" /\ IsAbout(r, fd) /\ n <= r.len /\ Completed(w, r, n)
        /\ UNCHANGED <<kernel, cst, csent, sread>> /\ echo' \in [Client -> Nat]
  BY WritesIs
<1>2. sread' \in [Client -> Nat]
  BY <1>1 DEF UringInv, TypeOK
<1> QED
  BY <1>1, <1>2, Ends

LEMMA KernelStep ==
    ASSUME UringInv, Alive, NEW w \in Worker, Completes(w)
    PROVE  Keeps
<1>1. TypeOK /\ event_fd \in [Worker -> Nat]
  BY DEF UringInv, TypeOK
<1>2. CASE ReadsEvent(w)
  <2>1. EventReq \in Request /\ EventReq.type = "EV_READ"
    BY Requests DEF EventReq, Req
  <2>2. /\ Completed(w, EventReq, event_fd[w]) /\ event_fd[w] \in Nat
        /\ event_fd' \in [Worker -> Nat] /\ UNCHANGED <<sock, backlog, client>>
    BY <1>1, <1>2 DEF ReadsEvent, EventReq
  <2> QED
    BY <2>1, <2>2, EventCompleted
<1>3. ASSUME NEW owner \in Worker, WritesEvent(w, owner) PROVE Keeps
  <2>1. SignalReq(owner) \in Request /\ SignalReq(owner).type = "EV_WRITE"
    BY Requests DEF SignalReq, Req
  <2>2. /\ Completed(w, SignalReq(owner), 1) /\ 1 \in Nat
        /\ event_fd' \in [Worker -> Nat] /\ UNCHANGED <<sock, backlog, client>>
    BY <1>1, <1>3 DEF WritesEvent, SignalReq
  <2> QED
    BY <2>1, <2>2, EventCompleted
<1> QED
  BY <1>2, <1>3, AcceptsOne, ReadsSome, WritesSome DEF Completes

\* What the clients do changes nothing of the server.
LEMMA ClientStep ==
    ASSUME UringInv, Alive, NEW c \in Client,
           Send(c) \/ Leave(c) \/ \E w \in Reach[c] : Connect(c, w)
    PROVE  Keeps
<1>1. TypeOK /\ Own /\ MaxMsgs \in Nat /\ msg_size \in Nat
  BY Sizes DEF UringInv
<1>2. /\ UNCHANGED <<table, pc, closing, rings, event_fd, sock>> /\ UNCHANGED <<sread, echo>>
      /\ cst' \in [Client -> {"idle", "open", "shut", "reset"}]
      /\ csent' \in [Client -> Nat] /\ backlog' \in [Worker -> SUBSET Client]
  <2>1. CASE Send(c)
    BY <1>1, <2>1 DEF Send, TypeOK, kernel
  <2>2. CASE Leave(c)
    BY <1>1, <2>2 DEF Leave, TypeOK, kernel
  <2>3. CASE \E w \in Reach[c] : Connect(c, w)
    <3>1. PICK w \in Reach[c] : Connect(c, w)
      BY <2>3
    <3>2. /\ cst' = [cst EXCEPT ![c] = "open"]
          /\ backlog' = [backlog EXCEPT ![w] = @ \cup {c}]
          /\ UNCHANGED <<table, pc, closing, rings, event_fd, sock, csent, sread, echo>>
      BY <3>1 DEF Connect
    <3>3. /\ cst \in [Client -> {"idle", "open", "shut", "reset"}]
          /\ backlog \in [Worker -> SUBSET Client] /\ csent \in [Client -> Nat]
      BY <1>1 DEF TypeOK
    <3>4. backlog' \in [Worker -> SUBSET Client]
      BY <3>2, <3>3
    <3>5. cst' \in [Client -> {"idle", "open", "shut", "reset"}] /\ csent' \in [Client -> Nat]
      BY <3>2, <3>3
    <3> QED
      BY <3>2, <3>4, <3>5
  <2> QED
    BY <2>1, <2>2, <2>3
<1>3. TypeOK' /\ Alive'
  BY <1>1, <1>2 DEF TypeOK, Alive, table, rings
<1>4. UNCHANGED <<conns, sock, closing, incoming, pc, sq, flight, cq>>
  BY <1>2 DEF table, rings
<1>5. \A u \in Worker : /\ SameAsked(u) /\ Out(AcceptReq, u)' = Out(AcceptReq, u)
                        /\ Fits(sq'[u]) /\ Once(cq'[u]) /\ OneAccept(cq'[u])
  BY <1>1, <1>4 DEF SameAsked, Out, Own, Single, Accepting
<1> QED
  BY <1>3, <1>4, <1>5, Stays

LEMMA WorkerStep ==
    ASSUME UringInv, Alive, NEW w \in Worker, Step(w)
    PROVE  Keeps
<1>1. CASE OnEvWrite(w)
  <2>1. Handles(w, "EV_WRITE") /\ Goes(w, "handle") /\ UNCHANGED <<table, closing, sq>>
    BY <1>1 DEF OnEvWrite
  <2> QED
    BY <2>1, EventHandled
<1>2. CASE OnEvRead(w)
  <2>1. Handles(w, "EV_READ") /\ Goes(w, "drain") /\ UNCHANGED <<table, closing, sq>>
    BY <1>2 DEF OnEvRead
  <2> QED
    BY <2>1, EventHandled
<1> QED
  BY <1>1, <1>2, Accepts1, SockRead, SockWrite, Takes2, ClosesConnection, Submits DEF Step

LEMMA UringStep ==
    ASSUME UringInv, [Next]_vars
    PROVE  UringInv' /\ (SqeFits => SqeFits')
<1>1. CASE Next
  <2>1. Alive /\ Keeps
    BY <1>1, WorkerStep, KernelStep, ClientStep DEF Next
  <2> QED
    BY <2>1 DEF Keeps, UringInv
<1>2. CASE UNCHANGED vars
  <2>1. TypeOK' /\ (Alive' <=> Alive)
    BY <1>2 DEF UringInv, TypeOK, Alive, vars
  <2>2. ASSUME Alive PROVE Own'
    <3>1. Stay /\ \A u \in Worker : \A r : Out(r, u)' = Out(r, u)
      <4>1. \A u \in Worker : \A r : Out(r, u)' = Out(r, u)
        BY <1>2 DEF Out, vars
      <4>2. \A k, u, g : u \in Worker => (Spot(k, u, g)' <=> Spot(k, u, g))
        BY <1>2, <4>1 DEF Spot, vars
      <4> QED
        BY <4>1, <4>2 DEF Stay
    <3>2. /\ UNCHANGED <<conns, incoming, sock, closing, pc, cq, sq>>
          /\ \A u \in Worker : Single(u) /\ Accepting(u) /\ Lens(u) /\ Fits(sq[u])
          /\ \A g \in Fd : Unique(g)
      BY <1>2, <2>2 DEF vars, UringInv, Own
    <3>3. \A g \in Fd : Unique(g)'
      BY <3>1, <3>2, StayKeeps
    <3>4. \A u \in Worker : Single(u)' /\ Accepting(u)' /\ Lens(u)' /\ Fits(sq'[u])
      BY <3>1, <3>2 DEF Single, Accepting, Lens
    <3> QED
      BY <3>3, <3>4 DEF Own
  <2>3. SqeFits' <=> SqeFits
    BY <1>2 DEF SqeFits, vars
  <2> QED
    BY <2>1, <2>2, <2>3 DEF UringInv
<1> QED
  BY <1>1, <1>2

LEMMA UringInitial == Init => UringInv /\ Alive
<1> SUFFICES ASSUME Init PROVE UringInv /\ Alive
  OBVIOUS
<1>1. Alive
  BY DEF Init, Alive
<1>2. add_accept_request (+) add_read_event = SetToBag({AcceptReq, EventReq})
  BY TwoSingles DEF add_accept_request, add_read_event, AcceptReq, EventReq, Req
<1> DEFINE b == SetToBag({AcceptReq, EventReq})
<1>3. /\ IsABag(b) /\ BagToSet(b) \subseteq Request
      /\ \A r : Copies(r, b) = IF r \in {AcceptReq, EventReq} THEN 1 ELSE 0
  BY Singles, Requests
<1>4. Fits(b)
  <2>1. IsABag(EmptyBag) /\ Fits(EmptyBag)
    BY EmptyIs
  <2>2. EmptyBag (+) b = b
    BY DEF EmptyBag, SetToBag, (+)
  <2> QED
    BY <2>1, <2>2, FitsMore
<1> HIDE DEF b
<1>5. /\ sq = [w \in Worker |-> b] /\ flight = [w \in Worker |-> EmptyBag]
      /\ cq = [w \in Worker |-> <<>>] /\ incoming = [w \in Worker |-> <<>>]
      /\ closing = [w \in Worker |-> NULL] /\ pc = [w \in Worker |-> "handle"]
      /\ sock = [fd \in Fd |-> NULL] /\ conns = [fd \in Fd |-> NULL]
  BY <1>2 DEF Init, b
<1>6. TypeOK
  <2>1. \A w \in Worker : \A c \in {sq[w], flight[w]} : IsABag(c) /\ BagToSet(c) \subseteq Request
    BY <1>3, <1>5, EmptyIs
  <2> QED
    BY <1>5, <2>1 DEF Init, TypeOK
<1>7. \A w \in Worker : \A r : Out(r, w) = IF r \in {AcceptReq, EventReq} THEN 1 ELSE 0
  BY <1>3, <1>5, EmptyIs DEF Out
<1>8. \A r \in Request, g \in Fd : IsAbout(r, g) => r \notin {AcceptReq, EventReq}
  BY Requests
<1>9. \A k \in Kind, w \in Worker, g \in Fd : ~Spot(k, w, g)
  BY <1>5, <1>7, <1>8, Sizes DEF Spot, EndedIn, ArrivedIn, OnList
<1>10. \A g \in Fd : Unique(g)
  BY <1>5, <1>9 DEF Unique, Connected, Kind
<1>11. ASSUME NEW w \in Worker PROVE Single(w) /\ Lens(w) /\ Accepting(w) /\ Fits(sq[w])
  <2>1. Single(w)
    BY <1>5, <1>7, <1>8 DEF Single, Once, Distinct
  <2>2. Lens(w)
    BY <1>5, <1>7, <1>8 DEF Lens
  <2>3. Accepting(w)
    BY <1>5, <1>7 DEF Accepting, OneAccept, AcceptIn
  <2> QED
    BY <1>4, <1>5, <2>1, <2>2, <2>3
<1> QED
  BY <1>1, <1>6, <1>10, <1>11 DEF UringInv, Own


-----------------------------------------------------------------------------
(* The theorems *)

\* The variables of the io_uring server have their types, however long its queue is.
THEOREM UringTypeCorrect == Spec => []TypeOK
<1>1. Init => UringInv
  BY UringInitial
<1>2. UringInv /\ [Next]_vars => UringInv'
  BY UringStep
<1>3. UringInv => TypeOK
  BY DEF UringInv
<1> QED
  BY <1>1, <1>2, <1>3, PTL DEF Spec

\* With a queue of any length, io_uring_get_sqe finds no entry only for a worker that
\* queued requests for at least QUEUE_DEPTH / 2 - 1 connections since it last submitted
\* (iouring.c:62, 74, 85): fewer never overrun it.
THEOREM SqeFitsAlways == Spec => []SqeFits
<1>1. Init => UringInv /\ SqeFits
  BY UringInitial, AliveFits
<1>2. UringInv /\ SqeFits /\ [Next]_vars => (UringInv /\ SqeFits)'
  BY UringStep
<1> QED
  BY <1>1, <1>2, PTL DEF Spec

\* At most one thing, and when there is one.
LEMMA AtMostOne ==
    ASSUME NEW S, \A x, y \in S : x = y
    PROVE  /\ S = {} => Cardinality(S) = 0
           /\ S # {} => Cardinality(S) = 1
<1>1. ASSUME S # {} PROVE Cardinality(S) = 1
  <2>1. PICK x \in S : TRUE
    BY <1>1
  <2>2. S = {x}
    BY <2>1
  <2> QED
    BY <2>2, FS_Singleton
<1> QED
  BY <1>1, FS_EmptySet

\* The sets that OneOwner counts have one element where the descriptor is, and none
\* elsewhere.
LEMMA Counted ==
    ASSUME TypeOK, Own, NEW fd \in Fd
    PROVE  /\ Cardinality(Requested(fd)) = IF \E w \in Worker : Spot("request", w, fd) THEN 1 ELSE 0
           /\ Cardinality(Ended(fd))     = IF \E w \in Worker : Spot("ended", w, fd) THEN 1 ELSE 0
           /\ Cardinality(Accepted(fd))  = IF \E w \in Worker : Spot("accepted", w, fd) THEN 1 ELSE 0
           /\ Cardinality(Listed(fd))    = IF \E w \in Worker : Spot("listed", w, fd) THEN 1 ELSE 0
           /\ Cardinality(Closing(fd))   = IF \E w \in Worker : Spot("closing", w, fd) THEN 1 ELSE 0
           /\ Requested(fd) # {} <=> \E w \in Worker : Spot("request", w, fd)
           /\ Ended(fd) # {} <=> \E w \in Worker : Spot("ended", w, fd)
<1>1. \A k \in Kind, v, w \in Worker : Spot(k, v, fd) /\ Spot(k, w, fd) => v = w
  BY DEF Own, Unique
<1>2. \A w \in Worker : /\ Len(cq[w]) \in Nat /\ DOMAIN cq[w] = 1 .. Len(cq[w])
                        /\ DOMAIN incoming[w] = 1 .. Len(incoming[w])
  <2>1. \A w \in Worker : cq[w] \in Seq(Completion) /\ incoming[w] \in Seq(Fd)
    BY DEF TypeOK
  <2>2. \A S : \A q \in Seq(S) : Len(q) \in Nat /\ DOMAIN q = 1 .. Len(q)
    OBVIOUS
  <2> QED
    BY <2>1, <2>2
<1>3. \A x \in Queued : \E w \in Worker : \E j \in 1 .. Len(cq[w]) : x = <<w, j>>
  BY <1>2 DEF Queued
<1>4. \A w \in Worker : \A j \in 1 .. Len(cq[w]) : <<w, j>> \in Queued
  BY <1>2 DEF Queued
<1>5. /\ \A x, y \in Requested(fd) : x = y
      /\ Requested(fd) # {} <=> \E w \in Worker : Spot("request", w, fd)
  <2>1. \A w \in Worker : \A r, n : <<r, n>> \in Entries(Asked(w)) <=> n \in 1 .. Out(r, w)
    BY OutIs, EntriesOf
  <2>2. \A w \in Worker : \A r : Out(r, w) \in Nat /\ (Out(r, w) > 0 => r \in Request)
    BY OutIs
  <2>3. \A w \in Worker : \A z \in Entries(Asked(w)) : z = <<z[1], z[2]>>
    BY DEF Entries
  <2>4. ASSUME NEW x \in Requested(fd)
        PROVE  /\ x = <<x[1], <<x[2][1], x[2][2]>>>> /\ x[1] \in Worker
               /\ x[2][1] \in Request /\ IsAbout(x[2][1], fd) /\ Out(x[2][1], x[1]) > 0
               /\ x[2][2] \in 1 .. Out(x[2][1], x[1])
    <3>1. PICK w \in Worker : x \in {w} \X Entries(Asked(w)) /\ IsAbout(x[2][1], fd)
      BY DEF Requested
    <3>2. x = <<w, x[2]>> /\ x[1] = w /\ x[2] \in Entries(Asked(w))
      BY <3>1
    <3>3. x[2] = <<x[2][1], x[2][2]>>
      BY <2>3, <3>2
    <3>4. x[2][2] \in 1 .. Out(x[2][1], w)
      BY <2>1, <3>2, <3>3
    <3>5. Out(x[2][1], w) > 0
      BY <2>2, <3>4
    <3> QED
      BY <2>2, <3>1, <3>2, <3>3, <3>4, <3>5
  <2>5. ASSUME NEW x \in Requested(fd), NEW y \in Requested(fd) PROVE x = y
    <3>1. Spot("request", x[1], fd) /\ Spot("request", y[1], fd) /\ "request" \in Kind
      BY <2>4 DEF Spot, Kind
    <3>2. x[1] = y[1]
      BY <1>1, <2>4, <3>1
    <3>3. x[2][1] = y[2][1] /\ Out(x[2][1], x[1]) = 1
      BY <2>4, <3>2 DEF Own, Single
    <3>4. x[2][2] = 1 /\ y[2][2] = 1
      BY <2>4, <3>2, <3>3
    <3> QED
      BY <2>4, <3>2, <3>3, <3>4
  <2>6. ASSUME NEW w \in Worker, Spot("request", w, fd) PROVE Requested(fd) # {}
    <3>1. PICK r \in Request : IsAbout(r, fd) /\ Out(r, w) > 0
      BY <2>6 DEF Spot
    <3>2. <<r, 1>> \in Entries(Asked(w))
      BY <2>1, <2>2, <3>1
    <3>3. <<w, <<r, 1>>>> \in Requested(fd)
      BY <3>1, <3>2 DEF Requested
    <3> QED
      BY <3>3
  <2>7. \A x \in Requested(fd) : x[1] \in Worker /\ Spot("request", x[1], fd)
    BY <2>4 DEF Spot
  <2> QED
    BY <2>5, <2>6, <2>7
<1>6. /\ \A x, y \in Ended(fd) : x = y
      /\ Ended(fd) # {} <=> \E w \in Worker : Spot("ended", w, fd)
  <2>1. ASSUME NEW x \in Ended(fd)
        PROVE  \E w \in Worker : \E j \in 1 .. Len(cq[w]) : x = <<w, j>> /\ IsAbout(cq[w][j], fd) /\ Spot("ended", w, fd)
    <3>0. PICK w \in Worker : \E j \in 1 .. Len(cq[w]) : x = <<w, j>>
      BY <1>3 DEF Ended
    <3>1. PICK j \in 1 .. Len(cq[w]) : x = <<w, j>>
      BY <3>0
    <3>2. IsAbout(cq[w][j], fd)
      BY <3>1 DEF Ended
    <3> QED
      BY <3>1, <3>2 DEF Spot, EndedIn
  <2>2. "ended" \in Kind /\ \A w \in Worker : Once(cq[w])
    BY DEF Kind, Own, Single
  <2>3. ASSUME NEW x \in Ended(fd), NEW y \in Ended(fd) PROVE x = y
    BY <1>1, <2>1, <2>2 DEF Once
  <2>4. \A w \in Worker : \A j \in 1 .. Len(cq[w]) : IsAbout(cq[w][j], fd) => <<w, j>> \in Ended(fd)
    BY <1>4 DEF Ended
  <2> QED
    BY <2>1, <2>3, <2>4 DEF Spot, EndedIn
<1>7. /\ \A x, y \in Accepted(fd) : x = y
      /\ Accepted(fd) # {} <=> \E w \in Worker : Spot("accepted", w, fd)
  <2>1. ASSUME NEW x \in Accepted(fd)
        PROVE  \E w \in Worker : \E j \in 1 .. Len(cq[w]) : x = <<w, j>> /\ Arrived(cq[w][j], fd) /\ Spot("accepted", w, fd)
    <3>0. PICK w \in Worker : \E j \in 1 .. Len(cq[w]) : x = <<w, j>>
      BY <1>3 DEF Accepted
    <3>1. PICK j \in 1 .. Len(cq[w]) : x = <<w, j>>
      BY <3>0
    <3>2. Arrived(cq[w][j], fd)
      BY <3>1 DEF Accepted, Arrived
    <3> QED
      BY <3>1, <3>2 DEF Spot, ArrivedIn
  <2>2. "accepted" \in Kind /\ \A w \in Worker : Once(cq[w])
    BY DEF Kind, Own, Single
  <2>3. ASSUME NEW x \in Accepted(fd), NEW y \in Accepted(fd) PROVE x = y
    BY <1>1, <2>1, <2>2 DEF Once
  <2>4. \A w \in Worker : \A j \in 1 .. Len(cq[w]) : Arrived(cq[w][j], fd) => <<w, j>> \in Accepted(fd)
    BY <1>4 DEF Accepted, Arrived
  <2> QED
    BY <2>1, <2>3, <2>4 DEF Spot, ArrivedIn
<1>8. /\ \A x, y \in Listed(fd) : x = y
      /\ Listed(fd) # {} <=> \E w \in Worker : Spot("listed", w, fd)
  <2>1. ASSUME NEW x \in Listed(fd)
        PROVE  \E w \in Worker : \E j \in 1 .. Len(incoming[w]) :
                 x = <<w, j>> /\ incoming[w][j] = fd /\ Spot("listed", w, fd)
    <3>0. PICK w \in Worker : \E j \in 1 .. Len(incoming[w]) : x = <<w, j>>
      BY <1>2 DEF Listed
    <3>1. PICK j \in 1 .. Len(incoming[w]) : x = <<w, j>>
      BY <3>0
    <3>2. incoming[w][j] = fd
      BY <3>1 DEF Listed
    <3> QED
      BY <3>1, <3>2 DEF Spot, OnList
  <2>2. "listed" \in Kind /\ \A w \in Worker : Distinct(incoming[w])
    BY DEF Kind, Own, Single
  <2>3. ASSUME NEW x \in Listed(fd), NEW y \in Listed(fd) PROVE x = y
    BY <1>1, <2>1, <2>2 DEF Distinct
  <2>4. \A w \in Worker : \A j \in 1 .. Len(incoming[w]) : incoming[w][j] = fd => <<w, j>> \in Listed(fd)
    BY <1>2 DEF Listed
  <2> QED
    BY <2>1, <2>3, <2>4 DEF Spot, OnList
<1>9. /\ \A x, y \in Closing(fd) : x = y
      /\ Closing(fd) # {} <=> \E w \in Worker : Spot("closing", w, fd)
  <2>1. \A w \in Worker : w \in Closing(fd) <=> Spot("closing", w, fd)
    BY DEF Closing, Spot
  <2>2. "closing" \in Kind /\ Closing(fd) \subseteq Worker
    BY DEF Kind, Closing
  <2> QED
    BY <1>1, <2>1, <2>2
<1> QED
  BY <1>5, <1>6, <1>7, <1>8, <1>9, AtMostOne

LEMMA OwnIsOneOwner == UringInv => OneOwner
<1> SUFFICES ASSUME TypeOK, Alive, Own, NEW fd \in Fd
             PROVE  /\ Cardinality(Requested(fd)) + Cardinality(Ended(fd)) + Cardinality(Accepted(fd))
                         + Cardinality(Listed(fd)) + Cardinality(Closing(fd))
                         = (IF sock[fd] = NULL THEN 0 ELSE 1)
                    /\ conns[fd] # NULL <=> \/ Requested(fd) \cup Ended(fd) # {}
                                            \/ \E w \in Closing(fd) : pc[w] = "close"
  BY DEF OneOwner, UringInv
<1> DEFINE In(k) == \E w \in Worker : Spot(k, w, fd)
<1>1. /\ \A k, l \in Kind : In(k) /\ In(l) => k = l
      /\ sock[fd] # NULL <=> \E k \in Kind : In(k)
  BY DEF Own, Unique
<1>2. conns[fd] # NULL <=> \E w \in Worker : Connected(w, fd)
  BY DEF Own, Unique
<1>3. /\ Cardinality(Requested(fd)) = IF In("request") THEN 1 ELSE 0
      /\ Cardinality(Ended(fd))     = IF In("ended") THEN 1 ELSE 0
      /\ Cardinality(Accepted(fd))  = IF In("accepted") THEN 1 ELSE 0
      /\ Cardinality(Listed(fd))    = IF In("listed") THEN 1 ELSE 0
      /\ Cardinality(Closing(fd))   = IF In("closing") THEN 1 ELSE 0
      /\ Requested(fd) # {} <=> In("request")
      /\ Ended(fd) # {} <=> In("ended")
  BY Counted
<1>4. (\E w \in Worker : Connected(w, fd)) <=>
        In("request") \/ In("ended") \/ \E w \in Closing(fd) : pc[w] = "close"
  BY DEF Connected, Closing, Spot
<1> HIDE DEF In
<1>5. /\ sock[fd] # NULL <=> In("request") \/ In("ended") \/ In("accepted") \/ In("listed") \/ In("closing")
      /\ In("request") => ~In("ended") /\ ~In("accepted") /\ ~In("listed") /\ ~In("closing")
      /\ In("ended") => ~In("accepted") /\ ~In("listed") /\ ~In("closing")
      /\ In("accepted") => ~In("listed") /\ ~In("closing")
      /\ In("listed") => ~In("closing")
  BY <1>1 DEF Kind
<1>6. Cardinality(Requested(fd)) + Cardinality(Ended(fd)) + Cardinality(Accepted(fd))
        + Cardinality(Listed(fd)) + Cardinality(Closing(fd)) = (IF sock[fd] = NULL THEN 0 ELSE 1)
  BY <1>3, <1>5
<1>7. Requested(fd) \cup Ended(fd) # {} <=> In("request") \/ In("ended")
  BY <1>3
<1> QED
  BY <1>2, <1>4, <1>6, <1>7

\* With a queue of any length, as long as the process runs an open descriptor is in one
\* place and has a connection exactly while requests are made for it: no completion
\* meets the connection of a later client of its descriptor, or none
\* (iouring.c:97-108, 231-339).
THEOREM OneOwnerAlways == Spec => []OneOwner
<1>1. Init => UringInv
  BY UringInitial
<1>2. UringInv /\ [Next]_vars => UringInv'
  BY UringStep
<1> QED
  BY <1>1, <1>2, OwnIsOneOwner, PTL DEF Spec


-----------------------------------------------------------------------------
(* The hand-over of connections is that of WakeUps *)

\* What WakeUps sees of worker w.
ToTake(w)  == Len(incoming[w])
Sent(w)    == event_fd[w] + Cardinality(Signals(w))
Armed(w)   == Out(EventReq, w)
Woken(w)   == Cardinality(Fired(cq[w]))
At(w)      == IF pc[w] = "drain" THEN "list" ELSE "events"

Moves(w) == [Hand(w)!WakeNext]_(Hand(w)!wvars)

LEMMA ArmedIs ==
    ASSUME TypeOK, TypeOK', NEW w \in Worker
    PROVE  /\ Copies(Req("EV_READ", NULL, 0), Asked(w)) = Armed(w)
           /\ Copies(Req("EV_READ", NULL, 0), Asked(w))' = Armed(w)'
<1>1. Copies(EventReq, Asked(w)) = Armed(w)
  BY OutIs DEF Armed
<1>2. IsABag(sq'[w]) /\ IsABag(flight'[w])
  BY DEF TypeOK
<1>3. Copies(EventReq, Asked(w)') = Armed(w)'
  BY <1>2, BagPlus DEF Asked, Out, Armed
<1> QED
  BY <1>1, <1>3 DEF EventReq, Copies

LEMMA MovesIs ==
    ASSUME TypeOK, TypeOK', NEW w \in Worker,
           \/ /\ ToTake(w)' = ToTake(w) + 1 /\ Sent(w)' = Sent(w) + 1
              /\ Armed(w)' = Armed(w) /\ Woken(w)' = Woken(w) /\ At(w)' = At(w)
           \/ /\ Armed(w) > 0 /\ \E n \in 1 .. Sent(w) : Sent(w)' = Sent(w) - n
              /\ Armed(w)' = Armed(w) - 1 /\ Woken(w)' = Woken(w) + 1
              /\ ToTake(w)' = ToTake(w) /\ At(w)' = At(w)
           \/ /\ At(w) = "events" /\ Woken(w) > 0
              /\ Woken(w)' = Woken(w) - 1 /\ At(w)' = "list"
              /\ ToTake(w)' = ToTake(w) /\ Sent(w)' = Sent(w) /\ Armed(w)' = Armed(w)
           \/ /\ At(w) = "list" /\ ToTake(w) > 0
              /\ ToTake(w)' = ToTake(w) - 1 /\ Armed(w)' = Armed(w) + 1
              /\ Sent(w)' = Sent(w) /\ Woken(w)' = Woken(w) /\ At(w)' = At(w)
           \/ /\ At(w) = "list" /\ ToTake(w) = 0 /\ At(w)' = "events"
              /\ ToTake(w)' = ToTake(w) /\ Sent(w)' = Sent(w) /\ Armed(w)' = Armed(w)
              /\ Woken(w)' = Woken(w)
           \/ /\ ToTake(w)' = ToTake(w) /\ Sent(w)' = Sent(w) /\ Armed(w)' = Armed(w)
              /\ Woken(w)' = Woken(w) /\ At(w)' = At(w)
    PROVE  Moves(w)
<1>1. /\ Copies(Req("EV_READ", NULL, 0), Asked(w)) = Armed(w)
      /\ Copies(Req("EV_READ", NULL, 0), Asked(w))' = Armed(w)'
  BY ArmedIs
<1> USE DEF ToTake, Sent, Woken, At
<1> HIDE DEF Armed
<1> QED
  BY <1>1 DEF Moves, Hand!WakeNext, Hand!wvars, Hand!Push, Hand!Fire, Hand!Wake, Hand!Take, Hand!Emptied


\* The signals of w under way, when one more is asked for, or one is written.
Finite == \A w \in Worker : IsFiniteSet(Signals(w))

LEMMA SignalsIs ==
    ASSUME TypeOK, NEW w \in Worker
    PROVE  \A x : x \in Signals(w) <=>
             \E v \in Worker : \E k \in 1 .. Out(SignalReq(w), v) : x = <<v, k>>
<1>1. \A v \in Worker : Copies(Req("EV_WRITE", w, 0), Asked(v)) = Out(SignalReq(w), v)
  BY OutIs DEF SignalReq
<1> QED
  BY <1>1 DEF Signals

LEMMA SignalsStay ==
    ASSUME TypeOK, TypeOK', NEW w \in Worker, IsFiniteSet(Signals(w)),
           \A v \in Worker : Out(SignalReq(w), v)' = Out(SignalReq(w), v)
    PROVE  Signals(w)' = Signals(w)
<1>1. \A v \in Worker : Copies(Req("EV_WRITE", w, 0), Asked(v)) = Out(SignalReq(w), v)
  BY OutIs DEF SignalReq
<1>2. \A v \in Worker : Copies(Req("EV_WRITE", w, 0), Asked(v)') = Out(SignalReq(w), v)'
  <2> TAKE v \in Worker
  <2>1. IsABag(sq'[v]) /\ IsABag(flight'[v])
    BY DEF TypeOK
  <2> QED
    BY <2>1, BagPlus DEF Asked, Out, SignalReq
<1>3. \A v \in Worker : Copies(Req("EV_WRITE", w, 0), Asked(v))' = Copies(Req("EV_WRITE", w, 0), Asked(v))
  BY <1>1, <1>2 DEF Copies
<1> QED
  BY <1>3 DEF Signals


LEMMA SignalsMore ==
    ASSUME TypeOK, TypeOK', NEW w \in Worker, NEW v \in Worker, IsFiniteSet(Signals(w)),
           \A u \in Worker : Out(SignalReq(w), u)' = Out(SignalReq(w), u) + IF u = v THEN 1 ELSE 0
    PROVE  /\ IsFiniteSet(Signals(w)') /\ Cardinality(Signals(w)) \in Nat
           /\ Cardinality(Signals(w)') = Cardinality(Signals(w)) + 1
<1> DEFINE n == Out(SignalReq(w), v)
           y == <<v, n + 1>>
<1>1. \A x : x \in Signals(w) <=>
        \E u \in Worker : \E k \in 1 .. Out(SignalReq(w), u) : x = <<u, k>>
  BY SignalsIs
<1>2. \A x : x \in Signals(w)' <=>
        \E u \in Worker : \E k \in 1 .. Out(SignalReq(w), u)' : x = <<u, k>>
  <2>1. \A u \in Worker : Copies(Req("EV_WRITE", w, 0), Asked(u)') = Out(SignalReq(w), u)'
    <3> TAKE u \in Worker
    <3>1. IsABag(sq'[u]) /\ IsABag(flight'[u])
      BY DEF TypeOK
    <3> QED
      BY <3>1, BagPlus DEF Asked, Out, SignalReq
  <2>2. \A u \in Worker : Copies(Req("EV_WRITE", w, 0), Asked(u))' = Out(SignalReq(w), u)'
    BY <2>1 DEF Copies
  <2> QED
    BY <2>2 DEF Signals
<1>3. \A u \in Worker : Out(SignalReq(w), u) \in Nat
  BY OutIs
<1>4. n \in Nat /\ y \notin Signals(w)
  BY <1>1, <1>3
<1>5. \A x : x \in Signals(w)' <=> x \in Signals(w) \cup {y}
  <2>1. ASSUME NEW u \in Worker, NEW k
        PROVE  k \in 1 .. Out(SignalReq(w), u)' <=>
                 k \in 1 .. Out(SignalReq(w), u) \/ (u = v /\ k = n + 1)
    <3>1. CASE u = v
      <4>1. Out(SignalReq(w), u)' = n + 1 /\ Out(SignalReq(w), u) = n
        BY <3>1
      <4>2. \A m \in Nat : k \in 1 .. m + 1 <=> k \in 1 .. m \/ k = m + 1
        OBVIOUS
      <4> QED
        BY <1>4, <3>1, <4>1, <4>2
    <3>2. CASE u # v
      <4>1. Out(SignalReq(w), u) \in Nat /\ Out(SignalReq(w), u)' = Out(SignalReq(w), u) + 0
        BY <1>3, <3>2
      <4> QED
        BY <3>2, <4>1
    <3> QED
      BY <3>1, <3>2
  <2> QED
    BY <1>1, <1>2, <2>1
<1> HIDE DEF y
<1>6. Signals(w)' = Signals(w) \cup {y}
  BY <1>5
<1> QED
  BY <1>4, <1>6, FS_AddElement, FS_CardinalityType

LEMMA SignalsLess ==
    ASSUME TypeOK, TypeOK', NEW w \in Worker, NEW v \in Worker, IsFiniteSet(Signals(w)),
           Out(SignalReq(w), v) > 0,
           \A u \in Worker : Out(SignalReq(w), u)' = Out(SignalReq(w), u) - IF u = v THEN 1 ELSE 0
    PROVE  /\ IsFiniteSet(Signals(w)') /\ Cardinality(Signals(w)) \in Nat
           /\ Cardinality(Signals(w)') \in Nat
           /\ Cardinality(Signals(w)) = Cardinality(Signals(w)') + 1
<1> DEFINE n == Out(SignalReq(w), v)
           y == <<v, n>>
<1>1. \A x : x \in Signals(w) <=>
        \E u \in Worker : \E k \in 1 .. Out(SignalReq(w), u) : x = <<u, k>>
  BY SignalsIs
<1>2. \A x : x \in Signals(w)' <=>
        \E u \in Worker : \E k \in 1 .. Out(SignalReq(w), u)' : x = <<u, k>>
  <2>1. \A u \in Worker : Copies(Req("EV_WRITE", w, 0), Asked(u)') = Out(SignalReq(w), u)'
    <3> TAKE u \in Worker
    <3>1. IsABag(sq'[u]) /\ IsABag(flight'[u])
      BY DEF TypeOK
    <3> QED
      BY <3>1, BagPlus DEF Asked, Out, SignalReq
  <2>2. \A u \in Worker : Copies(Req("EV_WRITE", w, 0), Asked(u))' = Out(SignalReq(w), u)'
    BY <2>1 DEF Copies
  <2> QED
    BY <2>2 DEF Signals
<1>3. \A u \in Worker : Out(SignalReq(w), u) \in Nat
  BY OutIs
<1>4. n \in Nat /\ n > 0 /\ y \in Signals(w)
  <2>1. n \in Nat /\ n > 0 /\ n \in 1 .. n
    BY <1>3
  <2> QED
    BY <1>1, <2>1
<1>5. \A x : x \in Signals(w)' <=> x \in Signals(w) \ {y}
  <2>1. ASSUME NEW u \in Worker, NEW k
        PROVE  k \in 1 .. Out(SignalReq(w), u)' <=>
                 k \in 1 .. Out(SignalReq(w), u) /\ ~(u = v /\ k = n)
    <3>1. CASE u = v
      <4>1. Out(SignalReq(w), u)' = n - 1 /\ Out(SignalReq(w), u) = n
        BY <3>1
      <4>2. \A m \in Nat : k \in 1 .. m - 1 <=> k \in 1 .. m /\ k # m
        OBVIOUS
      <4> QED
        BY <1>4, <3>1, <4>1, <4>2
    <3>2. CASE u # v
      <4>1. Out(SignalReq(w), u) \in Nat /\ Out(SignalReq(w), u)' = Out(SignalReq(w), u) - 0
        BY <1>3, <3>2
      <4> QED
        BY <3>2, <4>1
    <3> QED
      BY <3>1, <3>2
  <2> QED
    BY <1>1, <1>2, <2>1
<1> HIDE DEF y
<1>6. Signals(w)' = Signals(w) \ {y}
  BY <1>5
<1>7. /\ IsFiniteSet(Signals(w)') /\ Cardinality(Signals(w)') = Cardinality(Signals(w)) - 1
      /\ Cardinality(Signals(w)) \in Nat
  BY <1>4, <1>6, FS_RemoveElement, FS_CardinalityType
<1>8. Cardinality(Signals(w)') \in Nat
  BY <1>7, FS_CardinalityType
<1> QED
  BY <1>7, <1>8


\* Nothing that WakeUps sees of u changes.
Still(u) ==
    /\ Len(incoming'[u]) = Len(incoming[u]) /\ event_fd'[u] = event_fd[u]
    /\ Out(EventReq, u)' = Out(EventReq, u)
    /\ \A v \in Worker : Out(SignalReq(u), v)' = Out(SignalReq(u), v)
    /\ Cardinality(Fired(cq'[u])) = Cardinality(Fired(cq[u]))
    /\ pc'[u] = "drain" <=> pc[u] = "drain"
HandsOn == Finite' /\ \A u \in Worker : Moves(u)

LEMMA StillMoves ==
    ASSUME TypeOK, TypeOK', Finite, NEW u \in Worker, Still(u)
    PROVE  IsFiniteSet(Signals(u))' /\ Moves(u)
<1>1. IsFiniteSet(Signals(u)) /\ Signals(u)' = Signals(u)
  BY SignalsStay DEF Finite, Still
<1>2. /\ ToTake(u)' = ToTake(u) /\ Armed(u)' = Armed(u)
      /\ Woken(u)' = Woken(u) /\ At(u)' = At(u)
  BY DEF Still, ToTake, Armed, Woken, At
<1>3. Sent(u)' = Sent(u)
  BY <1>1 DEF Still, Sent
<1>4. Moves(u)
  BY <1>2, <1>3, MovesIs
<1> QED
  BY <1>1, <1>4

\* What a step of w that handles a completion leaves to see.
LEMMA HandlesFired ==
    ASSUME TypeOK, NEW w \in Worker, NEW t, Handles(w, t)
    PROVE  /\ \A u \in Worker : Cardinality(Fired(cq[u])) \in Nat
           /\ \A u \in Worker : Cardinality(Fired(cq'[u])) =
                Cardinality(Fired(cq[u])) - IF u = w /\ t = "EV_READ" THEN 1 ELSE 0
           /\ pc[w] # "drain" /\ UNCHANGED <<event_fd, flight>>
           /\ t = "EV_READ" => Cardinality(Fired(cq[w])) > 0
<1>1. /\ pc[w] \in {"wait", "handle"} /\ UNCHANGED <<flight, kernel>>
      /\ cq[w] \in Seq(Completion) /\ cq[w] # <<>>
      /\ Head(cq[w]).type = t /\ cq'[w] = Tail(cq[w])
      /\ \A v \in Worker \ {w} : cq'[v] = cq[v]
  BY HandlesIs
<1>2. \A u \in Worker : Cardinality(Fired(cq[u])) \in Nat
  <2> TAKE u \in Worker
  <2>1. cq[u] \in Seq(Completion)
    BY DEF TypeOK
  <2>2. IsFiniteSet(DOMAIN cq[u]) /\ Fired(cq[u]) \in SUBSET DOMAIN cq[u]
    <3>1. DOMAIN cq[u] = 1 .. Len(cq[u]) /\ Len(cq[u]) \in Nat
      BY <2>1
    <3>2. 1 \in Int /\ Len(cq[u]) \in Int
      BY <3>1
    <3> QED
      BY <3>1, <3>2, FS_Interval DEF Fired
  <2> QED
    BY <2>2, FS_Subset, FS_CardinalityType
<1>3. /\ IsFiniteSet(Fired(cq'[w]))
      /\ Cardinality(Fired(cq'[w])) = Cardinality(Fired(cq[w])) - IF t = "EV_READ" THEN 1 ELSE 0
  BY <1>1, FiredTail
<1>4. t = "EV_READ" => Cardinality(Fired(cq[w])) > 0
  <2>1. Cardinality(Fired(cq'[w])) \in Nat
    BY <1>3, FS_CardinalityType
  <2> QED
    BY <1>2, <1>3, <2>1
<1>5. ASSUME NEW u \in Worker
      PROVE  Cardinality(Fired(cq'[u])) =
               Cardinality(Fired(cq[u])) - IF u = w /\ t = "EV_READ" THEN 1 ELSE 0
  BY <1>1, <1>2, <1>3
<1> QED
  BY <1>1, <1>2, <1>4, <1>5 DEF kernel

LEMMA QueuesOut ==
    ASSUME TypeOK, NEW w \in Worker, NEW D \in SUBSET Request, NEW p \in {"handle", "drain"},
           Queues(w, SetToBag(D), p), Alive', UNCHANGED flight
    PROVE  /\ pc'[w] = p /\ \A u \in Worker \ {w} : pc'[u] = pc[u]
           /\ \A u \in Worker : \A r :
                /\ Out(r, u) \in Nat
                /\ Out(r, u)' = Out(r, u) + IF u = w /\ r \in D THEN 1 ELSE 0
<1>1. p # "segv" /\ pc'[w] # "segv"
  BY DEF Alive
<1>2. /\ pc' = [pc EXCEPT ![w] = p]
      /\ \A v \in Worker : \A r : Copies(r, sq'[v]) =
           Copies(r, sq[v]) + IF v = w /\ r \in D THEN 1 ELSE 0
  BY <1>1, QueuesIs
<1>3. \A u \in Worker : \A r : /\ Copies(r, sq[u]) \in Nat /\ Copies(r, flight[u]) \in Nat
                               /\ Out(r, u) \in Nat
  BY OutIs
<1>4. ASSUME NEW u \in Worker, NEW r
      PROVE  Out(r, u)' = Out(r, u) + IF u = w /\ r \in D THEN 1 ELSE 0
  <2>1. Copies(r, flight'[u]) = Copies(r, flight[u])
    OBVIOUS
  <2>2. Copies(r, sq'[u]) = Copies(r, sq[u]) + IF u = w /\ r \in D THEN 1 ELSE 0
    BY <1>2
  <2>3. /\ Out(r, u) = Copies(r, sq[u]) + Copies(r, flight[u])
        /\ Out(r, u)' = Copies(r, sq'[u]) + Copies(r, flight'[u])
    BY DEF Out, Copies
  <2> HIDE DEF Out, Copies
  <2> QED
    BY <1>3, <2>1, <2>2, <2>3
<1> QED
  BY <1>2, <1>3, <1>4 DEF TypeOK


LEMMA AllStill ==
    ASSUME TypeOK, TypeOK', Finite, \A u \in Worker : Still(u)
    PROVE  HandsOn
BY StillMoves DEF HandsOn, Finite

\* Requests that are not for an eventfd.
Others == { r \in Request : r.type \notin {"EV_READ", "EV_WRITE"} }

LEMMA OthersAre ==
    /\ AcceptReq \in Others /\ EventReq \notin Others
    /\ \A u : SignalReq(u) \notin Others
    /\ \A fd \in Fd, n \in 1 .. msg_size, t \in {"SOCK_READ", "SOCK_WRITE"} : Req(t, fd, n) \in Others
BY DEF Others, AcceptReq, EventReq, SignalReq, Req, Request

\* A completion is handled that is not of the eventfd's read, and no request is
\* made for an eventfd.
LEMMA HandledOn ==
    ASSUME TypeOK, TypeOK', Finite, Alive', NEW w \in Worker, NEW t, t # "EV_READ", Handles(w, t),
           NEW D \in SUBSET Others, NEW p, p # "drain",
           \/ Queues(w, SetToBag(D), p) /\ p = "handle"
           \/ Goes(w, p) /\ UNCHANGED sq,
           \A u \in Worker : Len(incoming'[u]) = Len(incoming[u])
    PROVE  HandsOn
<1>1. /\ \A u \in Worker : Cardinality(Fired(cq[u])) \in Nat
      /\ \A u \in Worker : Cardinality(Fired(cq'[u])) = Cardinality(Fired(cq[u])) - 0
      /\ pc[w] # "drain" /\ UNCHANGED <<event_fd, flight>>
  BY HandlesFired
<1>2. \A u \in Worker : Cardinality(Fired(cq'[u])) = Cardinality(Fired(cq[u]))
  BY <1>1
<1>3. /\ pc'[w] = p /\ \A u \in Worker \ {w} : pc'[u] = pc[u]
      /\ \A u \in Worker : \A r : r \notin D => Out(r, u)' = Out(r, u)
  <2>1. CASE Queues(w, SetToBag(D), p) /\ p = "handle"
    <3>1. D \in SUBSET Request
      BY DEF Others
    <3>2. /\ pc'[w] = p /\ \A u \in Worker \ {w} : pc'[u] = pc[u]
          /\ \A u \in Worker : \A r :
               /\ Out(r, u) \in Nat
               /\ Out(r, u)' = Out(r, u) + IF u = w /\ r \in D THEN 1 ELSE 0
      BY <1>1, <2>1, <3>1, QueuesOut
    <3> QED
      BY <3>2
  <2>2. CASE Goes(w, p) /\ UNCHANGED sq
    BY <1>1, <2>2 DEF Goes, TypeOK, Out
  <2> QED
    BY <2>1, <2>2
<1>4. EventReq \notin D /\ \A u : SignalReq(u) \notin D
  BY OthersAre
<1>5. \A u \in Worker : Still(u)
  BY <1>1, <1>2, <1>3, <1>4 DEF Still
<1> QED
  BY <1>5, AllStill

\* The same for a request that the kernel completes.
LEMMA CompletedOn ==
    ASSUME UringInv, TypeOK', Finite, NEW w \in Worker, NEW r \in Others, NEW res, Completed(w, r, res),
           [type |-> r.type, on |-> r.on, res |-> res] \in Completion, UNCHANGED event_fd
    PROVE  HandsOn
<1> DEFINE e == [type |-> r.type, on |-> r.on, res |-> res]
<1>1. e \in Completion /\ e.type # "EV_READ"
  BY DEF Others
<1>2. /\ UNCHANGED <<incoming, pc>>
      /\ \A u \in Worker : \A s : Out(s, u) \in Nat
      /\ \A u \in Worker : \A s : Out(s, u)' = Out(s, u) - IF s = r /\ u = w THEN 1 ELSE 0
      /\ cq[w] \in Seq(Completion) /\ cq'[w] = Append(cq[w], e)
      /\ \A u \in Worker \ {w} : cq'[u] = cq[u]
  BY <1>1, Completes1
<1> HIDE DEF e
<1>3. \A u \in Worker : Cardinality(Fired(cq'[u])) = Cardinality(Fired(cq[u]))
  <2>1. Cardinality(Fired(cq'[w])) = Cardinality(Fired(cq[w]))
    BY <1>1, <1>2, FiredAppend
  <2> QED
    BY <1>2, <2>1
<1>4. \A u \in Worker : \A s : s # r => Out(s, u)' = Out(s, u)
  BY <1>2
<1>5. EventReq # r /\ \A u : SignalReq(u) # r
  BY OthersAre
<1>6. \A u \in Worker : Still(u)
  BY <1>2, <1>3, <1>4, <1>5 DEF Still
<1> QED
  BY <1>6, AllStill DEF UringInv


\* The parts of a connection's life that do not touch the hand-over.
LEMMA SocketOn ==
    ASSUME UringInv, Alive, TypeOK', Alive', Finite, NEW w \in Worker,
           OnSockRead(w) \/ OnSockWrite(w)
    PROVE  HandsOn
<1> DEFINE e == Head(cq[w])
           n == conns[e.on] + e.res
<1>1. PICK t \in {"SOCK_READ", "SOCK_WRITE"} :
        /\ Handles(w, t) /\ UNCHANGED incoming
        /\ \/ e.res <= 0 /\ Goes(w, "close") /\ UNCHANGED sq
           \/ /\ ~(e.res <= 0)
              /\ \E s \in {"SOCK_READ", "SOCK_WRITE"} :
                   \/ n = msg_size /\ Queues(w, SetToBag({Req(s, e.on, msg_size)}), "handle")
                   \/ n # msg_size /\ Queues(w, SetToBag({Req(s, e.on, msg_size - n)}), "handle")
  <2>1. CASE OnSockRead(w)
    BY <2>1 DEF OnSockRead, Closes, table, add_read_request, add_write_request
  <2>2. CASE OnSockWrite(w)
    BY <2>2 DEF OnSockWrite, Closes, table, add_read_request, add_write_request
  <2> QED
    BY <2>1, <2>2
<1>2. TypeOK /\ t # "EV_READ" /\ \A u \in Worker : Len(incoming'[u]) = Len(incoming[u])
  BY <1>1 DEF UringInv
<1>3. CASE e.res <= 0 /\ Goes(w, "close") /\ UNCHANGED sq
  <2>1. {} \in SUBSET Others /\ "close" # "drain"
    OBVIOUS
  <2> QED
    BY <1>1, <1>2, <1>3, <2>1, HandledOn
<1>4. ASSUME ~(e.res <= 0), NEW s \in {"SOCK_READ", "SOCK_WRITE"},
             \/ n = msg_size /\ Queues(w, SetToBag({Req(s, e.on, msg_size)}), "handle")
             \/ n # msg_size /\ Queues(w, SetToBag({Req(s, e.on, msg_size - n)}), "handle")
      PROVE  HandsOn
  <2>1. /\ e.on \in Fd /\ conns[e.on] \in 0 .. msg_size - 1
        /\ e.res \in Int /\ e.res <= msg_size - conns[e.on]
    <3>1. UringInv /\ Alive /\ t \in {"SOCK_READ", "SOCK_WRITE"} /\ Handles(w, t)
      BY <1>1
    <3> QED
      BY ONLY w \in Worker, <3>1, EndedIs DEF e
  <2>2. PICK len \in 1 .. msg_size : Queues(w, SetToBag({Req(s, e.on, len)}), "handle")
    <3>1. msg_size \in 1 .. msg_size /\ (n # msg_size => msg_size - n \in 1 .. msg_size)
      BY <1>4, <2>1, Sizes
    <3> QED
      BY <1>4, <3>1
  <2>3. {Req(s, e.on, len)} \in SUBSET Others /\ "handle" # "drain"
    BY <2>1, OthersAre
  <2> QED
    BY <1>1, <1>2, <2>2, <2>3, HandledOn
<1> QED
  BY <1>1, <1>3, <1>4

\* A worker takes no completion: it closes, or submits.
LEMMA QuietOn ==
    ASSUME UringInv, Alive, TypeOK', Finite, NEW w \in Worker, on_close(w) \/ Submit(w)
    PROVE  HandsOn
<1>1. TypeOK
  BY DEF UringInv
<1>2. CASE on_close(w)
  <2>1. /\ \/ pc[w] = "close" /\ Goes(w, "closed")
           \/ pc[w] = "closed" /\ Goes(w, "handle")
        /\ UNCHANGED <<incoming, sq, flight, cq, event_fd>>
    BY <1>2 DEF on_close, Undo, rings
  <2>2. \A u \in Worker : pc'[u] = "drain" <=> pc[u] = "drain"
    BY <1>1, <2>1 DEF Goes, TypeOK
  <2>3. \A u \in Worker : Still(u)
    BY <2>1, <2>2 DEF Still, Out
  <2> QED
    BY <1>1, <2>3, AllStill
<1>3. CASE Submit(w)
  <2>1. \A u \in Worker : \A r : Out(r, u)' = Out(r, u)
    BY <1>3, Submits
  <2>2. pc[w] = "handle" /\ Goes(w, "wait") /\ UNCHANGED <<incoming, cq, event_fd>>
    BY <1>3 DEF Submit, table, kernel
  <2>3. \A u \in Worker : pc'[u] = "drain" <=> pc[u] = "drain"
    BY <1>1, <2>2 DEF Goes, TypeOK
  <2>4. \A u \in Worker : Still(u)
    BY <2>1, <2>2, <2>3 DEF Still
  <2> QED
    BY <1>1, <2>4, AllStill
<1> QED
  BY <1>2, <1>3

\* A read of w's eventfd has ended: w is going to empty its list.
LEMMA WakesOn ==
    ASSUME UringInv, TypeOK', Finite, NEW w \in Worker, OnEvRead(w)
    PROVE  HandsOn
<1>1. /\ TypeOK /\ Handles(w, "EV_READ") /\ Goes(w, "drain")
      /\ UNCHANGED <<incoming, sq>>
  BY DEF UringInv, OnEvRead, table
<1>2. /\ \A u \in Worker : Cardinality(Fired(cq[u])) \in Nat
      /\ \A u \in Worker : Cardinality(Fired(cq'[u])) =
           Cardinality(Fired(cq[u])) - IF u = w /\ "EV_READ" = "EV_READ" THEN 1 ELSE 0
      /\ pc[w] # "drain" /\ UNCHANGED <<event_fd, flight>>
      /\ Cardinality(Fired(cq[w])) > 0
  BY <1>1, HandlesFired
<1>3. pc'[w] = "drain" /\ \A u \in Worker \ {w} : pc'[u] = pc[u]
  BY <1>1 DEF Goes, TypeOK
<1>4. \A u \in Worker : \A r : Out(r, u)' = Out(r, u)
  BY <1>1, <1>2 DEF Out
<1>5. \A u \in Worker : Signals(u)' = Signals(u)
  BY <1>1, <1>4, SignalsStay DEF Finite
<1>6. Moves(w)
  <2>1. /\ At(w) = "events" /\ Woken(w) > 0 /\ Woken(w)' = Woken(w) - 1 /\ At(w)' = "list"
        /\ ToTake(w)' = ToTake(w)
    BY <1>1, <1>2, <1>3 DEF At, Woken, ToTake
  <2>2. Sent(w)' = Sent(w) /\ Armed(w)' = Armed(w)
    BY <1>2, <1>4, <1>5 DEF Sent, Armed
  <2> QED
    BY <1>1, <2>1, <2>2, MovesIs
<1>7. ASSUME NEW u \in Worker \ {w} PROVE Moves(u)
  <2>1. Still(u)
    BY <1>1, <1>2, <1>3, <1>4, <1>7 DEF Still
  <2> QED
    BY <1>1, <2>1, StillMoves
<1>8. Finite'
  BY <1>5 DEF Finite
<1> QED
  BY <1>6, <1>7, <1>8 DEF HandsOn


\* A worker that empties its list takes one connection, or is done.
LEMMA TakesOn ==
    ASSUME UringInv, TypeOK', Alive', Finite, NEW w \in Worker, TakeNew(w)
    PROVE  HandsOn
<1> DEFINE fd == Head(incoming[w])
           D  == {Req("SOCK_READ", fd, msg_size), EventReq}
<1>1. /\ TypeOK /\ pc[w] = "drain" /\ UNCHANGED <<flight, cq, event_fd>>
      /\ incoming \in [Worker -> Seq(Fd)]
      /\ \/ incoming[w] = <<>> /\ Goes(w, "handle") /\ UNCHANGED <<incoming, sq>>
         \/ /\ incoming[w] # <<>> /\ incoming' = [incoming EXCEPT ![w] = Tail(@)]
            /\ Queues(w, add_read_request(fd, msg_size) (+) add_read_event, "drain")
  BY DEF UringInv, TypeOK, TakeNew, Takes, table, kernel
<1>2. incoming[w] \in Seq(Fd)
  BY <1>1
<1>3. CASE incoming[w] = <<>> /\ Goes(w, "handle") /\ UNCHANGED <<incoming, sq>>
  <2>1. pc'[w] = "handle" /\ \A u \in Worker \ {w} : pc'[u] = pc[u]
    BY <1>1, <1>3 DEF Goes, TypeOK
  <2>2. \A u \in Worker : \A r : Out(r, u)' = Out(r, u)
    BY <1>1, <1>3 DEF Out
  <2>3. \A u \in Worker : Signals(u)' = Signals(u)
    BY <1>1, <2>2, SignalsStay DEF Finite
  <2>4. Moves(w)
    <3>1. /\ At(w) = "list" /\ ToTake(w) = 0 /\ At(w)' = "events"
          /\ ToTake(w)' = ToTake(w) /\ Woken(w)' = Woken(w)
      BY <1>1, <1>3, <2>1 DEF At, ToTake, Woken
    <3>2. Sent(w)' = Sent(w) /\ Armed(w)' = Armed(w)
      BY <1>1, <2>2, <2>3 DEF Sent, Armed
    <3> QED
      BY <1>1, <3>1, <3>2, MovesIs
  <2>5. ASSUME NEW u \in Worker \ {w} PROVE Moves(u)
    <3>1. Still(u)
      BY <1>1, <1>3, <2>1, <2>2, <2>5 DEF Still
    <3> QED
      BY <1>1, <3>1, StillMoves
  <2>6. Finite'
    BY <2>3 DEF Finite
  <2> QED
    BY <2>4, <2>5, <2>6 DEF HandsOn
<1>4. CASE /\ incoming[w] # <<>> /\ incoming' = [incoming EXCEPT ![w] = Tail(@)]
           /\ Queues(w, add_read_request(fd, msg_size) (+) add_read_event, "drain")
  <2>1. /\ fd \in Fd /\ Len(Tail(incoming[w])) = Len(incoming[w]) - 1 /\ Len(incoming[w]) > 0
    BY <1>2, <1>4, TailOf
  <2>2. /\ Req("SOCK_READ", fd, msg_size) \in Others /\ D \in SUBSET Request
        /\ EventReq \in D /\ \A u : SignalReq(u) \notin D
    <3>1. Req("SOCK_READ", fd, msg_size) \in Others /\ EventReq \in Request
      <4>1. msg_size \in 1 .. msg_size /\ "SOCK_READ" \in {"SOCK_READ", "SOCK_WRITE"}
        BY Sizes
      <4>2. Req("SOCK_READ", fd, msg_size) \in Others
        BY ONLY <2>1, <4>1, OthersAre
      <4> QED
        BY <4>2, Requests
    <3>2. \A u : SignalReq(u) \notin Others /\ SignalReq(u) # EventReq
      BY OthersAre DEF SignalReq, EventReq, Req
    <3> QED
      BY <3>1, <3>2 DEF Others
  <2>3. Queues(w, SetToBag(D), "drain")
    <3>1. Req("SOCK_READ", fd, msg_size) # EventReq
      BY <2>2, OthersAre
    <3> QED
      BY <1>4, <3>1, TwoSingles DEF add_read_request, add_read_event, EventReq
  <2> HIDE DEF D
  <2>4. /\ pc'[w] = "drain" /\ \A u \in Worker \ {w} : pc'[u] = pc[u]
        /\ \A u \in Worker : \A r :
             /\ Out(r, u) \in Nat
             /\ Out(r, u)' = Out(r, u) + IF u = w /\ r \in D THEN 1 ELSE 0
    BY <1>1, <2>2, <2>3, QueuesOut
  <2>5. /\ \A u, v \in Worker : Out(SignalReq(u), v)' = Out(SignalReq(u), v)
        /\ \A u \in Worker \ {w} : Out(EventReq, u)' = Out(EventReq, u)
        /\ Out(EventReq, w)' = Out(EventReq, w) + 1
    BY <2>2, <2>4
  <2>6. \A u \in Worker : Signals(u)' = Signals(u)
    BY <1>1, <2>5, SignalsStay DEF Finite
  <2>7. Moves(w)
    <3>1. /\ At(w) = "list" /\ ToTake(w) > 0 /\ ToTake(w)' = ToTake(w) - 1
          /\ At(w)' = At(w) /\ Woken(w)' = Woken(w)
      BY <1>1, <1>4, <2>1, <2>4 DEF At, ToTake, Woken
    <3>2. Sent(w)' = Sent(w) /\ Armed(w)' = Armed(w) + 1
      BY <1>1, <2>5, <2>6 DEF Sent, Armed
    <3> QED
      BY <1>1, <3>1, <3>2, MovesIs
  <2>8. ASSUME NEW u \in Worker \ {w} PROVE Moves(u)
    <3>1. Still(u)
      BY <1>1, <1>4, <2>4, <2>5, <2>8 DEF Still
    <3> QED
      BY <1>1, <3>1, StillMoves
  <2>9. Finite'
    BY <2>6 DEF Finite
  <2> QED
    BY <2>7, <2>8, <2>9 DEF HandsOn
<1> QED
  BY <1>1, <1>3, <1>4

\* A connection is put on the list of its worker, which is going to be signalled.
LEMMA PushesOn ==
    ASSUME UringInv, TypeOK', Alive', Finite, NEW w \in Worker, NEW owner \in Worker \ {w},
           Handles(w, "ACCEPT"), NEW fd, incoming' = [incoming EXCEPT ![owner] = <<fd>> \o @],
           fd \in Fd, Queues(w, SetToBag({SignalReq(owner), AcceptReq}), "handle")
    PROVE  HandsOn
<1> DEFINE D == {SignalReq(owner), AcceptReq}
<1>1. TypeOK /\ incoming \in [Worker -> Seq(Fd)]
  BY DEF UringInv, TypeOK
<1>2. /\ \A u \in Worker : Cardinality(Fired(cq[u])) \in Nat
      /\ \A u \in Worker : Cardinality(Fired(cq'[u])) = Cardinality(Fired(cq[u])) - 0
      /\ pc[w] # "drain" /\ UNCHANGED <<event_fd, flight>>
  <2>1. "ACCEPT" # "EV_READ"
    OBVIOUS
  <2> QED
    BY <1>1, <2>1, HandlesFired
<1>3. \A u \in Worker : Cardinality(Fired(cq'[u])) = Cardinality(Fired(cq[u]))
  BY <1>2
<1>4. /\ D \in SUBSET Request /\ EventReq \notin D
      /\ \A u \in Worker : SignalReq(u) \in D <=> u = owner
  <2>1. \A u, v : SignalReq(u) = SignalReq(v) => u = v
    BY DEF SignalReq, Req
  <2> QED
    BY <2>1, Requests, OthersAre DEF SignalReq, EventReq, Req
<1> HIDE DEF D
<1>5. /\ pc'[w] = "handle" /\ \A u \in Worker \ {w} : pc'[u] = pc[u]
      /\ \A u \in Worker : \A r :
           /\ Out(r, u) \in Nat
           /\ Out(r, u)' = Out(r, u) + IF u = w /\ r \in D THEN 1 ELSE 0
  <2>1. "handle" \in {"handle", "drain"} /\ Queues(w, SetToBag(D), "handle")
    BY DEF D
  <2> QED
    BY <1>1, <1>2, <1>4, <2>1, QueuesOut
<1>6. /\ \A u \in Worker : Out(EventReq, u)' = Out(EventReq, u)
      /\ \A u \in Worker \ {owner} : \A v \in Worker : Out(SignalReq(u), v)' = Out(SignalReq(u), v)
      /\ \A v \in Worker : Out(SignalReq(owner), v)' = Out(SignalReq(owner), v) + IF v = w THEN 1 ELSE 0
  BY <1>4, <1>5
<1>7. /\ Len(incoming'[owner]) = Len(incoming[owner]) + 1
      /\ \A u \in Worker \ {owner} : incoming'[u] = incoming[u]
  <2>1. incoming[owner] \in Seq(Fd)
    BY <1>1
  <2>2. Len(<<fd>> \o incoming[owner]) = Len(incoming[owner]) + 1
    BY <2>1, PushOf
  <2> QED
    BY <1>1, <2>2
<1>8. \A u \in Worker : pc'[u] = "drain" <=> pc[u] = "drain"
  BY <1>2, <1>5
<1>9. /\ IsFiniteSet(Signals(owner)') /\ Cardinality(Signals(owner)) \in Nat
      /\ Cardinality(Signals(owner)') = Cardinality(Signals(owner)) + 1
  BY <1>1, <1>6, SignalsMore DEF Finite
<1>10. Moves(owner)
  <2>1. event_fd[owner] \in Nat /\ event_fd'[owner] = event_fd[owner]
    BY <1>1, <1>2 DEF TypeOK
  <2>2. Sent(owner)' = Sent(owner) + 1
    BY <1>9, <2>1 DEF Sent
  <2>3. /\ ToTake(owner)' = ToTake(owner) + 1 /\ Armed(owner)' = Armed(owner)
        /\ Woken(owner)' = Woken(owner) /\ At(owner)' = At(owner)
    BY <1>3, <1>6, <1>7, <1>8 DEF ToTake, Armed, Woken, At
  <2> QED
    BY <1>1, <2>2, <2>3, MovesIs
<1>11. ASSUME NEW u \in Worker \ {owner} PROVE IsFiniteSet(Signals(u))' /\ Moves(u)
  <2>1. Still(u)
    BY <1>2, <1>3, <1>6, <1>7, <1>8, <1>11 DEF Still
  <2> QED
    BY <1>1, <2>1, StillMoves
<1>12. Finite'
  BY <1>9, <1>11 DEF Finite
<1> QED
  BY <1>10, <1>11, <1>12 DEF HandsOn


\* A read of w's eventfd ends, with all that was written to it.
LEMMA FiresOn ==
    ASSUME UringInv, Alive, TypeOK', Finite, NEW w \in Worker, ReadsEvent(w)
    PROVE  HandsOn
<1> DEFINE n == event_fd[w]
           e == [type |-> "EV_READ", on |-> NULL, res |-> n]
<1>1. /\ TypeOK /\ n \in Nat /\ n > 0 /\ Completed(w, EventReq, n)
      /\ event_fd' = [event_fd EXCEPT ![w] = 0] /\ event_fd \in [Worker -> Nat]
  BY DEF UringInv, TypeOK, ReadsEvent, EventReq
<1>2. /\ e = [type |-> EventReq.type, on |-> EventReq.on, res |-> n]
      /\ e \in Completion /\ e.type = "EV_READ"
  BY <1>1 DEF EventReq, Req, Completion
<1> HIDE DEF e
<1>3. /\ UNCHANGED <<incoming, pc>>
      /\ \A u \in Worker : \A s : Out(s, u) \in Nat
      /\ Out(EventReq, w) > 0
      /\ \A u \in Worker : \A s : Out(s, u)' = Out(s, u) - IF s = EventReq /\ u = w THEN 1 ELSE 0
      /\ cq[w] \in Seq(Completion) /\ cq'[w] = Append(cq[w], e)
      /\ \A u \in Worker \ {w} : cq'[u] = cq[u]
  BY <1>1, <1>2, Completes1
<1>4. \A u : SignalReq(u) # EventReq
  BY DEF SignalReq, EventReq, Req
<1>5. /\ \A u, v \in Worker : Out(SignalReq(u), v)' = Out(SignalReq(u), v)
      /\ \A u \in Worker \ {w} : Out(EventReq, u)' = Out(EventReq, u)
      /\ Out(EventReq, w)' = Out(EventReq, w) - 1
  BY <1>3, <1>4
<1>6. \A u \in Worker : Signals(u)' = Signals(u)
  BY <1>1, <1>5, SignalsStay DEF Finite
<1>7. Cardinality(Fired(cq'[w])) = Cardinality(Fired(cq[w])) + 1
  BY <1>2, <1>3, FiredAppend
<1>8. Moves(w)
  <2>1. Cardinality(Signals(w)) \in Nat
    BY FS_CardinalityType DEF Finite
  <2>2. event_fd'[w] = 0
    BY <1>1
  <2>3. Sent(w)' = Sent(w) - n /\ n \in 1 .. Sent(w)
    BY <1>1, <1>6, <2>1, <2>2 DEF Sent
  <2>4. Armed(w) > 0 /\ Armed(w)' = Armed(w) - 1 /\ Woken(w)' = Woken(w) + 1
    BY <1>3, <1>5, <1>7 DEF Armed, Woken
  <2>5. ToTake(w)' = ToTake(w) /\ At(w)' = At(w)
    BY <1>3 DEF ToTake, At
  <2> QED
    BY <1>1, <2>3, <2>4, <2>5, MovesIs
<1>9. ASSUME NEW u \in Worker \ {w} PROVE Moves(u)
  <2>1. event_fd'[u] = event_fd[u]
    BY <1>1
  <2>2. Still(u)
    BY <1>3, <1>5, <1>9, <2>1 DEF Still
  <2> QED
    BY <1>1, <2>2, StillMoves
<1>10. Finite'
  BY <1>6 DEF Finite
<1> QED
  BY <1>8, <1>9, <1>10 DEF HandsOn

\* A signal is written: it was under way, now it is in the counter.
LEMMA SignalsOn ==
    ASSUME UringInv, Alive, TypeOK', Finite, NEW w \in Worker, NEW owner \in Worker,
           WritesEvent(w, owner)
    PROVE  HandsOn
<1> DEFINE r == SignalReq(owner)
           e == [type |-> "EV_WRITE", on |-> owner, res |-> 1]
<1>1. /\ TypeOK /\ Completed(w, r, 1) /\ event_fd \in [Worker -> Nat]
      /\ event_fd' = [event_fd EXCEPT ![owner] = @ + 1]
  BY DEF UringInv, TypeOK, WritesEvent, SignalReq
<1>2. /\ e = [type |-> r.type, on |-> r.on, res |-> 1]
      /\ e \in Completion /\ e.type # "EV_READ"
  BY DEF SignalReq, Req, Completion
<1>3. r # EventReq /\ \A u : SignalReq(u) = r <=> u = owner
  BY DEF SignalReq, EventReq, Req
<1> HIDE DEF e, r
<1>4. /\ UNCHANGED <<incoming, pc>>
      /\ \A u \in Worker : \A s : Out(s, u) \in Nat
      /\ Out(r, w) > 0
      /\ \A u \in Worker : \A s : Out(s, u)' = Out(s, u) - IF s = r /\ u = w THEN 1 ELSE 0
      /\ cq[w] \in Seq(Completion) /\ cq'[w] = Append(cq[w], e)
      /\ \A u \in Worker \ {w} : cq'[u] = cq[u]
  BY <1>1, <1>2, Completes1
<1>5. /\ \A u \in Worker : Out(EventReq, u)' = Out(EventReq, u)
      /\ \A u \in Worker \ {owner} : \A v \in Worker : Out(SignalReq(u), v)' = Out(SignalReq(u), v)
      /\ \A v \in Worker : Out(SignalReq(owner), v)' = Out(SignalReq(owner), v) - IF v = w THEN 1 ELSE 0
      /\ Out(SignalReq(owner), w) > 0
  BY <1>3, <1>4
<1>6. \A u \in Worker : Cardinality(Fired(cq'[u])) = Cardinality(Fired(cq[u]))
  <2>1. Cardinality(Fired(cq'[w])) = Cardinality(Fired(cq[w]))
    BY <1>2, <1>4, FiredAppend
  <2> QED
    BY <1>4, <2>1
<1>7. /\ IsFiniteSet(Signals(owner)') /\ Cardinality(Signals(owner)) \in Nat
      /\ Cardinality(Signals(owner)') \in Nat
      /\ Cardinality(Signals(owner)) = Cardinality(Signals(owner)') + 1
  BY <1>1, <1>5, SignalsLess DEF Finite
<1>8. Moves(owner)
  <2>1. event_fd[owner] \in Nat /\ event_fd'[owner] = event_fd[owner] + 1
    BY <1>1
  <2>2. Sent(owner)' = Sent(owner)
    BY <1>7, <2>1 DEF Sent
  <2>3. /\ ToTake(owner)' = ToTake(owner) /\ Armed(owner)' = Armed(owner)
        /\ Woken(owner)' = Woken(owner) /\ At(owner)' = At(owner)
    BY <1>4, <1>5, <1>6 DEF ToTake, Armed, Woken, At
  <2> QED
    BY <1>1, <2>2, <2>3, MovesIs
<1>9. ASSUME NEW u \in Worker \ {owner} PROVE IsFiniteSet(Signals(u))' /\ Moves(u)
  <2>1. event_fd'[u] = event_fd[u]
    BY <1>1
  <2>2. Still(u)
    BY <1>4, <1>5, <1>6, <1>9, <2>1 DEF Still
  <2> QED
    BY <1>1, <2>2, StillMoves
<1>10. Finite'
  BY <1>7, <1>9 DEF Finite
<1> QED
  BY <1>8, <1>9, <1>10 DEF HandsOn

\* A connection is accepted by the kernel, and looked at by the worker.
LEMMA AcceptsOn ==
    ASSUME UringInv, Alive, TypeOK', Alive', Finite, NEW w \in Worker, Accepts(w) \/ OnAccept(w)
    PROVE  HandsOn
<1>1. TypeOK
  BY DEF UringInv
<1>2. CASE Accepts(w)
  <2>1. Min(FreeFds) \in Fd
    <3>1. FreeFds # {} /\ FreeFds \in SUBSET Nat
      BY <1>2, Sizes DEF Accepts, FreeFds
    <3>2. Min(FreeFds) \in FreeFds
      BY <3>1, LeastElement
    <3> QED
      BY <3>2 DEF FreeFds
  <2>2. PICK fd \in Fd : Completed(w, AcceptReq, fd) /\ UNCHANGED event_fd
    BY <1>2, <2>1 DEF Accepts, AcceptReq
  <2>3. /\ [type |-> AcceptReq.type, on |-> AcceptReq.on, res |-> fd] \in Completion
        /\ AcceptReq \in Others
    BY OthersAre DEF Completion, AcceptReq, Req
  <2> QED
    BY <2>2, <2>3, CompletedOn
<1>3. CASE OnAccept(w)
  <2> DEFINE fd == Head(cq[w]).res
  <2>1. /\ Handles(w, "ACCEPT")
        /\ \/ \E owner \in Worker \ {w} :
                /\ incoming' = [incoming EXCEPT ![owner] = <<fd>> \o @]
                /\ Queues(w, SetToBag({SignalReq(owner), AcceptReq}), "handle")
           \/ /\ Queues(w, SetToBag({Req("SOCK_READ", fd, msg_size), AcceptReq}), "handle")
              /\ UNCHANGED incoming
    BY <1>3, PlacesIs
  <2>2. fd \in Fd
    <3>1. Head(cq[w]) \in Completion /\ Head(cq[w]).type = "ACCEPT"
      BY <1>1, <2>1, HandlesIs
    <3> QED
      BY <3>1 DEF Completion
  <2>3. ASSUME NEW owner \in Worker \ {w},
               incoming' = [incoming EXCEPT ![owner] = <<fd>> \o @],
               Queues(w, SetToBag({SignalReq(owner), AcceptReq}), "handle")
        PROVE  HandsOn
    BY <2>1, <2>2, <2>3, PushesOn
  <2>4. CASE /\ Queues(w, SetToBag({Req("SOCK_READ", fd, msg_size), AcceptReq}), "handle")
             /\ UNCHANGED incoming
    <3>1. msg_size \in 1 .. msg_size /\ "SOCK_READ" \in {"SOCK_READ", "SOCK_WRITE"}
      BY Sizes
    <3>2. {Req("SOCK_READ", fd, msg_size), AcceptReq} \in SUBSET Others
      BY ONLY <2>2, <3>1, OthersAre
    <3>3. /\ "ACCEPT" # "EV_READ" /\ "handle" # "drain"
          /\ \A u \in Worker : Len(incoming'[u]) = Len(incoming[u])
      BY <2>4
    <3> QED
      BY <1>1, <2>1, <2>4, <3>2, <3>3, HandledOn
  <2> QED
    BY <2>1, <2>3, <2>4
<1> QED
  BY <1>2, <1>3


\* The data of a connection is read and written.
LEMMA DataOn ==
    ASSUME UringInv, Alive, TypeOK', Finite, NEW w \in Worker, NEW fd \in Fd,
           Reads(w, fd) \/ Writes(w, fd)
    PROVE  HandsOn
<1>1. PICK r \in Request : \E m \in Int :
        /\ r.type \in {"SOCK_READ", "SOCK_WRITE"} /\ IsAbout(r, fd)
        /\ Completed(w, r, m) /\ UNCHANGED event_fd
  BY ReadsIs, WritesIs DEF kernel
<1>2. r \in Others /\ \A m \in Int : [type |-> r.type, on |-> r.on, res |-> m] \in Completion
  BY <1>1 DEF Others, Completion, IsAbout
<1> QED
  BY <1>1, <1>2, CompletedOn

LEMMA ClientOn ==
    ASSUME TypeOK, TypeOK', Finite, NEW c \in Client,
           Send(c) \/ Leave(c) \/ \E w \in Reach[c] : Connect(c, w)
    PROVE  HandsOn
<1>1. UNCHANGED <<incoming, pc, sq, flight, cq, event_fd>>
  BY DEF Send, Leave, Connect, table, rings, kernel
<1>2. \A u \in Worker : Still(u)
  BY <1>1 DEF Still, Out
<1> QED
  BY <1>2, AllStill

\* Every step of the server is one of WakeUps for each worker, or none.
LEMMA HandsStep ==
    ASSUME UringInv, Alive, TypeOK', Alive', Finite, [Next]_vars
    PROVE  HandsOn
<1>1. TypeOK
  BY DEF UringInv
<1>2. ASSUME NEW w \in Worker, Step(w) PROVE HandsOn
  <2>1. CASE OnEvWrite(w)
    <3>1. /\ Handles(w, "EV_WRITE") /\ Goes(w, "handle") /\ UNCHANGED <<incoming, sq>>
          /\ "EV_WRITE" # "EV_READ" /\ "handle" # "drain" /\ {} \in SUBSET Others
      BY <2>1 DEF OnEvWrite, table
    <3>2. \A u \in Worker : Len(incoming'[u]) = Len(incoming[u])
      BY <3>1
    <3> QED
      BY <1>1, <3>1, <3>2, HandledOn
  <2> QED
    BY <1>2, <2>1, AcceptsOn, SocketOn, WakesOn, TakesOn, QuietOn DEF Step
<1>3. ASSUME NEW w \in Worker, Completes(w) PROVE HandsOn
  BY <1>3, AcceptsOn, FiresOn, SignalsOn, DataOn DEF Completes
<1>4. ASSUME NEW c \in Client, Send(c) \/ Leave(c) \/ \E w \in Reach[c] : Connect(c, w)
      PROVE  HandsOn
  BY <1>1, <1>4, ClientOn
<1>5. CASE UNCHANGED vars
  <2>1. \A u \in Worker : Still(u)
    BY <1>5 DEF vars, Still, Out
  <2> QED
    BY <1>1, <2>1, AllStill
<1> QED
  BY <1>2, <1>3, <1>4, <1>5 DEF Next

LEMMA HandsInitial ==
    ASSUME Init
    PROVE  Finite /\ \A w \in Worker : Hand(w)!WakeInit
<1>1. TypeOK
  BY UringInitial DEF UringInv
<1>2. /\ \A w \in Worker : sq[w] = SetToBag({AcceptReq, EventReq}) /\ flight[w] = EmptyBag
      /\ \A w \in Worker : cq[w] = <<>> /\ incoming[w] = <<>> /\ event_fd[w] = 0 /\ pc[w] = "handle"
  <2>1. add_accept_request (+) add_read_event = SetToBag({AcceptReq, EventReq})
    BY TwoSingles DEF add_accept_request, add_read_event, AcceptReq, EventReq, Req
  <2> QED
    BY <2>1 DEF Init
<1>3. \A w \in Worker : \A r : Out(r, w) = IF r \in {AcceptReq, EventReq} THEN 1 ELSE 0
  <2> DEFINE b == SetToBag({AcceptReq, EventReq})
  <2>1. \A r : /\ Copies(r, b) = IF r \in {AcceptReq, EventReq} THEN 1 ELSE 0
               /\ Copies(r, EmptyBag) = 0
    BY Singles, EmptyIs
  <2>2. \A w \in Worker : sq[w] = b /\ flight[w] = EmptyBag
    BY <1>2
  <2> HIDE DEF b
  <2> QED
    BY <2>1, <2>2 DEF Out
<1>4. ASSUME NEW w \in Worker
      PROVE  Signals(w) = {} /\ IsFiniteSet(Signals(w)) /\ Cardinality(Signals(w)) = 0
  <2>1. \A v \in Worker : Out(SignalReq(w), v) = 0
    BY <1>3 DEF SignalReq, AcceptReq, EventReq, Req
  <2>2. \A v \in Worker : \A k : k \notin 1 .. Out(SignalReq(w), v)
    BY <2>1
  <2>3. Signals(w) = {}
    BY <1>1, <2>2, SignalsIs
  <2> QED
    BY <2>3, FS_EmptySet
<1>5. ASSUME NEW w \in Worker PROVE Hand(w)!WakeInit
  <2>1. Copies(EventReq, Asked(w)) = 1
    BY <1>1, <1>3, OutIs
  <2>2. Copies(Req("EV_READ", NULL, 0), Asked(w)) = 1
    BY <2>1 DEF EventReq
  <2>3. Fired(cq[w]) = {} /\ Cardinality(Fired(cq[w])) = 0
    <3>1. Fired(cq[w]) = {}
      BY <1>2 DEF Fired
    <3> QED
      BY <3>1, FS_EmptySet
  <2>4. Len(incoming[w]) = 0 /\ event_fd[w] + Cardinality(Signals(w)) = 0
    BY <1>2, <1>4
  <2> QED
    BY <1>2, <2>2, <2>3, <2>4 DEF Hand!WakeInit
<1> QED
  BY <1>4, <1>5 DEF Finite


\* What a worker sees of its hand-over, in numbers: l entries on its list, s signals,
\* a reads armed and f ended, and where it is.  That a read is left, and no entry
\* forgotten, is not inductive: reads are used up one per wake-up and armed one
\* per entry.  What is kept is an account of the two: each wake-up, ended or to
\* come from a signal not taken yet, is paid for by an entry on the list, which
\* will arm a read, or by the read that made it.
Account(l, s, a, f, p) ==
    /\ l \in Nat /\ s \in Nat /\ a \in Nat /\ f \in Nat
    /\ a + l >= 1 + s
    /\ p = "events" => a + f > 0
    /\ l > 0 => p = "list" \/ f > 0 \/ s > 0
HandAccount(w) == Account(ToTake(w), Sent(w), Armed(w), Woken(w), At(w))

LEMMA AccountKeeps ==
    ASSUME NEW l, NEW s, NEW a, NEW f, NEW p, NEW l2, NEW s2, NEW a2, NEW f2, NEW p2,
           Account(l, s, a, f, p), p \in {"events", "list"},
           \/ l2 = l + 1 /\ s2 = s + 1 /\ a2 = a /\ f2 = f /\ p2 = p
           \/ /\ a > 0 /\ \E n \in 1 .. s : s2 = s - n
              /\ a2 = a - 1 /\ f2 = f + 1 /\ l2 = l /\ p2 = p
           \/ p = "events" /\ f > 0 /\ f2 = f - 1 /\ p2 = "list" /\ l2 = l /\ s2 = s /\ a2 = a
           \/ p = "list" /\ l > 0 /\ l2 = l - 1 /\ a2 = a + 1 /\ s2 = s /\ f2 = f /\ p2 = p
           \/ p = "list" /\ l = 0 /\ p2 = "events" /\ l2 = l /\ s2 = s /\ a2 = a /\ f2 = f
           \/ l2 = l /\ s2 = s /\ a2 = a /\ f2 = f /\ p2 = p
    PROVE  Account(l2, s2, a2, f2, p2)
<1>1. CASE /\ a > 0 /\ \E n \in 1 .. s : s2 = s - n
           /\ a2 = a - 1 /\ f2 = f + 1 /\ l2 = l /\ p2 = p
  <2>1. s2 \in Nat /\ s2 < s
    BY <1>1 DEF Account
  <2> QED
    BY <1>1, <2>1 DEF Account
<1> QED
  BY <1>1 DEF Account

LEMMA AccountStep ==
    ASSUME TypeOK, TypeOK', NEW w \in Worker, Moves(w), HandAccount(w)
    PROVE  HandAccount(w)'
<1> DEFINE l == ToTake(w)
           s == Sent(w)
           a == Armed(w)
           f == Woken(w)
           p == At(w)
<1>1. /\ Copies(Req("EV_READ", NULL, 0), Asked(w)) = a
      /\ Copies(Req("EV_READ", NULL, 0), Asked(w))' = a'
  BY ArmedIs
<1>2. \/ l' = l + 1 /\ s' = s + 1 /\ a' = a /\ f' = f /\ p' = p
      \/ /\ a > 0 /\ \E n \in 1 .. s : s' = s - n
         /\ a' = a - 1 /\ f' = f + 1 /\ l' = l /\ p' = p
      \/ p = "events" /\ f > 0 /\ f' = f - 1 /\ p' = "list" /\ l' = l /\ s' = s /\ a' = a
      \/ p = "list" /\ l > 0 /\ l' = l - 1 /\ a' = a + 1 /\ s' = s /\ f' = f /\ p' = p
      \/ p = "list" /\ l = 0 /\ p' = "events" /\ l' = l /\ s' = s /\ a' = a /\ f' = f
      \/ l' = l /\ s' = s /\ a' = a /\ f' = f /\ p' = p
  <2> USE DEF ToTake, Sent, Woken, At
  <2> HIDE DEF Armed
  <2> QED
    BY <1>1 DEF Moves, Hand!WakeNext, Hand!wvars, Hand!Push, Hand!Fire, Hand!Wake, Hand!Take, Hand!Emptied
<1>3. p \in {"events", "list"}
  BY DEF At
<1> HIDE DEF l, s, a, f, p
<1>4. Account(l, s, a, f, p)
  BY DEF HandAccount, l, s, a, f, p
<1>5. Account(l', s', a', f', p')
  BY <1>2, <1>3, <1>4, AccountKeeps
<1> QED
  BY <1>5 DEF HandAccount, l, s, a, f, p

HandInv == UringInv /\ (Alive => Finite /\ \A w \in Worker : HandAccount(w))

LEMMA HandInitial == Init => HandInv
<1> SUFFICES ASSUME Init PROVE HandInv
  OBVIOUS
<1>1. UringInv /\ Finite /\ \A w \in Worker : Hand(w)!WakeInit
  BY UringInitial, HandsInitial
<1>2. ASSUME NEW w \in Worker PROVE HandAccount(w)
  <2>1. Armed(w) = Copies(Req("EV_READ", NULL, 0), Asked(w))
    BY <1>1, OutIs DEF UringInv, Armed, EventReq
  <2>2. /\ ToTake(w) = 0 /\ Sent(w) = 0 /\ Armed(w) = 1 /\ Woken(w) = 0
    BY <1>1, <2>1 DEF Hand!WakeInit, ToTake, Sent, Woken
  <2> QED
    BY <2>2 DEF HandAccount, Account
<1> QED
  BY <1>1, <1>2 DEF HandInv

LEMMA HandStep ==
    ASSUME HandInv, [Next]_vars
    PROVE  HandInv' /\ (Alive' => HandsOn)
<1>1. UringInv /\ UringInv' /\ TypeOK /\ TypeOK'
  BY UringStep DEF HandInv, UringInv
<1>2. Alive' => Alive
  BY DEF Next, Alive, vars
<1>3. ASSUME Alive' PROVE HandsOn
  BY <1>1, <1>2, <1>3, HandsStep DEF HandInv
<1>4. ASSUME Alive' PROVE Finite' /\ \A w \in Worker : HandAccount(w)'
  BY <1>1, <1>2, <1>3, <1>4, AccountStep DEF HandInv, HandsOn
<1> QED
  BY <1>1, <1>3, <1>4 DEF HandInv

\* The worker that looks for its next event always has a read of its eventfd under
\* way or ended, and a connection on the list of one that is not emptying it has
\* a wake-up or a signal to come (iouring.c:198, 254-260, 295-319).
THEOREM NoWorkerLosesItsList ==
    Spec => [](Alive => \A w \in Worker : Hand(w)!ReadArmed /\ Hand(w)!NoneForgotten)
<1>1. ASSUME HandInv, Alive, NEW w \in Worker
      PROVE  Hand(w)!ReadArmed /\ Hand(w)!NoneForgotten
  <2>1. Armed(w) = Copies(Req("EV_READ", NULL, 0), Asked(w)) /\ HandAccount(w)
    BY <1>1, OutIs DEF HandInv, UringInv, Armed, EventReq
  <2> HIDE DEF Armed
  <2> QED
    BY <2>1 DEF HandAccount, Account, ToTake, Sent, Woken, At, Hand!ReadArmed, Hand!NoneForgotten
<1>2. HandInv => (Alive => \A w \in Worker : Hand(w)!ReadArmed /\ Hand(w)!NoneForgotten)
  BY <1>1
<1>3. HandInv /\ [Next]_vars => HandInv'
  BY HandStep
<1> QED
  BY <1>2, <1>3, HandInitial, PTL DEF Spec

\* Lists, eventfds and the requests that read and write them implement WakeUps for
\* each worker, with a queue of any length, in every step that does not end the process
\* (iouring.c:254-260, 295-319).
THEOREM HandsOverAlways == Spec => HandsOver
<1>1. Init => HandInv /\ \A w \in Worker : Hand(w)!WakeInit
  BY HandInitial, HandsInitial
<1>2. HandInv /\ [Next]_vars => HandInv'
  BY HandStep
<1>3. HandInv /\ [Next]_vars => (Alive' => \A w \in Worker : [Hand(w)!WakeNext]_(Hand(w)!wvars))
  <2> SUFFICES ASSUME HandInv, [Next]_vars, Alive' PROVE \A w \in Worker : Moves(w)
    BY DEF Moves
  <2> QED
    BY HandStep DEF HandsOn
<1>4. HandInv /\ [Next]_vars
        => [Alive' => \A w \in Worker : [Hand(w)!WakeNext]_(Hand(w)!wvars)]_vars
  BY <1>3
<1> QED
  BY <1>1, <1>2, <1>4, PTL DEF Spec, HandsOver


=============================================================================
