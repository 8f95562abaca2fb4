-------------------------- MODULE Standalone_proofs ---------------------------
(***************************************************************************)
(* Three components that share no state with any other: the per-thread     *)
(* cache, the latency tester and the batch statistics.                     *)
(***************************************************************************)
EXTENDS BufferCache, SchedLatency, BatchStats, FiniteSetTheorems, TLAPS

-----------------------------------------------------------------------------
(* The cache is a queue and never shares an entry, for any number of blocks. *)
(* Its three properties together are inductive.                             *)

CacheInv == TypeOK /\ Exclusive /\ CacheIsQueue

\* Initially the list is empty and every block is still raw.
LEMMA CacheInvInit == Init => CacheInv
BY CacheAssumption DEF Init, CacheInv, TypeOK, Exclusive, CacheIsQueue

\* Linking a block that is not in the list, and has no successor, at the tail
\* leaves the pointers and the history in agreement.
LEMMA LinkKeepsQueue ==
    ASSUME CacheInv, NEW b \in used \cup raw, Link(b),
           used' \cup raw' = (used \cup raw) \ {b}, used' \cap raw' = {}
    PROVE  CacheInv'
<1> USE CacheAssumption DEF CacheInv, TypeOK, Exclusive
<1>1. /\ order' \in Seq(Block)
      /\ Len(order') = Len(order) + 1
      /\ \A i \in 1 .. Len(order) : order'[i] = order[i]
      /\ order'[Len(order) + 1] = b
  BY DEF Link
<1>2. TypeOK'
  BY <1>1 DEF Link
<1>3. Exclusive'
  <2>1. \A i \in 1 .. Len(order') : order'[i] = IF i <= Len(order) THEN order[i] ELSE b
    BY <1>1
  <2>2. \A i \in 1 .. Len(order) : order[i] # b
    OBVIOUS
  <2>3. (\A i, j \in 1 .. Len(order) : i # j => order[i] # order[j])'
    BY <1>1, <2>1, <2>2
  <2>4. (\A i \in 1 .. Len(order) : order[i] \notin used \cup raw)'
    BY <1>1, <2>1, <2>2
  <2>5. (\A c \in Block : c \in used \cup raw \/ \E i \in 1 .. Len(order) : order[i] = c)'
    BY <1>1
  <2> QED
    BY <2>3, <2>4, <2>5
<1>4. CacheIsQueue'
  <2>1. CASE order = <<>>
    BY <1>1, <2>1 DEF CacheIsQueue, Link
  <2>2. CASE order # <<>>
    <3>1. Len(order) \in Nat /\ Len(order) >= 1
      BY <2>2
    <3>2. tail = order[Len(order)] /\ tail \in Block /\ tail # b
      BY <2>2, <3>1 DEF CacheIsQueue
    <3>3. next' = [next EXCEPT ![tail] = b] /\ head' = head /\ tail' = b
      BY <3>2 DEF Link
    <3>4. ASSUME NEW i \in 1 .. Len(order')
          PROVE  next'[order'[i]] = IF i = Len(order') THEN NULL ELSE order'[i + 1]
      <4>1. CASE i < Len(order)
        <5>1. /\ i \in 1 .. Len(order) /\ i + 1 \in 1 .. Len(order)
              /\ order'[i] = order[i] /\ order'[i + 1] = order[i + 1] /\ i # Len(order')
          BY <1>1, <3>1, <4>1
        <5>2. order[i] # tail /\ next[order[i]] = order[i + 1]
          BY <3>1, <3>2, <4>1, <5>1 DEF CacheIsQueue
        <5> QED
          BY <3>3, <5>1, <5>2
      <4>2. CASE i = Len(order)
        BY <1>1, <3>1, <3>2, <3>3, <4>2
      <4>3. CASE i = Len(order) + 1
        BY <1>1, <3>1, <3>2, <3>3, <4>3 DEF CacheIsQueue
      <4> QED
        BY <1>1, <3>1, <4>1, <4>2, <4>3
    <3>5. \A c \in used' \cup raw' : next'[c] = NULL
      BY <3>1, <3>2, <3>3 DEF CacheIsQueue
    <3> QED
      BY <1>1, <2>2, <3>1, <3>3, <3>4, <3>5 DEF CacheIsQueue
  <2> QED
    BY <2>1, <2>2
<1> QED
  BY <1>2, <1>3, <1>4

\* Taking the head leaves the rest of the queue.
LEMMA TakeKeepsQueue ==
    ASSUME CacheInv, head # NULL, Take
    PROVE  CacheInv'
<1> USE CacheAssumption DEF CacheInv, TypeOK, Exclusive
<1>1. order # <<>> /\ Len(order) \in Nat /\ Len(order) >= 1 /\ head = order[1]
  BY DEF CacheIsQueue
<1>2. /\ order' \in Seq(Block)
      /\ Len(order') = Len(order) - 1
      /\ \A i \in 1 .. Len(order') : order'[i] = order[i + 1]
  BY <1>1 DEF Take
<1>3. TypeOK'
  BY <1>1, <1>2 DEF Take
<1>4. Exclusive'
  <2>1. ASSUME NEW i \in 1 .. Len(order'), NEW j \in 1 .. Len(order'), i # j
        PROVE  order'[i] # order'[j]
    <3>1. i + 1 \in 1 .. Len(order) /\ j + 1 \in 1 .. Len(order) /\ i + 1 # j + 1
      BY <1>1, <1>2, <2>1
    <3>2. order[i + 1] # order[j + 1]
      BY <3>1
    <3> QED
      BY <1>2, <3>2
  <2>2. (\A i \in 1 .. Len(order) : order[i] \notin used \cup raw)'
    BY <1>1, <1>2 DEF Take
  <2>3. used' \cap raw' = {}
    BY <1>1 DEF Take
  <2>4. ASSUME NEW c \in Block, c \notin used' \cup raw'
        PROVE  \E i \in 1 .. Len(order') : order'[i] = c
    <3>1. PICK k \in 1 .. Len(order) : order[k] = c
      BY <2>4 DEF Take
    <3>2. k # 1
      BY <1>1, <2>4, <3>1 DEF Take
    <3>3. k - 1 \in 1 .. Len(order') /\ (k - 1) + 1 = k
      BY <1>1, <1>2, <3>1, <3>2
    <3>4. order'[k - 1] = order[k]
      BY <1>2, <3>3
    <3> QED
      BY <3>1, <3>3, <3>4
  <2> QED
    BY <2>1, <2>2, <2>3, <2>4
<1>5. next[head] = IF Len(order) = 1 THEN NULL ELSE order[2]
  <2>1. \A i \in 1 .. Len(order) :
          next[order[i]] = IF i = Len(order) THEN NULL ELSE order[i + 1]
    BY DEF CacheIsQueue
  <2>2. 1 \in 1 .. Len(order) /\ 1 + 1 = 2
    BY <1>1
  <2> QED
    BY <1>1, <2>1, <2>2
<1>6. CASE Len(order) = 1
  BY <1>1, <1>2, <1>3, <1>4, <1>5, <1>6 DEF Take, CacheIsQueue
<1>7. CASE Len(order) > 1
  <2>1. order' # <<>> /\ head' = order'[1] /\ tail' = tail /\ tail = order'[Len(order')]
    <3>1. order[2] \in Block /\ order[2] # NULL
      BY <1>1, <1>7
    <3>2. head' = order[2] /\ tail' = tail
      BY <1>5, <1>7, <3>1 DEF Take
    <3>3. 1 \in 1 .. Len(order') /\ Len(order') \in 1 .. Len(order')
      BY <1>1, <1>2, <1>7
    <3>4. order'[1] = order[2] /\ order'[Len(order')] = order[Len(order)]
      BY <1>1, <1>2, <3>3
    <3>5. order' # <<>>
      BY <1>2, <3>3
    <3>6. tail = order[Len(order)]
      BY <1>1 DEF CacheIsQueue
    <3> QED
      BY <3>2, <3>4, <3>5, <3>6
  <2>2. ASSUME NEW i \in 1 .. Len(order')
        PROVE  next'[order'[i]] = IF i = Len(order') THEN NULL ELSE order'[i + 1]
    <3>1. order'[i] = order[i + 1] /\ order[i + 1] # head /\ order[i + 1] \in Block
      BY <1>1, <1>2
    <3>2. next'[order'[i]] = next[order[i + 1]]
      BY <3>1 DEF Take
    <3> QED
      BY <1>1, <1>2, <3>2 DEF CacheIsQueue
  <2>3. \A c \in used' \cup raw' : next'[c] = NULL
    BY <1>1 DEF Take, CacheIsQueue
  <2> QED
    BY <1>3, <1>4, <2>1, <2>2, <2>3 DEF CacheIsQueue
<1>8. Len(order) \in Nat /\ Len(order) >= 1
  BY <1>1
<1>9. Len(order) = 1 \/ Len(order) > 1
  <2> DEFINE n == Len(order)
  <2>1. n \in Nat /\ n >= 1
    BY <1>8
  <2> HIDE DEF n
  <2>2. n = 1 \/ n > 1
    BY <2>1
  <2> QED
    BY <2>2 DEF n
<1> QED
  BY <1>6, <1>7, <1>9

\* Every call on the cache preserves CacheInv.
LEMMA CacheInvStep == CacheInv /\ [Next]_vars => CacheInv'
<1> SUFFICES ASSUME CacheInv, [Next]_vars PROVE CacheInv'
  OBVIOUS
<1>1. ASSUME NEW b \in Block, init_cache(b) PROVE CacheInv'
  BY <1>1, LinkKeepsQueue DEF init_cache, CacheInv, Exclusive
<1>2. ASSUME NEW b \in Block, cache_free(b) PROVE CacheInv'
  BY <1>2, LinkKeepsQueue DEF cache_free, CacheInv, Exclusive
<1>3. CASE cache_alloc
  <2>1. CASE head # NULL /\ Take
    BY <2>1, TakeKeepsQueue
  <2>2. ASSUME NEW b \in raw, raw' = raw \ {b}, used' = used \cup {b},
               UNCHANGED <<head, tail, next, order>>
        PROVE  CacheInv'
    BY <2>2 DEF CacheInv, TypeOK, Exclusive, CacheIsQueue
  <2> QED
    BY <1>3, <2>1, <2>2 DEF cache_alloc
<1>4. CASE UNCHANGED vars
  BY <1>4 DEF vars, CacheInv, TypeOK, Exclusive, CacheIsQueue
<1> QED
  BY <1>1, <1>2, <1>3, <1>4 DEF Next

\* Two connections never share an entry of the cache, however many entries
\* there are and in whatever order they are taken and returned.
THEOREM CacheExclusive == Spec => []Exclusive
<1>1. CacheInv => Exclusive
  BY DEF CacheInv
<1> QED
  BY <1>1, CacheInvInit, CacheInvStep, PTL DEF Spec

\* The linked list is the queue of the free entries: no cycle, nothing lost.
THEOREM CacheQueue == Spec => []CacheIsQueue
<1>1. CacheInv => CacheIsQueue
  BY DEF CacheInv
<1> QED
  BY <1>1, CacheInvInit, CacheInvStep, PTL DEF Spec

-----------------------------------------------------------------------------
(* The latency tester *)

\* Where the two threads are, in turn j of the waker and k of the sleeper: e1 and
\* e2 are the eventfds, lw and ls the entries of the logs.
Phase(w, s, j, k, e1, e2, lw, ls) ==
    \/ /\ w = "done" /\ s = "done" /\ j = count /\ k = count
       /\ e1 = 0 /\ e2 = 0 /\ lw = 2 * j /\ ls = 2 * j
    \/ /\ j < count /\ k = j /\ s = "read" /\ e2 = 0 /\ ls = 2 * j
       /\ \/ w = "add_write" /\ e1 = 0 /\ lw = 2 * j
          \/ w = "write" /\ e1 = 0 /\ lw = 2 * j + 1
          \/ w = "read" /\ e1 = 1 /\ lw = 2 * j + 1
    \/ /\ j < count /\ k = j /\ w = "read" /\ e1 = 0 /\ e2 = 0 /\ lw = 2 * j + 1
       /\ \/ s = "add_read" /\ ls = 2 * j
          \/ s = "add_write" /\ ls = 2 * j + 1
          \/ s = "write" /\ ls = 2 * j + 2
    \/ /\ j < count /\ k = j + 1 /\ s = (IF k < count THEN "read" ELSE "done")
       /\ e1 = 0 /\ lw = 2 * j + 1 /\ ls = 2 * j + 2
       /\ \/ w = "read" /\ e2 = 1
          \/ w = "add_read" /\ e2 = 0
InPhase == Phase(pc["waker"], pc["sleeper"], turns["waker"], turns["sleeper"], efd[1], efd[2],
                 Len(log["waker"]), Len(log["sleeper"]))

\* Each call takes the two threads from one phase to the next.
LEMMA PhaseSteps ==
    ASSUME NEW w, NEW s, NEW j \in Nat, NEW k \in Nat, NEW e1, NEW e2,
           NEW lw \in Nat, NEW ls \in Nat, Phase(w, s, j, k, e1, e2, lw, ls)
    PROVE  /\ s = "read" /\ e1 = 1 => Phase(w, "add_read", j, k, 0, e2, lw, ls)
           /\ s = "add_read" => /\ lw = ls + 1 /\ ls < 2 * count
                               /\ Phase(w, "add_write", j, k, e1, e2, lw, ls + 1)
           /\ s = "add_write" => /\ lw = ls /\ ls < 2 * count
                                /\ Phase(w, "write", j, k, e1, e2, lw, ls + 1)
           /\ s = "write" => /\ e2 = 0 /\ k < count
                            /\ Phase(w, IF k + 1 < count THEN "read" ELSE "done",
                                     j, k + 1, e1, 1, lw, ls)
           /\ w = "add_write" => /\ lw = ls /\ lw < 2 * count
                                /\ Phase("write", s, j, k, e1, e2, lw + 1, ls)
           /\ w = "write" => e1 = 0 /\ Phase("read", s, j, k, 1, e2, lw, ls)
           /\ w = "read" /\ e2 = 1 => Phase("add_read", s, j, k, e1, 0, lw, ls)
           /\ w = "add_read" => /\ ls = lw + 1 /\ lw < 2 * count /\ j < count
                               /\ Phase(IF j + 1 < count THEN "add_write" ELSE "done", s,
                                        j + 1, k, e1, e2, lw + 1, ls)
<1> USE CountAssumption DEF Phase
<1>1. ASSUME s = "read", e1 = 1 PROVE Phase(w, "add_read", j, k, 0, e2, lw, ls)
  BY <1>1
<1>2. ASSUME s = "add_read"
      PROVE  lw = ls + 1 /\ ls < 2 * count /\ Phase(w, "add_write", j, k, e1, e2, lw, ls + 1)
  BY <1>2
<1>3. ASSUME s = "add_write"
      PROVE  lw = ls /\ ls < 2 * count /\ Phase(w, "write", j, k, e1, e2, lw, ls + 1)
  BY <1>3
<1>4. ASSUME s = "write"
      PROVE  /\ e2 = 0 /\ k < count
             /\ Phase(w, IF k + 1 < count THEN "read" ELSE "done", j, k + 1, e1, 1, lw, ls)
  BY <1>4
<1>5. ASSUME w = "add_write"
      PROVE  lw = ls /\ lw < 2 * count /\ Phase("write", s, j, k, e1, e2, lw + 1, ls)
  BY <1>5
<1>6. ASSUME w = "write" PROVE e1 = 0 /\ Phase("read", s, j, k, 1, e2, lw, ls)
  BY <1>6
<1>7. ASSUME w = "read", e2 = 1 PROVE Phase("add_read", s, j, k, e1, 0, lw, ls)
  BY <1>7
<1>8. ASSUME w = "add_read"
      PROVE  /\ ls = lw + 1 /\ lw < 2 * count /\ j < count
             /\ Phase(IF j + 1 < count THEN "add_write" ELSE "done", s,
                      j + 1, k, e1, e2, lw + 1, ls)
  <2>1. /\ j < count /\ k = j + 1 /\ s = (IF k < count THEN "read" ELSE "done")
        /\ e1 = 0 /\ lw = 2 * j + 1 /\ ls = 2 * j + 2 /\ e2 = 0
    BY <1>8
  <2>2. CASE j + 1 < count
    BY <2>1, <2>2
  <2>3. CASE ~(j + 1 < count)
    BY <2>1, <2>3
  <2> QED
    BY <2>1, <2>2, <2>3
<1> HIDE DEF Phase
<1> QED
  BY <1>1, <1>2, <1>3, <1>4, <1>5, <1>6, <1>7, <1>8

\* The thread whose log is longer has just logged its write, and nothing was
\* logged since.
WriteIsLast(l, m, now) ==
    Len(l) > Len(m) => l[Len(l)].value = "WRITE" /\ l[Len(l)].tsc = now - 1
WritesAreLast == /\ WriteIsLast(log["waker"], log["sleeper"], tsc)
                 /\ WriteIsLast(log["sleeper"], log["waker"], tsc)

TurnInv == LatencyTypeOK /\ InPhase /\ WritesAreLast /\ PairsAreWakeups

LEMMA TurnInitial == LatencyInit => TurnInv
<1> SUFFICES ASSUME LatencyInit PROVE TurnInv
  OBVIOUS
<1>1. LatencyTypeOK
  BY CountAssumption DEF LatencyInit, LatencyTypeOK, Thread, Efd, NextTurn
<1>2. InPhase
  BY CountAssumption DEF LatencyInit, InPhase, Phase, Thread, Efd, NextTurn
<1>3. WritesAreLast
  BY DEF LatencyInit, WritesAreLast, WriteIsLast, Thread
<1>4. PairsAreWakeups
  BY DEF LatencyInit, PairsAreWakeups, Entries, Thread
<1> QED
  BY <1>1, <1>2, <1>3, <1>4 DEF TurnInv

\* A thread that has room for it logs an entry, behind the others.
LEMMA LogsEntry ==
    ASSUME LatencyTypeOK, NEW t \in Thread, NEW v \in {"READ", "WRITE"}, Logs(t, v),
           Len(log[t]) < 2 * count
    PROVE  /\ log' \in [Thread -> Seq([value : {"READ", "WRITE"}, tsc : Nat])]
           /\ tsc' = tsc + 1 /\ tsc' \in Nat /\ UNCHANGED overflow
           /\ \A u \in Thread \ {t} : log'[u] = log[u]
           /\ Len(log'[t]) = Len(log[t]) + 1
           /\ \A n \in 1 .. Len(log[t]) : log'[t][n] = log[t][n]
           /\ log'[t][Len(log[t]) + 1].value = v /\ log'[t][Len(log[t]) + 1].tsc = tsc
<1> DEFINE e == [value |-> v, tsc |-> tsc]
           S == [value : {"READ", "WRITE"}, tsc : Nat]
<1>1. log \in [Thread -> Seq(S)] /\ tsc \in Nat
  BY DEF LatencyTypeOK
<1>2. e \in S /\ e.value = v /\ e.tsc = tsc
  BY <1>1
<1>3. /\ log' = [log EXCEPT ![t] = Append(@, e)]
      /\ tsc' = tsc + 1 /\ UNCHANGED overflow
  BY DEF Logs, Capacity
<1> HIDE DEF e, S
<1>4. log'[t] = Append(log[t], e) /\ log[t] \in Seq(S)
  BY <1>1, <1>3
<1>5. /\ Append(log[t], e) \in Seq(S) /\ Len(Append(log[t], e)) = Len(log[t]) + 1
      /\ \A n \in 1 .. Len(log[t]) : Append(log[t], e)[n] = log[t][n]
      /\ Append(log[t], e)[Len(log[t]) + 1] = e
  BY <1>2, <1>4
<1>6. log' \in [Thread -> Seq(S)]
  BY <1>1, <1>3, <1>5
<1> QED
  BY <1>1, <1>2, <1>3, <1>4, <1>5, <1>6 DEF S

\* An entry is one of a pair, or the first of the next one.
LEMMA LogsPair ==
    ASSUME TurnInv, NEW t \in Thread, NEW u \in Thread, t # u,
           NEW v \in {"READ", "WRITE"}, Logs(t, v), Len(log[t]) < 2 * count,
           \/ v = "WRITE" /\ Len(log[t]) = Len(log[u])
           \/ v = "READ" /\ Len(log[u]) = Len(log[t]) + 1
    PROVE  WritesAreLast' /\ PairsAreWakeups'
<1> DEFINE a == Len(log[t])
           b == Len(log[u])
<1>1. /\ log \in [Thread -> Seq([value : {"READ", "WRITE"}, tsc : Nat])] /\ tsc \in Nat
      /\ a \in Nat /\ b \in Nat /\ LatencyTypeOK
      /\ \A n \in 1 .. a : log[t][n].tsc \in Nat
      /\ \A n \in 1 .. b : log[u][n].tsc \in Nat
  <2>1. /\ log \in [Thread -> Seq([value : {"READ", "WRITE"}, tsc : Nat])] /\ tsc \in Nat
        /\ LatencyTypeOK
    BY DEF TurnInv, LatencyTypeOK
  <2>2. \A x \in Thread : /\ Len(log[x]) \in Nat
                          /\ \A n \in 1 .. Len(log[x]) :
                               log[x][n] \in [value : {"READ", "WRITE"}, tsc : Nat]
    <3> DEFINE S == [value : {"READ", "WRITE"}, tsc : Nat]
    <3>1. \A x \in Thread : log[x] \in Seq(S)
      BY <2>1
    <3> HIDE DEF S
    <3>2. \A x \in Thread : Len(log[x]) \in Nat /\ \A n \in 1 .. Len(log[x]) : log[x][n] \in S
      BY <3>1
    <3> QED
      BY <3>2 DEF S
  <2>3. \A e \in [value : {"READ", "WRITE"}, tsc : Nat] : e.tsc \in Nat
    OBVIOUS
  <2> QED
    BY <2>1, <2>2, <2>3
<1>2. /\ tsc' = tsc + 1 /\ UNCHANGED overflow /\ log'[u] = log[u]
      /\ Len(log'[t]) = a + 1 /\ \A n \in 1 .. a : log'[t][n] = log[t][n]
      /\ log'[t][a + 1].value = v /\ log'[t][a + 1].tsc = tsc
  BY <1>1, LogsEntry
<1>3. {t, u} = {"waker", "sleeper"} /\ Thread = {"waker", "sleeper"}
  BY DEF Thread
<1>4. /\ WriteIsLast(log[t], log[u], tsc) /\ WriteIsLast(log[u], log[t], tsc)
      /\ \A n \in Nat : n \in Entries <=> n \in 1 .. a /\ n \in 1 .. b
      /\ \A n \in Nat : n \in Entries' <=> n \in 1 .. a + 1 /\ n \in 1 .. b
  <2>1. WriteIsLast(log[t], log[u], tsc) /\ WriteIsLast(log[u], log[t], tsc)
    BY <1>3 DEF TurnInv, WritesAreLast
  <2>2. \A n \in Nat : n \in Entries <=> n \in 1 .. a /\ n \in 1 .. b
    <3>1. CASE t = "waker" /\ u = "sleeper"
      BY <1>1, <3>1 DEF Entries
    <3>2. CASE t = "sleeper" /\ u = "waker"
      BY <1>1, <3>2 DEF Entries
    <3> QED
      BY <3>1, <3>2 DEF Thread
  <2>3. Len(log'[u]) = b
    BY <1>2
  <2>4. \A n \in Nat : n \in Entries' <=> n \in 1 .. a + 1 /\ n \in 1 .. b
    <3>1. CASE t = "waker" /\ u = "sleeper"
      BY <1>1, <1>2, <2>3, <3>1 DEF Entries
    <3>2. CASE t = "sleeper" /\ u = "waker"
      BY <1>1, <1>2, <2>3, <3>2 DEF Entries
    <3> QED
      BY <3>1, <3>2 DEF Thread
  <2> QED
    BY <2>1, <2>2, <2>4
<1>5. WritesAreLast'
  <2>1. WriteIsLast(log'[t], log'[u], tsc')
    <3>1. v = "WRITE" \/ b = a + 1
      OBVIOUS
    <3> QED
      BY <1>1, <1>2, <3>1 DEF WriteIsLast
  <2>2. WriteIsLast(log'[u], log'[t], tsc')
    BY <1>1, <1>2 DEF WriteIsLast
  <2> QED
    BY <1>3, <2>1, <2>2 DEF WritesAreLast
<1>6. ASSUME NEW n \in Entries'
      PROVE  log'["sleeper"][n].value # log'["waker"][n].value /\ Latency(n)' = 1
  <2>1. n \in Nat
    BY <1>6, <1>1, <1>2 DEF Entries
  <2>2. CASE n \in 1 .. a
    <3>1. n \in Entries /\ log'[t][n] = log[t][n] /\ log'[u][n] = log[u][n]
      BY <1>2, <1>4, <1>6, <2>1, <2>2
    <3> QED
      BY <1>3, <3>1 DEF TurnInv, PairsAreWakeups, Latency
  <2>3. CASE n = a + 1
    <3>1. /\ v = "READ" /\ b = a + 1
          /\ log'[u][n].value = "WRITE" /\ log'[u][n].tsc = tsc - 1
      BY <1>1, <1>2, <1>4, <1>6, <2>1, <2>3 DEF WriteIsLast
    <3>2. log'[t][n].value = "READ" /\ log'[t][n].tsc = tsc
      BY <1>2, <2>3, <3>1
    <3>3. tsc - (tsc - 1) = 1
      BY <1>1
    <3>4. CASE t = "waker" /\ u = "sleeper"
      BY <3>1, <3>2, <3>3, <3>4 DEF Latency
    <3>5. CASE t = "sleeper" /\ u = "waker"
      BY <3>1, <3>2, <3>3, <3>5 DEF Latency
    <3> QED
      BY <3>4, <3>5 DEF Thread
  <2>4. n \in 1 .. a + 1
    BY <1>4, <1>6, <2>1
  <2> QED
    BY <1>1, <2>2, <2>3, <2>4
<1> QED
  BY <1>2, <1>5, <1>6 DEF TurnInv, PairsAreWakeups

LEMMA TurnStep ==
    ASSUME TurnInv, [LatencyNext]_lvars
    PROVE  TurnInv'
<1>1. /\ pc \in [Thread -> {"read", "add_read", "add_write", "write", "done"}]
      /\ turns \in [Thread -> 0 .. count] /\ efd \in [Efd -> 0 .. 1]
      /\ log \in [Thread -> Seq([value : {"READ", "WRITE"}, tsc : Nat])]
      /\ overflow \in [Thread -> BOOLEAN] /\ tsc \in Nat /\ count \in Nat
      /\ Thread = {"waker", "sleeper"} /\ Efd = {1, 2}
      /\ LatencyTypeOK /\ InPhase /\ WritesAreLast /\ PairsAreWakeups
  BY CountAssumption DEF TurnInv, LatencyTypeOK, Thread, Efd
<1>2. \A t \in Thread : Len(log[t]) \in Nat
  BY <1>1
\* Calls that log nothing.
<1>3. ASSUME UNCHANGED <<log, overflow, tsc>>
      PROVE  WritesAreLast' /\ PairsAreWakeups'
  BY <1>1, <1>3 DEF WritesAreLast, WriteIsLast, PairsAreWakeups, Entries, Latency
<1>4. ASSUME NEW t \in Thread, NEW p, Goes(t, p), p \in {"read", "add_read", "add_write", "write", "done"}
      PROVE  /\ pc' \in [Thread -> {"read", "add_read", "add_write", "write", "done"}]
             /\ pc'[t] = p /\ \A u \in Thread \ {t} : pc'[u] = pc[u]
  BY <1>1, <1>4 DEF Goes
<1>5. ASSUME NEW f \in Efd, Reads(f)
      PROVE  /\ efd' \in [Efd -> 0 .. 1] /\ efd[f] = 1 /\ efd'[f] = 0
             /\ \A g \in Efd \ {f} : efd'[g] = efd[g]
  BY <1>1, <1>5 DEF Reads
<1>6. ASSUME NEW f \in Efd, Writes(f), efd[f] = 0
      PROVE  /\ efd' \in [Efd -> 0 .. 1] /\ efd'[f] = 1
             /\ \A g \in Efd \ {f} : efd'[g] = efd[g]
  BY <1>1, <1>6 DEF Writes
<1>7. ASSUME NEW t \in Thread, NEW p \in {"read", "add_write"}, Turn(t, p), turns[t] < count
      PROVE  /\ turns' \in [Thread -> 0 .. count] /\ turns'[t] = turns[t] + 1
             /\ \A u \in Thread \ {t} : turns'[u] = turns[u] /\ pc'[u] = pc[u]
             /\ pc'[t] = (IF turns[t] + 1 < count THEN p ELSE "done")
             /\ pc' \in [Thread -> {"read", "add_read", "add_write", "write", "done"}]
  BY <1>1, <1>7 DEF Turn, NextTurn, Goes
<1> USE DEF TurnInv
<1>8. /\ pc["sleeper"] = "read" /\ efd[1] = 1 =>
           Phase(pc["waker"], "add_read", turns["waker"], turns["sleeper"], 0, efd[2],
                 Len(log["waker"]), Len(log["sleeper"]))
      /\ pc["sleeper"] = "add_read" =>
           /\ Len(log["waker"]) = Len(log["sleeper"]) + 1 /\ Len(log["sleeper"]) < 2 * count
           /\ Phase(pc["waker"], "add_write", turns["waker"], turns["sleeper"], efd[1], efd[2],
                    Len(log["waker"]), Len(log["sleeper"]) + 1)
      /\ pc["sleeper"] = "add_write" =>
           /\ Len(log["waker"]) = Len(log["sleeper"]) /\ Len(log["sleeper"]) < 2 * count
           /\ Phase(pc["waker"], "write", turns["waker"], turns["sleeper"], efd[1], efd[2],
                    Len(log["waker"]), Len(log["sleeper"]) + 1)
      /\ pc["sleeper"] = "write" =>
           /\ efd[2] = 0 /\ turns["sleeper"] < count
           /\ Phase(pc["waker"], IF turns["sleeper"] + 1 < count THEN "read" ELSE "done",
                    turns["waker"], turns["sleeper"] + 1, efd[1], 1,
                    Len(log["waker"]), Len(log["sleeper"]))
      /\ pc["waker"] = "add_write" =>
           /\ Len(log["waker"]) = Len(log["sleeper"]) /\ Len(log["waker"]) < 2 * count
           /\ Phase("write", pc["sleeper"], turns["waker"], turns["sleeper"], efd[1], efd[2],
                    Len(log["waker"]) + 1, Len(log["sleeper"]))
      /\ pc["waker"] = "write" =>
           /\ efd[1] = 0
           /\ Phase("read", pc["sleeper"], turns["waker"], turns["sleeper"], 1, efd[2],
                    Len(log["waker"]), Len(log["sleeper"]))
      /\ pc["waker"] = "read" /\ efd[2] = 1 =>
           Phase("add_read", pc["sleeper"], turns["waker"], turns["sleeper"], efd[1], 0,
                 Len(log["waker"]), Len(log["sleeper"]))
      /\ pc["waker"] = "add_read" =>
           /\ Len(log["sleeper"]) = Len(log["waker"]) + 1 /\ Len(log["waker"]) < 2 * count
           /\ turns["waker"] < count
           /\ Phase(IF turns["waker"] + 1 < count THEN "add_write" ELSE "done", pc["sleeper"],
                    turns["waker"] + 1, turns["sleeper"], efd[1], efd[2],
                    Len(log["waker"]) + 1, Len(log["sleeper"]))
  <2>1. \A t \in Thread : turns[t] \in Nat
    BY <1>1
  <2> QED
    BY <1>1, <1>2, <2>1, PhaseSteps DEF InPhase
<1>10. CASE Sleeper
  <2>1. CASE pc["sleeper"] = "read" /\ Reads(1) /\ Goes("sleeper", "add_read")
             /\ UNCHANGED <<turns, log, overflow, tsc>>
    <3>1. /\ efd[1] = 1 /\ efd'[1] = 0 /\ efd'[2] = efd[2]
          /\ pc'["sleeper"] = "add_read" /\ pc'["waker"] = pc["waker"]
      BY <1>1, <1>4, <1>5, <2>1
    <3>2. LatencyTypeOK'
      BY <1>1, <1>4, <1>5, <2>1 DEF LatencyTypeOK
    <3>3. InPhase'
      BY <1>8, <2>1, <3>1 DEF InPhase
    <3> QED
      BY <1>3, <2>1, <3>2, <3>3
  <2>2. CASE pc["sleeper"] = "add_read" /\ Logs("sleeper", "READ") /\ Goes("sleeper", "add_write")
             /\ UNCHANGED <<turns, efd>>
    <3>1. Len(log["waker"]) = Len(log["sleeper"]) + 1 /\ Len(log["sleeper"]) < 2 * count
      BY <1>8, <2>2
    <3>2. WritesAreLast' /\ PairsAreWakeups'
      BY <1>1, <2>2, <3>1, LogsPair
    <3>3. LatencyTypeOK'
      BY <1>1, <1>4, <2>2, <3>1, LogsEntry DEF LatencyTypeOK
    <3>4. Len(log'["sleeper"]) = Len(log["sleeper"]) + 1 /\ log'["waker"] = log["waker"]
      BY <1>1, <2>2, <3>1, LogsEntry
    <3>5. pc'["sleeper"] = "add_write" /\ pc'["waker"] = pc["waker"]
      BY <1>1, <1>4, <2>2, <3>1
    <3>6. InPhase'
      BY <1>8, <2>2, <3>4, <3>5 DEF InPhase
    <3> QED
      BY <3>2, <3>3, <3>6
  <2>3. CASE pc["sleeper"] = "add_write" /\ Logs("sleeper", "WRITE") /\ Goes("sleeper", "write")
             /\ UNCHANGED <<turns, efd>>
    <3>1. Len(log["waker"]) = Len(log["sleeper"]) /\ Len(log["sleeper"]) < 2 * count
      BY <1>8, <2>3
    <3>2. WritesAreLast' /\ PairsAreWakeups'
      BY <1>1, <2>3, <3>1, LogsPair
    <3>3. LatencyTypeOK'
      BY <1>1, <1>4, <2>3, <3>1, LogsEntry DEF LatencyTypeOK
    <3>4. Len(log'["sleeper"]) = Len(log["sleeper"]) + 1 /\ log'["waker"] = log["waker"]
      BY <1>1, <2>3, <3>1, LogsEntry
    <3>5. pc'["sleeper"] = "write" /\ pc'["waker"] = pc["waker"]
      BY <1>1, <1>4, <2>3, <3>1
    <3>6. InPhase'
      BY <1>8, <2>3, <3>4, <3>5 DEF InPhase
    <3> QED
      BY <3>2, <3>3, <3>6
  <2>4. CASE pc["sleeper"] = "write" /\ Writes(2) /\ Turn("sleeper", "read")
             /\ UNCHANGED <<log, overflow, tsc>>
    <3>1. efd[2] = 0 /\ turns["sleeper"] < count
      BY <1>8, <2>4
    <3>2. /\ efd'[2] = 1 /\ efd'[1] = efd[1]
          /\ turns'["sleeper"] = turns["sleeper"] + 1 /\ turns'["waker"] = turns["waker"]
          /\ pc'["sleeper"] = (IF turns["sleeper"] + 1 < count THEN "read" ELSE "done")
          /\ pc'["waker"] = pc["waker"]
      BY <1>1, <1>6, <1>7, <2>4, <3>1
    <3>3. LatencyTypeOK'
      BY <1>1, <1>6, <1>7, <2>4, <3>1 DEF LatencyTypeOK
    <3>4. InPhase'
      BY <1>8, <2>4, <3>2 DEF InPhase
    <3> QED
      BY <1>3, <2>4, <3>3, <3>4
  <2> QED
    BY <1>10, <2>1, <2>2, <2>3, <2>4 DEF Sleeper
<1>11. CASE Waker
  <2>1. CASE pc["waker"] = "add_write" /\ Logs("waker", "WRITE") /\ Goes("waker", "write")
             /\ UNCHANGED <<turns, efd>>
    <3>1. Len(log["waker"]) = Len(log["sleeper"]) /\ Len(log["waker"]) < 2 * count
      BY <1>8, <2>1
    <3>2. WritesAreLast' /\ PairsAreWakeups'
      BY <1>1, <2>1, <3>1, LogsPair
    <3>3. LatencyTypeOK'
      BY <1>1, <1>4, <2>1, <3>1, LogsEntry DEF LatencyTypeOK
    <3>4. Len(log'["waker"]) = Len(log["waker"]) + 1 /\ log'["sleeper"] = log["sleeper"]
      BY <1>1, <2>1, <3>1, LogsEntry
    <3>5. pc'["waker"] = "write" /\ pc'["sleeper"] = pc["sleeper"]
      BY <1>1, <1>4, <2>1, <3>1
    <3>6. InPhase'
      BY <1>8, <2>1, <3>4, <3>5 DEF InPhase
    <3> QED
      BY <3>2, <3>3, <3>6
  <2>2. CASE pc["waker"] = "write" /\ Writes(1) /\ Goes("waker", "read")
             /\ UNCHANGED <<turns, log, overflow, tsc>>
    <3>1. efd[1] = 0
      BY <1>8, <2>2
    <3>2. /\ efd'[1] = 1 /\ efd'[2] = efd[2]
          /\ pc'["waker"] = "read" /\ pc'["sleeper"] = pc["sleeper"]
      BY <1>1, <1>4, <1>6, <2>2, <3>1
    <3>3. LatencyTypeOK'
      BY <1>1, <1>4, <1>6, <2>2, <3>1 DEF LatencyTypeOK
    <3>4. InPhase'
      BY <1>8, <2>2, <3>2 DEF InPhase
    <3> QED
      BY <1>3, <2>2, <3>3, <3>4
  <2>3. CASE pc["waker"] = "read" /\ Reads(2) /\ Goes("waker", "add_read")
             /\ UNCHANGED <<turns, log, overflow, tsc>>
    <3>1. /\ efd[2] = 1 /\ efd'[2] = 0 /\ efd'[1] = efd[1]
          /\ pc'["waker"] = "add_read" /\ pc'["sleeper"] = pc["sleeper"]
      BY <1>1, <1>4, <1>5, <2>3
    <3>2. LatencyTypeOK'
      BY <1>1, <1>4, <1>5, <2>3 DEF LatencyTypeOK
    <3>3. InPhase'
      BY <1>8, <2>3, <3>1 DEF InPhase
    <3> QED
      BY <1>3, <2>3, <3>2, <3>3
  <2>4. CASE pc["waker"] = "add_read" /\ Logs("waker", "READ") /\ Turn("waker", "add_write")
             /\ UNCHANGED efd
    <3>1. /\ Len(log["sleeper"]) = Len(log["waker"]) + 1 /\ Len(log["waker"]) < 2 * count
          /\ turns["waker"] < count
      BY <1>8, <2>4
    <3>2. WritesAreLast' /\ PairsAreWakeups'
      BY <1>1, <2>4, <3>1, LogsPair
    <3>3. LatencyTypeOK'
      BY <1>1, <1>7, <2>4, <3>1, LogsEntry DEF LatencyTypeOK
    <3>4. Len(log'["waker"]) = Len(log["waker"]) + 1 /\ log'["sleeper"] = log["sleeper"]
      BY <1>1, <2>4, <3>1, LogsEntry
    <3>5. /\ turns'["waker"] = turns["waker"] + 1 /\ turns'["sleeper"] = turns["sleeper"]
          /\ pc'["waker"] = (IF turns["waker"] + 1 < count THEN "add_write" ELSE "done")
          /\ pc'["sleeper"] = pc["sleeper"]
      BY <1>1, <1>7, <2>4, <3>1
    <3>6. InPhase'
      BY <1>8, <2>4, <3>4, <3>5 DEF InPhase
    <3> QED
      BY <3>2, <3>3, <3>6
  <2> QED
    BY <1>11, <2>1, <2>2, <2>3, <2>4 DEF Waker
<1>12. CASE UNCHANGED lvars
  BY <1>1, <1>3, <1>12 DEF lvars, LatencyTypeOK, InPhase
<1> QED
  BY <1>10, <1>11, <1>12 DEF LatencyNext, Joined

\* The variables of the latency tester have their types: an eventfd is 0 or 1.
THEOREM TurnTypeCorrect == LatencySpec => []LatencyTypeOK
<1>1. TurnInv => LatencyTypeOK
  BY DEF TurnInv
<1> QED
  BY <1>1, TurnInitial, TurnStep, PTL DEF LatencySpec

\* write_times subtracts the time of a write from that of the read it woke, for
\* any number of turns, and finds all of them (tester.c, write_times).
THEOREM LatenciesAreWakeups == LatencySpec => []PairsAreWakeups
<1>1. TurnInv => PairsAreWakeups
  BY DEF TurnInv
<1> QED
  BY <1>1, TurnInitial, TurnStep, PTL DEF LatencySpec

-----------------------------------------------------------------------------
(* The batch statistics *)

LEMMA RoundedUp ==
    ASSUME NEW c \in Nat, NEW p \in Nat, p >= 1
    PROVE  ((c + p - 1) \div p) * p \in Nat /\ ((c + p - 1) \div p) * p >= c
<1> DEFINE x == c + p - 1
           q == x \div p
<1>1. x \in Nat /\ q \in Nat /\ x % p \in Nat /\ x % p <= p - 1 /\ x = p * q + (x % p)
  OBVIOUS
<1> HIDE DEF q
<1>2. p * q = q * p /\ p * q \in Nat
  BY <1>1
<1>3. p * q = x - (x % p)
  BY <1>1, <1>2
<1> QED
  BY <1>1, <1>2, <1>3 DEF q

LEMMA StatsSizes ==
    /\ N \in Nat /\ N >= 1 /\ batch_sz \in Nat
    /\ g_batch_hist_len \in Nat /\ g_batch_hist_len >= 1
    /\ g_time_hist_len \in Nat /\ g_time_hist_len >= 1
    /\ Counters \in Nat /\ Counters = 1 + g_batch_hist_len + g_time_hist_len + g_time_hist_len
    /\ g_batch_stride \in Nat /\ g_batch_stride >= Counters
<1>1. /\ N \in Nat /\ N >= 1 /\ batch_sz \in Nat
      /\ g_batch_hist_len \in Nat /\ g_batch_hist_len >= 1
      /\ g_time_hist_len \in Nat /\ g_time_hist_len >= 1 /\ PerLine \in Nat /\ PerLine >= 1
  BY StatsAssumption DEF g_batch_hist_len, g_time_hist_len
<1>2. Counters \in Nat /\ Counters = 1 + g_batch_hist_len + g_time_hist_len + g_time_hist_len
  BY <1>1 DEF Counters
<1> HIDE DEF g_batch_hist_len, g_time_hist_len, Counters
<1> QED
  BY <1>1, <1>2, RoundedUp DEF g_batch_stride

LEMMA Multiples ==
    ASSUME NEW S \in Nat, NEW i \in Nat, NEW j \in Nat, i < j
    PROVE  i * S \in Nat /\ i * S + S <= j * S
<1>1. PICK m \in Nat : j = i + 1 + m
  <2>1. j - i - 1 \in Nat /\ j = i + 1 + (j - i - 1)
    OBVIOUS
  <2> QED
    BY <2>1
<1>2. m * S \in Nat /\ i * S \in Nat
  OBVIOUS
<1>3. (i + 1 + m) * S = i * S + S + m * S
  OBVIOUS
<1> QED
  BY <1>1, <1>2, <1>3

LEMMA Remainder ==
    ASSUME NEW S \in Nat, S >= 1, NEW i \in Nat, NEW k \in 0 .. S - 1
    PROVE  ((i * S + k) % S) = k
<1> DEFINE x == i * S + k
           q == x \div S
           r == (x % S)
<1>1. i * S \in Nat
  OBVIOUS
<1>2. x \in Nat /\ x = i * S + k
  BY <1>1
<1> HIDE DEF x
<1>3. q \in Nat /\ r \in 0 .. S - 1 /\ x = S * q + r
  BY <1>2
<1> HIDE DEF q, r
<1>4. q * S = S * q /\ q * S \in Nat
  BY <1>3
<1>5. q = i
  <2>1. ~(q < i)
    <3>1. q < i => q * S + S <= i * S
      BY <1>3, Multiples
    <3> QED
      BY <1>1, <1>2, <1>3, <1>4, <3>1
  <2>2. ~(i < q)
    <3>1. i < q => i * S + S <= q * S
      BY <1>3, Multiples
    <3> QED
      BY <1>1, <1>2, <1>3, <1>4, <3>1
  <2> QED
    BY <1>3, <2>1, <2>2
<1>6. S * q = i * S
  BY <1>4, <1>5
<1>7. r = k
  BY <1>1, <1>2, <1>3, <1>6
<1> QED
  BY <1>7 DEF r, x

\* The slots of two workers share no cell.
LEMMA SlotsApart ==
    /\ \A i \in Id : /\ slot(i) \in Nat
                     /\ slot(i) + g_batch_stride <= N * g_batch_stride
    /\ \A i, j \in Id : i < j => slot(i) + g_batch_stride <= slot(j)
    /\ N * g_batch_stride \in Nat /\ N * g_batch_stride >= 1
<1> DEFINE S == g_batch_stride
<1>1. S \in Nat /\ S >= 1 /\ N \in Nat /\ N >= 1
  BY StatsSizes
<1> HIDE DEF S
<1>2. \A i, j \in Nat : i < j => i * S \in Nat /\ i * S + S <= j * S
  BY <1>1, Multiples
<1>3. \A i \in Id : i \in Nat /\ i < N
  BY <1>1 DEF Id
<1>4. N * S \in Nat /\ N * S >= 1
  <2>1. 0 * S + S <= N * S /\ 0 * S = 0 /\ N * S \in Nat
    BY <1>1, <1>2
  <2> QED
    BY <1>1, <2>1
<1> QED
  BY <1>1, <1>2, <1>3, <1>4 DEF slot, S

SizeCells(i)   == Cells(i, 1, g_batch_hist_len)
UserCells(i)   == Cells(i, 1 + g_batch_hist_len, g_time_hist_len)
KernelCells(i) == Cells(i, 1 + g_batch_hist_len + g_time_hist_len, g_time_hist_len)
SlotCells(i)   == slot(i) .. slot(i) + Counters - 1

LEMMA CellsApart ==
    /\ \A i \in Id : /\ slot(i) \in SlotCells(i) /\ SlotCells(i) \subseteq Cell
                     /\ SizeCells(i) \subseteq SlotCells(i)
                     /\ UserCells(i) \subseteq SlotCells(i)
                     /\ KernelCells(i) \subseteq SlotCells(i)
                     /\ \A c \in SizeCells(i) : c # slot(i) /\ c \notin UserCells(i) /\ c \notin KernelCells(i)
                     /\ \A c \in UserCells(i) : c # slot(i) /\ c \notin KernelCells(i)
                     /\ \A c \in KernelCells(i) : c # slot(i)
    /\ \A i, j \in Id : i # j => \A c \in SlotCells(i) : c \notin SlotCells(j)
<1>1. \A i \in Id : slot(i) \in Nat /\ slot(i) + g_batch_stride <= N * g_batch_stride
  BY SlotsApart
<1>2. N * g_batch_stride \in Nat
  BY SlotsApart
<1> DEFINE H == g_batch_hist_len
           T == g_time_hist_len
           S == g_batch_stride
           M == N * S
<1>3. /\ H \in Nat /\ H >= 1 /\ T \in Nat /\ T >= 1 /\ S \in Nat /\ S >= 1 + H + T + T /\ M \in Nat
      /\ Counters = 1 + H + T + T
  BY StatsSizes, <1>2
<1>4. Cell = 0 .. M - 1
  BY DEF Cell
<1> HIDE DEF H, T, S, M
<1>5. ASSUME NEW i \in Id
      PROVE  /\ slot(i) \in SlotCells(i) /\ SlotCells(i) \subseteq Cell
             /\ SizeCells(i) \subseteq SlotCells(i)
             /\ UserCells(i) \subseteq SlotCells(i)
             /\ KernelCells(i) \subseteq SlotCells(i)
             /\ \A c \in SizeCells(i) : c # slot(i) /\ c \notin UserCells(i) /\ c \notin KernelCells(i)
             /\ \A c \in UserCells(i) : c # slot(i) /\ c \notin KernelCells(i)
             /\ \A c \in KernelCells(i) : c # slot(i)
  <2> DEFINE s == slot(i)
  <2>1. s \in Nat /\ s + S <= M
    BY <1>1 DEF S, M
  <2>2. /\ SizeCells(i) = s + 1 .. s + 1 + H - 1
        /\ UserCells(i) = s + (1 + H) .. s + (1 + H) + T - 1
        /\ KernelCells(i) = s + (1 + H + T) .. s + (1 + H + T) + T - 1
        /\ SlotCells(i) = s .. s + (1 + H + T + T) - 1
    BY <1>3 DEF SizeCells, UserCells, KernelCells, SlotCells, Cells, H, T
  <2> HIDE DEF s
  <2>3. /\ s \in SlotCells(i) /\ SlotCells(i) \subseteq Cell
        /\ SizeCells(i) \subseteq SlotCells(i)
        /\ UserCells(i) \subseteq SlotCells(i)
        /\ KernelCells(i) \subseteq SlotCells(i)
        /\ \A c \in SizeCells(i) : c # s /\ c \notin UserCells(i) /\ c \notin KernelCells(i)
        /\ \A c \in UserCells(i) : c # s /\ c \notin KernelCells(i)
        /\ \A c \in KernelCells(i) : c # s
    BY <1>3, <1>4, <2>1, <2>2
  <2> QED
    BY <2>3 DEF s
<1>6. ASSUME NEW i \in Id, NEW j \in Id, i # j, NEW c \in SlotCells(i) PROVE c \notin SlotCells(j)
  <2>1. i \in Int /\ j \in Int /\ (i < j \/ j < i)
    BY <1>6 DEF Id
  <2>2. /\ i < j => slot(i) + g_batch_stride <= slot(j)
        /\ j < i => slot(j) + g_batch_stride <= slot(i)
    BY SlotsApart
  <2>3. slot(i) \in Nat /\ slot(j) \in Nat /\ Counters \in Nat
        /\ g_batch_stride \in Nat /\ g_batch_stride >= Counters
    BY <1>1, StatsSizes
  <2>4. c \in slot(i) .. slot(i) + Counters - 1
    BY <1>6 DEF SlotCells
  <2>5. ~(c \in slot(j) .. slot(j) + Counters - 1)
    BY <2>1, <2>2, <2>3, <2>4
  <2> QED
    BY <2>5 DEF SlotCells
<1> QED
  BY <1>5, <1>6


\* An increment is one more mark, in the cells it belongs to.
LEMMA MarksMore ==
    ASSUME NEW C \in SUBSET Cell, stats \in [Cell -> Nat], IsFiniteSet(Marks(C)), NEW h \in Cell,
           stats' = [stats EXCEPT ![h] = stats[h] + 1]
    PROVE  /\ IsFiniteSet(Marks(C)') /\ Cardinality(Marks(C)) \in Nat
           /\ Cardinality(Marks(C)') = Cardinality(Marks(C)) + IF h \in C THEN 1 ELSE 0
<1> DEFINE y == <<h, stats[h] + 1>>
<1>1. \A x : x \in Marks(C) <=> \E c \in C : \E k \in 1 .. stats[c] : x = <<c, k>>
  BY DEF Marks
<1>2. \A x : x \in Marks(C)' <=> \E c \in C : \E k \in 1 .. stats'[c] : x = <<c, k>>
  BY DEF Marks
<1>3. ASSUME NEW c \in C, NEW k
      PROVE  k \in 1 .. stats'[c] <=> k \in 1 .. stats[c] \/ (c = h /\ k = stats[h] + 1)
  <2>1. stats[c] \in Nat /\ stats'[c] = IF c = h THEN stats[c] + 1 ELSE stats[c]
    OBVIOUS
  <2>2. \A m \in Nat : k \in 1 .. m + 1 <=> k \in 1 .. m \/ k = m + 1
    OBVIOUS
  <2> QED
    BY <2>1, <2>2
<1>4. Cardinality(Marks(C)) \in Nat
  BY FS_CardinalityType
<1>5. CASE h \in C
  <2>1. y \notin Marks(C)
    <3>1. stats[h] \in Nat /\ ~(stats[h] + 1 \in 1 .. stats[h])
      OBVIOUS
    <3> QED
      BY <1>1, <3>1
  <2>2. \A x : x \in Marks(C)' <=> x \in Marks(C) \cup {y}
    BY <1>1, <1>2, <1>3, <1>5
  <2> HIDE DEF y
  <2>3. Marks(C)' = Marks(C) \cup {y}
    BY <2>2
  <2> QED
    BY <1>4, <1>5, <2>1, <2>3, FS_AddElement
<1>6. CASE h \notin C
  <2>1. \A x : x \in Marks(C)' <=> x \in Marks(C)
    BY <1>1, <1>2, <1>3, <1>6
  <2>2. Marks(C)' = Marks(C)
    BY <2>1
  <2> QED
    BY <1>4, <1>6, <2>2
<1> QED
  BY <1>5, <1>6

\* What a worker still has to count for its batch, the last counter last.
Counting(i) ==
    /\ Len(todo[i]) <= 4
    /\ Len(todo[i]) >= 1 => todo[i][Len(todo[i])] \in SizeCells(i) /\ batches[i] >= 1
    /\ Len(todo[i]) >= 2 => todo[i][Len(todo[i]) - 1] = slot(i)
    /\ Len(todo[i]) >= 3 => todo[i][Len(todo[i]) - 2] \in KernelCells(i)
    /\ Len(todo[i]) >= 4 => todo[i][Len(todo[i]) - 3] \in UserCells(i) /\ batches[i] >= 2

\* Nobody else writes the counter between its load and its store, but a reset does.
Loaded(i) == reg[i] # None =>
    /\ todo[i] # <<>> /\ stats[Head(todo[i])] <= reg[i]
    /\ resets = 0 => stats[Head(todo[i])] = reg[i]

\* The histograms of a worker in the middle of a batch.
Lacks(i, n) == IF Len(todo[i]) >= n THEN 1 ELSE 0
Totals(i) ==
    /\ IsFiniteSet(Marks(SizeCells(i))) /\ IsFiniteSet(Marks(UserCells(i)))
    /\ IsFiniteSet(Marks(KernelCells(i)))
    /\ stats[slot(i)] = batches[i] - Lacks(i, 2)
    /\ Cardinality(Marks(SizeCells(i))) = batches[i] - Lacks(i, 1)
    /\ Cardinality(Marks(KernelCells(i))) = batches[i] - Lacks(i, 3)
    /\ Cardinality(Marks(UserCells(i))) =
         (IF batches[i] = 0 THEN 0 ELSE batches[i] - 1) - Lacks(i, 4)

Worker(i) == Counting(i) /\ Loaded(i) /\ (resets = 0 => Totals(i))

\* The monitor prints counters, never the padding of a slot.
Printing == mpc = "print" => \E i \in Id : pos \in SlotCells(i)

StatsInv ==
    /\ StatsTypeOK /\ NoUnderflow /\ Printing
    /\ \A i \in Id : Worker(i)
    /\ resets = 0 => stats = counted

\* The counters a batch is counted in.
LEMMA CountsAre ==
    ASSUME NEW i \in Id, batches[i] \in Nat, NEW ret \in 0 .. batch_sz,
           NEW u \in 0 .. MaxNs, NEW k \in 0 .. MaxNs
    PROVE  \E x \in UserCells(i), y \in KernelCells(i), z \in SizeCells(i) :
             Counts(i, ret, u, k) = IF batches[i] = 0 THEN <<y, slot(i), z>> ELSE <<x, y, slot(i), z>>
<1> DEFINE H == g_batch_hist_len
           T == g_time_hist_len
           s == slot(i)
<1>1. H \in Nat /\ H >= 1 /\ T \in Nat /\ T >= 1 /\ s \in Nat
  BY StatsSizes, SlotsApart
<1>2. \A d \in 0 .. MaxNs : Log2(d) \in Nat /\ TimeBucket(d) \in 0 .. T - 1
  <2> TAKE d \in 0 .. MaxNs
  <2> DEFINE P == { j \in 1 .. d : 2^j <= d }
  <2>1. IsFiniteSet(1 .. d) /\ P \in SUBSET (1 .. d)
    <3>1. d \in Int /\ 1 \in Int
      BY StatsAssumption
    <3> QED
      BY <3>1, FS_Interval
  <2>2. Cardinality(P) \in Nat
    BY <2>1, FS_Subset, FS_CardinalityType
  <2>3. Log2(d) \in Nat
    BY <2>2 DEF Log2
  <2> HIDE DEF P
  <2>4. TimeBucket(d) = IF Log2(d) >= T THEN T - 1 ELSE Log2(d)
    BY DEF TimeBucket
  <2> HIDE DEF T
  <2> QED
    BY <1>1, <2>3, <2>4
<1>3. SizeBucket(ret) \in 0 .. H - 1
  <2>1. ret \in Nat
    BY StatsSizes
  <2>2. SizeBucket(ret) = IF ret >= H THEN H - 1 ELSE ret
    BY DEF SizeBucket
  <2> HIDE DEF H
  <2> QED
    BY <1>1, <2>1, <2>2
<1> DEFINE x == s + 1 + H + TimeBucket(u)
           y == s + 1 + H + T + TimeBucket(k)
           z == s + 1 + SizeBucket(ret)
<1>4. Counts(i, ret, u, k) = IF batches[i] = 0 THEN <<y, s, z>> ELSE <<x, y, s, z>>
  BY DEF Counts
<1>5. /\ UserCells(i) = s + (1 + H) .. s + (1 + H) + T - 1
      /\ KernelCells(i) = s + (1 + H + T) .. s + (1 + H + T) + T - 1
      /\ SizeCells(i) = s + 1 .. s + 1 + H - 1
  BY DEF UserCells, KernelCells, SizeCells, Cells
<1>6. x \in UserCells(i) /\ y \in KernelCells(i) /\ z \in SizeCells(i)
  <2> DEFINE a == TimeBucket(u)
             b == TimeBucket(k)
             c == SizeBucket(ret)
  <2>1. a \in 0 .. T - 1
    BY <1>2
  <2>2. b \in 0 .. T - 1
    BY <1>2
  <2>3. c \in 0 .. H - 1
    BY <1>3
  <2>4. x = s + 1 + H + a /\ y = s + 1 + H + T + b /\ z = s + 1 + c
    OBVIOUS
  <2> HIDE DEF a, b, c, x, y, z, H, T, s
  <2>5. x \in s + (1 + H) .. s + (1 + H) + T - 1
    BY <1>1, <2>1, <2>4
  <2>6. y \in s + (1 + H + T) .. s + (1 + H + T) + T - 1
    BY <1>1, <2>2, <2>4
  <2>7. z \in s + 1 .. s + 1 + H - 1
    BY <1>1, <2>3, <2>4
  <2> QED
    BY <1>5, <2>5, <2>6, <2>7
<1> QED
  BY <1>4, <1>6

LEMMA StatsInitial == StatsInit => StatsInv
<1> SUFFICES ASSUME StatsInit PROVE StatsInv
  OBVIOUS
<1>1. Cell = 0 .. N * g_batch_stride - 1 /\ N * g_batch_stride \in Nat /\ N * g_batch_stride >= 1
  BY SlotsApart DEF Cell
<1>2. StatsTypeOK
  BY <1>1 DEF StatsTypeOK, StatsInit, Zero, None
<1>3. NoUnderflow /\ Printing /\ stats = counted
  BY DEF NoUnderflow, Printing, StatsInit, Zero
<1>4. ASSUME NEW i \in Id PROVE Worker(i)
  <2>1. todo[i] = <<>> /\ reg[i] = None /\ batches[i] = 0 /\ Len(todo[i]) = 0
    BY DEF StatsInit
  <2>2. ASSUME NEW C \in SUBSET Cell PROVE IsFiniteSet(Marks(C)) /\ Cardinality(Marks(C)) = 0
    <3>1. \A c \in C : stats[c] = 0
      BY DEF StatsInit, Zero
    <3>2. \A c \in C : 1 .. stats[c] = {}
      BY <3>1
    <3>3. Marks(C) = {}
      BY <3>2 DEF Marks
    <3> QED
      BY <3>3, FS_EmptySet
  <2>3. /\ SizeCells(i) \in SUBSET Cell /\ UserCells(i) \in SUBSET Cell
        /\ KernelCells(i) \in SUBSET Cell /\ slot(i) \in Cell
    BY CellsApart
  <2>4. stats[slot(i)] = 0
    BY <2>3 DEF StatsInit, Zero
  <2>5. Totals(i)
    <3>1. \A n \in 1 .. 4 : Lacks(i, n) = 0
      BY <2>1 DEF Lacks
    <3>2. Lacks(i, 1) = 0 /\ Lacks(i, 2) = 0 /\ Lacks(i, 3) = 0 /\ Lacks(i, 4) = 0
      BY <3>1
    <3> QED
      BY <2>1, <2>2, <2>3, <2>4, <3>2 DEF Totals
  <2>6. Counting(i) /\ Loaded(i)
    BY <2>1 DEF Counting, Loaded
  <2> QED
    BY <2>5, <2>6 DEF Worker
<1> QED
  BY <1>2, <1>3, <1>4 DEF StatsInv

LEMMA MarksSame ==
    ASSUME NEW C, \A c \in C : stats'[c] = stats[c]
    PROVE  Marks(C)' = Marks(C)
<1>1. \A x : x \in Marks(C) <=> \E c \in C : \E k \in 1 .. stats[c] : x = <<c, k>>
  BY DEF Marks
<1>2. \A x : x \in Marks(C)' <=> \E c \in C : \E k \in 1 .. stats'[c] : x = <<c, k>>
  BY DEF Marks
<1>3. \A x : x \in Marks(C)' <=> x \in Marks(C)
  BY <1>1, <1>2
<1> QED
  BY <1>3

LEMMA SameCells ==
    \A i \in Id : /\ SizeCells(i)' = SizeCells(i) /\ UserCells(i)' = UserCells(i)
                  /\ KernelCells(i)' = KernelCells(i) /\ SlotCells(i)' = SlotCells(i)
                  /\ slot(i)' = slot(i)
BY DEF SizeCells, UserCells, KernelCells, SlotCells, Cells, slot

\* A sequence and what is left when its first element is taken.
LEMMA TailOf ==
    ASSUME NEW S, NEW q \in Seq(S), q # <<>>
    PROVE  /\ Head(q) \in S /\ Head(q) = q[1] /\ Tail(q) \in Seq(S)
           /\ Len(q) \in Nat /\ Len(q) >= 1 /\ Len(Tail(q)) = Len(q) - 1
           /\ \A n \in 1 .. Len(q) - 1 : Tail(q)[n] = q[n + 1]
  OBVIOUS

\* The next counter of a worker is one of its own.
LEMMA NextCounter ==
    ASSUME NEW i \in Id, todo[i] \in Seq(Cell), Counting(i), todo[i] # <<>>
    PROVE  /\ Head(todo[i]) = todo[i][1] /\ Head(todo[i]) \in SlotCells(i)
           /\ \/ Len(todo[i]) = 1 /\ Head(todo[i]) \in SizeCells(i)
              \/ Len(todo[i]) = 2 /\ Head(todo[i]) = slot(i)
              \/ Len(todo[i]) = 3 /\ Head(todo[i]) \in KernelCells(i)
              \/ Len(todo[i]) = 4 /\ Head(todo[i]) \in UserCells(i)
<1> DEFINE q == todo[i]
<1>1. Len(q) \in Nat /\ Len(q) >= 1 /\ Head(q) = q[1]
  BY TailOf
<1>2. /\ Len(q) <= 4
      /\ Len(q) >= 1 => q[Len(q)] \in SizeCells(i)
      /\ Len(q) >= 2 => q[Len(q) - 1] = slot(i)
      /\ Len(q) >= 3 => q[Len(q) - 2] \in KernelCells(i)
      /\ Len(q) >= 4 => q[Len(q) - 3] \in UserCells(i)
  BY Zenon DEF Counting
<1> HIDE DEF q
<1>3. Len(q) = 1 \/ Len(q) = 2 \/ Len(q) = 3 \/ Len(q) = 4
  <2>1. \A n \in Nat : n >= 1 /\ n <= 4 => n = 1 \/ n = 2 \/ n = 3 \/ n = 4
    OBVIOUS
  <2> QED
    BY <1>1, <1>2, <2>1
<1>4. \/ Len(q) = 1 /\ Head(q) \in SizeCells(i)
      \/ Len(q) = 2 /\ Head(q) = slot(i)
      \/ Len(q) = 3 /\ Head(q) \in KernelCells(i)
      \/ Len(q) = 4 /\ Head(q) \in UserCells(i)
  <2>1. 2 - 1 = 1 /\ 3 - 2 = 1 /\ 4 - 3 = 1 /\ 1 >= 1 /\ 2 >= 2 /\ 3 >= 3 /\ 4 >= 4
    OBVIOUS
  <2> QED
    BY <1>1, <1>2, <1>3, <2>1, Zenon
<1>5. Head(q) \in SlotCells(i)
  BY <1>4, CellsApart
<1> QED
  BY <1>1, <1>4, <1>5 DEF q

LEMMA WorkerStays ==
    ASSUME NEW j \in Id, todo[j] \in Seq(Cell), Worker(j),
           \A c \in SlotCells(j) : stats'[c] = stats[c],
           todo'[j] = todo[j], reg'[j] = reg[j], batches'[j] = batches[j], resets' = resets
    PROVE  Worker(j)'
<1>1. /\ slot(j) \in SlotCells(j) /\ SizeCells(j) \subseteq SlotCells(j)
      /\ UserCells(j) \subseteq SlotCells(j) /\ KernelCells(j) \subseteq SlotCells(j)
  BY CellsApart
<1>2. Counting(j)'
  BY DEF Worker, Counting, SizeCells, KernelCells, UserCells, Cells
<1>3. Loaded(j)'
  BY NextCounter DEF Worker, Loaded
<1>4. /\ Marks(SizeCells(j))' = Marks(SizeCells(j)) /\ Marks(UserCells(j))' = Marks(UserCells(j))
      /\ Marks(KernelCells(j))' = Marks(KernelCells(j)) /\ stats'[slot(j)] = stats[slot(j)]
  BY <1>1, MarksSame DEF SizeCells, KernelCells, UserCells, Cells
<1>5. resets' = 0 => Totals(j)'
  BY <1>4 DEF Worker, Totals, Lacks
<1> QED
  BY <1>2, <1>3, <1>5 DEF Worker

LEMMA BatchKeeps == ASSUME NEW i \in Id, StatsInv, Batch(i) PROVE StatsInv'
<1>1. todo[i] = <<>> /\ batches[i] \in Nat /\ todo \in [Id -> Seq(Cell)] /\ batches \in [Id -> Nat]
  BY DEF StatsInv, StatsTypeOK, Batch
<1>2. PICK ret \in 0 .. batch_sz, u \in 0 .. MaxNs, k \in 0 .. MaxNs :
        todo' = [todo EXCEPT ![i] = Counts(i, ret, u, k)]
  BY DEF Batch
<1>3. PICK x \in UserCells(i), y \in KernelCells(i), z \in SizeCells(i) :
        Counts(i, ret, u, k) = IF batches[i] = 0 THEN <<y, slot(i), z>> ELSE <<x, y, slot(i), z>>
  BY <1>1, CountsAre
<1>4. todo'[i] = IF batches[i] = 0 THEN <<y, slot(i), z>> ELSE <<x, y, slot(i), z>>
  BY <1>1, <1>2, <1>3
<1>5. x \in Cell /\ y \in Cell /\ z \in Cell /\ slot(i) \in Cell
  BY CellsApart
<1>6. batches'[i] = batches[i] + 1 /\ batches' \in [Id -> Nat]
  BY <1>1 DEF Batch
<1>7. UNCHANGED <<stats, prev, reg, counted, reported, mpc, pos, ticks, resets>>
  BY DEF Batch, mvars
<1>8. StatsTypeOK'
  <2>1. todo'[i] \in Seq(Cell)
    BY <1>4, <1>5
  <2>2. todo' \in [Id -> Seq(Cell)]
    BY <1>1, <1>2, <2>1
  <2> QED
    BY <1>6, <1>7, <2>2 DEF StatsInv, StatsTypeOK
<1>9. Worker(i)'
  <2>1. Loaded(i)'
    <3>1. reg[i] = None
      BY <1>1 DEF StatsInv, Worker, Loaded
    <3> QED
      BY <1>7, <3>1 DEF Loaded
  <2>2. Counting(i)'
    <3>1. CASE batches[i] = 0
      <4> DEFINE q == <<y, slot(i), z>>
      <4>1. Len(q) = 3 /\ q[3] = z /\ q[3 - 1] = slot(i) /\ q[3 - 2] = y
        OBVIOUS
      <4>2. todo'[i] = q
        BY <1>4, <3>1
      <4>3. batches'[i] >= 1 /\ 3 <= 4 /\ 3 >= 1 /\ 3 >= 2 /\ 3 >= 3 /\ ~(3 >= 4)
        BY <1>1, <1>6
      <4> HIDE DEF q
      <4> QED
        BY <1>1, <1>6, <4>1, <4>2, <4>3, SameCells DEF Counting
    <3>2. CASE batches[i] # 0
      <4> DEFINE q == <<x, y, slot(i), z>>
      <4>1. Len(q) = 4 /\ q[4] = z /\ q[4 - 1] = slot(i) /\ q[4 - 2] = y /\ q[4 - 3] = x
        OBVIOUS
      <4>2. todo'[i] = q
        BY <1>4, <3>2
      <4> HIDE DEF q
      <4>3. batches'[i] >= 1 /\ batches'[i] >= 2 /\ 4 <= 4 /\ 4 >= 1 /\ 4 >= 2 /\ 4 >= 3 /\ 4 >= 4
        BY <1>1, <1>6, <3>2
      <4> QED
        BY <4>1, <4>2, <4>3, SameCells DEF Counting
    <3> QED
      BY <3>1, <3>2
  <2>3. ASSUME resets' = 0 PROVE Totals(i)'
    <3>1. /\ IsFiniteSet(Marks(SizeCells(i))) /\ IsFiniteSet(Marks(UserCells(i)))
          /\ IsFiniteSet(Marks(KernelCells(i)))
          /\ stats[slot(i)] = batches[i]
          /\ Cardinality(Marks(SizeCells(i))) = batches[i]
          /\ Cardinality(Marks(KernelCells(i))) = batches[i]
          /\ Cardinality(Marks(UserCells(i))) = IF batches[i] = 0 THEN 0 ELSE batches[i] - 1
      <4>1. Lacks(i, 1) = 0 /\ Lacks(i, 2) = 0 /\ Lacks(i, 3) = 0 /\ Lacks(i, 4) = 0
        <5>1. Len(todo[i]) = 0
          BY <1>1
        <5> QED
          BY <5>1 DEF Lacks
      <4>2. Totals(i)
        BY <1>7, <2>3 DEF StatsInv, Worker
      <4> QED
        BY <1>1, <4>1, <4>2 DEF Totals
    <3>2. /\ Marks(SizeCells(i))' = Marks(SizeCells(i)) /\ Marks(UserCells(i))' = Marks(UserCells(i))
          /\ Marks(KernelCells(i))' = Marks(KernelCells(i)) /\ stats'[slot(i)] = stats[slot(i)]
      BY <1>7 DEF Marks, SizeCells, UserCells, KernelCells, Cells
    <3>3. CASE batches[i] = 0
      <4>1. Len(todo'[i]) = 3
        <5>1. todo'[i] = <<y, slot(i), z>>
          BY <1>4, <3>3
        <5> QED
          BY <5>1
      <4>2. Lacks(i, 1)' = 1 /\ Lacks(i, 2)' = 1 /\ Lacks(i, 3)' = 1 /\ Lacks(i, 4)' = 0
        BY <4>1 DEF Lacks
      <4>3. batches[i] = 0 /\ batches'[i] = 1
        BY <1>6, <3>3
      <4>4. /\ stats'[slot(i)] = 1 - 1
            /\ Cardinality(Marks(SizeCells(i))') = 1 - 1
            /\ Cardinality(Marks(KernelCells(i))') = 1 - 1
            /\ Cardinality(Marks(UserCells(i))') = (IF 1 = 0 THEN 0 ELSE 1 - 1) - 0
        BY <3>1, <3>2, <4>3
      <4>5. /\ IsFiniteSet(Marks(SizeCells(i))') /\ IsFiniteSet(Marks(UserCells(i))')
            /\ IsFiniteSet(Marks(KernelCells(i))')
        BY <3>1, <3>2
      <4> QED
        BY <4>2, <4>3, <4>4, <4>5, SameCells DEF Totals
    <3>4. CASE batches[i] # 0
      <4>1. Len(todo'[i]) = 4
        <5>1. todo'[i] = <<x, y, slot(i), z>>
          BY <1>4, <3>4
        <5> QED
          BY <5>1
      <4>2. Lacks(i, 1)' = 1 /\ Lacks(i, 2)' = 1 /\ Lacks(i, 3)' = 1 /\ Lacks(i, 4)' = 1
        BY <4>1 DEF Lacks
      <4> QED
        BY <1>1, <1>6, <3>1, <3>2, <3>4, <4>2 DEF Totals
    <3> QED
      BY <3>3, <3>4
  <2> QED
    BY <2>1, <2>2, <2>3 DEF Worker
<1>10. ASSUME NEW j \in Id, j # i PROVE Worker(j)'
  <2>1. todo'[j] = todo[j] /\ batches'[j] = batches[j] /\ todo[j] \in Seq(Cell) /\ Worker(j)
    BY <1>1, <1>2, <1>10 DEF Batch, StatsInv
  <2> QED
    BY <1>7, <2>1, WorkerStays
<1>11. NoUnderflow' /\ Printing' /\ (resets' = 0 => stats' = counted')
  BY <1>7 DEF StatsInv, NoUnderflow, Printing, SlotCells
<1> QED
  BY <1>8, <1>9, <1>10, <1>11 DEF StatsInv

LEMMA LoadKeeps == ASSUME NEW i \in Id, StatsInv, Load(i) PROVE StatsInv'
<1>1. UNCHANGED <<stats, prev, todo, batches, counted, reported, mpc, pos, ticks, resets>>
  BY DEF Load, mvars
<1>2. todo[i] \in Seq(Cell) /\ todo[i] # <<>> /\ reg \in [Id -> Nat \cup {None}] /\ stats \in [Cell -> Nat]
  BY DEF StatsInv, StatsTypeOK, Load
<1>3. Head(todo[i]) \in Cell
  BY <1>2, TailOf
<1>4. reg' = [reg EXCEPT ![i] = stats[Head(todo[i])]]
  BY DEF Load
<1>5. stats[Head(todo[i])] \in Nat
  BY <1>2, <1>3
<1>6. StatsTypeOK'
  BY <1>1, <1>2, <1>4, <1>5 DEF StatsInv, StatsTypeOK
<1>7. Worker(i)'
  <2>1. Loaded(i)'
    BY <1>1, <1>2, <1>4, <1>5 DEF Loaded
  <2>2. Counting(i)'
    BY <1>1 DEF StatsInv, Worker, Counting, SizeCells, KernelCells, UserCells, Cells
  <2>3. resets' = 0 => Totals(i)'
    <3>1. /\ Marks(SizeCells(i))' = Marks(SizeCells(i)) /\ Marks(UserCells(i))' = Marks(UserCells(i))
          /\ Marks(KernelCells(i))' = Marks(KernelCells(i))
      BY <1>1, SameCells DEF Marks
    <3> QED
      BY <1>1, <3>1, SameCells DEF StatsInv, Worker, Totals, Lacks
  <2> QED
    BY <2>1, <2>2, <2>3 DEF Worker
<1>8. ASSUME NEW j \in Id, j # i PROVE Worker(j)'
  <2>1. reg'[j] = reg[j] /\ todo[j] \in Seq(Cell) /\ Worker(j)
    BY <1>2, <1>4, <1>8 DEF StatsInv, StatsTypeOK
  <2> QED
    BY <1>1, <2>1, WorkerStays
<1>9. NoUnderflow' /\ Printing' /\ (resets' = 0 => stats' = counted')
  BY <1>1 DEF StatsInv, NoUnderflow, Printing, SlotCells
<1> QED
  BY <1>6, <1>7, <1>8, <1>9 DEF StatsInv

\* A store counts what the batch lacked.
LEMMA StoreTotals ==
    ASSUME NEW i \in Id, StatsTypeOK, todo[i] # <<>>, Counting(i), Totals(i),
           stats' = [stats EXCEPT ![Head(todo[i])] = stats[Head(todo[i])] + 1],
           todo'[i] = Tail(todo[i]), batches' = batches
    PROVE  Totals(i)'
<1> DEFINE h == Head(todo[i])
           L == Len(todo[i])
<1>1. todo[i] \in Seq(Cell) /\ stats \in [Cell -> Nat] /\ batches[i] \in Nat
  BY DEF StatsTypeOK
<1>2. h \in Cell /\ L \in Nat /\ Len(todo'[i]) = L - 1
  BY <1>1, TailOf
<1>3. /\ SizeCells(i) \in SUBSET Cell /\ UserCells(i) \in SUBSET Cell
      /\ KernelCells(i) \in SUBSET Cell /\ slot(i) \in Cell
  BY CellsApart
<1>4. /\ IsFiniteSet(Marks(SizeCells(i))) /\ IsFiniteSet(Marks(UserCells(i)))
      /\ IsFiniteSet(Marks(KernelCells(i)))
  BY DEF Totals
<1>5. stats' = [stats EXCEPT ![h] = stats[h] + 1]
  OBVIOUS
<1>6. stats'[slot(i)] = stats[slot(i)] + IF h = slot(i) THEN 1 ELSE 0
  BY <1>1, <1>2, <1>3, <1>5
<1>7. /\ IsFiniteSet(Marks(SizeCells(i))')
      /\ Cardinality(Marks(SizeCells(i))') =
           Cardinality(Marks(SizeCells(i))) + IF h \in SizeCells(i) THEN 1 ELSE 0
  BY <1>1, <1>2, <1>3, <1>4, <1>5, MarksMore
<1>8. /\ IsFiniteSet(Marks(UserCells(i))')
      /\ Cardinality(Marks(UserCells(i))') =
           Cardinality(Marks(UserCells(i))) + IF h \in UserCells(i) THEN 1 ELSE 0
  BY <1>1, <1>2, <1>3, <1>4, <1>5, MarksMore
<1>9. /\ IsFiniteSet(Marks(KernelCells(i))')
      /\ Cardinality(Marks(KernelCells(i))') =
           Cardinality(Marks(KernelCells(i))) + IF h \in KernelCells(i) THEN 1 ELSE 0
  BY <1>1, <1>2, <1>3, <1>4, <1>5, MarksMore
<1> DEFINE E(n) == IF L = n THEN 1 ELSE 0
<1>10. /\ Lacks(i, 1)' = Lacks(i, 1) - E(1) /\ Lacks(i, 2)' = Lacks(i, 2) - E(2)
       /\ Lacks(i, 3)' = Lacks(i, 3) - E(3) /\ Lacks(i, 4)' = Lacks(i, 4) - E(4)
  <2>1. \A m \in Nat, n \in Nat : (IF m - 1 >= n THEN 1 ELSE 0)
                                = (IF m >= n THEN 1 ELSE 0) - (IF m = n THEN 1 ELSE 0)
    OBVIOUS
  <2>2. \A n \in Nat : (IF Len(todo'[i]) >= n THEN 1 ELSE 0) = (IF L >= n THEN 1 ELSE 0) - E(n)
    BY <1>2, <2>1
  <2> HIDE DEF E
  <2> QED
    BY <2>2 DEF Lacks
<1>11. /\ h \in SizeCells(i) <=> L = 1
       /\ h = slot(i) <=> L = 2
       /\ h \in KernelCells(i) <=> L = 3
       /\ h \in UserCells(i) <=> L = 4
  <2>1. \/ L = 1 /\ h \in SizeCells(i)
        \/ L = 2 /\ h = slot(i)
        \/ L = 3 /\ h \in KernelCells(i)
        \/ L = 4 /\ h \in UserCells(i)
    BY <1>1, NextCounter
  <2> HIDE DEF h, L
  <2> QED
    BY <2>1, CellsApart
<1>12. /\ stats[slot(i)] = batches[i] - Lacks(i, 2)
       /\ Cardinality(Marks(SizeCells(i))) = batches[i] - Lacks(i, 1)
       /\ Cardinality(Marks(KernelCells(i))) = batches[i] - Lacks(i, 3)
       /\ Cardinality(Marks(UserCells(i))) =
            (IF batches[i] = 0 THEN 0 ELSE batches[i] - 1) - Lacks(i, 4)
  BY DEF Totals
<1>13. /\ Lacks(i, 1) \in Int /\ Lacks(i, 2) \in Int /\ Lacks(i, 3) \in Int /\ Lacks(i, 4) \in Int
       /\ E(1) \in Int /\ E(2) \in Int /\ E(3) \in Int /\ E(4) \in Int
  BY DEF Lacks
<1>14. /\ stats'[slot(i)] = stats[slot(i)] + E(2)
       /\ Cardinality(Marks(SizeCells(i))') = Cardinality(Marks(SizeCells(i))) + E(1)
       /\ Cardinality(Marks(KernelCells(i))') = Cardinality(Marks(KernelCells(i))) + E(3)
       /\ Cardinality(Marks(UserCells(i))') = Cardinality(Marks(UserCells(i))) + E(4)
  BY <1>6, <1>7, <1>8, <1>9, <1>11
<1> DEFINE user == IF batches[i] = 0 THEN 0 ELSE batches[i] - 1
<1>15. batches[i] \in Int /\ user \in Int
  BY <1>1
<1> HIDE DEF h, L, E
<1>16. stats'[slot(i)] = batches[i] - Lacks(i, 2)'
  <2>1. stats'[slot(i)] = stats[slot(i)] + E(2)
        /\ stats[slot(i)] = batches[i] - Lacks(i, 2)
    BY <1>12, <1>14
  <2>2. Lacks(i, 2)' = Lacks(i, 2) - E(2) /\ Lacks(i, 2) \in Int /\ E(2) \in Int /\ batches[i] \in Int
    BY <1>10, <1>13, <1>15
  <2> QED
    BY <2>1, <2>2
<1>17. Cardinality(Marks(SizeCells(i))') = batches[i] - Lacks(i, 1)'
  <2>1. Cardinality(Marks(SizeCells(i))') = Cardinality(Marks(SizeCells(i))) + E(1)
        /\ Cardinality(Marks(SizeCells(i))) = batches[i] - Lacks(i, 1)
    BY <1>12, <1>14
  <2>2. Lacks(i, 1)' = Lacks(i, 1) - E(1) /\ Lacks(i, 1) \in Int /\ E(1) \in Int /\ batches[i] \in Int
    BY <1>10, <1>13, <1>15
  <2> QED
    BY <2>1, <2>2
<1>18. Cardinality(Marks(KernelCells(i))') = batches[i] - Lacks(i, 3)'
  <2>1. Cardinality(Marks(KernelCells(i))') = Cardinality(Marks(KernelCells(i))) + E(3)
        /\ Cardinality(Marks(KernelCells(i))) = batches[i] - Lacks(i, 3)
    BY <1>12, <1>14
  <2>2. Lacks(i, 3)' = Lacks(i, 3) - E(3) /\ Lacks(i, 3) \in Int /\ E(3) \in Int /\ batches[i] \in Int
    BY <1>10, <1>13, <1>15
  <2> QED
    BY <2>1, <2>2
<1>19. Cardinality(Marks(UserCells(i))') = user - Lacks(i, 4)'
  <2>1. Cardinality(Marks(UserCells(i))') = Cardinality(Marks(UserCells(i))) + E(4)
        /\ Cardinality(Marks(UserCells(i))) = user - Lacks(i, 4)
    BY <1>12, <1>14
  <2>2. Lacks(i, 4)' = Lacks(i, 4) - E(4) /\ Lacks(i, 4) \in Int /\ E(4) \in Int /\ user \in Int
    BY <1>10, <1>13, <1>15
  <2> HIDE DEF user
  <2> QED
    BY <2>1, <2>2
<1> QED
  BY <1>7, <1>8, <1>9, <1>16, <1>17, <1>18, <1>19, SameCells DEF Totals

LEMMA StoreKeeps == ASSUME NEW i \in Id, StatsInv, Store(i) PROVE StatsInv'
<1> DEFINE h == Head(todo[i])
<1>1. UNCHANGED <<prev, batches, reported, mpc, pos, ticks, resets>>
  BY DEF Store, mvars
<1>2. /\ todo[i] # <<>> /\ reg[i] # None
      /\ stats' = [stats EXCEPT ![h] = reg[i] + 1]
      /\ counted' = [counted EXCEPT ![h] = @ + 1]
      /\ todo' = [todo EXCEPT ![i] = Tail(todo[i])]
      /\ reg' = [reg EXCEPT ![i] = None]
  BY DEF Store
<1>3. /\ todo \in [Id -> Seq(Cell)] /\ reg \in [Id -> Nat \cup {None}] /\ stats \in [Cell -> Nat]
      /\ counted \in [Cell -> Nat] /\ prev \in [Cell -> Nat] /\ batches \in [Id -> Nat]
  BY DEF StatsInv, StatsTypeOK
<1>4. Worker(i) /\ StatsTypeOK
  BY DEF StatsInv
<1>5. reg[i] \in Nat
  BY <1>2, <1>3
<1>6. /\ h \in Cell /\ h \in SlotCells(i) /\ Tail(todo[i]) \in Seq(Cell)
  BY <1>2, <1>3, <1>4, TailOf, NextCounter DEF Worker
<1>7. stats[h] <= reg[i] /\ (resets = 0 => stats[h] = reg[i])
  BY <1>2, <1>4 DEF Worker, Loaded
<1>8. todo'[i] = Tail(todo[i]) /\ reg'[i] = None
  BY <1>2, <1>3
<1> HIDE DEF h
<1>9. StatsTypeOK'
  <2>1. reg[i] + 1 \in Nat /\ counted[h] + 1 \in Nat
    BY <1>3, <1>5, <1>6
  <2>2. stats' \in [Cell -> Nat] /\ counted' \in [Cell -> Nat]
    BY <1>2, <1>3, <2>1
  <2>3. todo' \in [Id -> Seq(Cell)]
    BY <1>2, <1>3, <1>6
  <2>4. reg' \in [Id -> Nat \cup {None}]
    BY <1>2, <1>3
  <2> QED
    BY <1>1, <1>4, <2>2, <2>3, <2>4 DEF StatsTypeOK
<1>10. Worker(i)'
  <2>1. Loaded(i)'
    BY <1>8 DEF Loaded
  <2>2. Counting(i)'
    <3> DEFINE q == todo[i]
               r == Tail(q)
    <3>1. /\ Len(q) \in Nat /\ Len(q) >= 1 /\ Len(r) = Len(q) - 1
          /\ \A n \in 1 .. Len(q) - 1 : r[n] = q[n + 1]
      BY <1>2, <1>3, TailOf
    <3>2. /\ Len(q) <= 4
          /\ Len(q) >= 1 => q[Len(q)] \in SizeCells(i) /\ batches[i] >= 1
          /\ Len(q) >= 2 => q[Len(q) - 1] = slot(i)
          /\ Len(q) >= 3 => q[Len(q) - 2] \in KernelCells(i)
          /\ Len(q) >= 4 => q[Len(q) - 3] \in UserCells(i) /\ batches[i] >= 2
      BY <1>4, Zenon DEF Worker, Counting
    <3> HIDE DEF q, r
    <3>3. \A d \in 0 .. 3 : Len(r) >= d + 1 => r[Len(r) - d] = q[Len(q) - d]
      <4> SUFFICES ASSUME NEW d \in 0 .. 3, Len(r) >= d + 1
                   PROVE  r[Len(r) - d] = q[Len(q) - d]
        OBVIOUS
      <4>1. Len(r) - d \in 1 .. Len(q) - 1 /\ Len(r) - d + 1 = Len(q) - d
        BY <3>1
      <4> QED
        BY <3>1, <4>1
    <3>4. /\ Len(r) >= 1 => r[Len(r)] = q[Len(q)]
          /\ Len(r) >= 2 => r[Len(r) - 1] = q[Len(q) - 1]
          /\ Len(r) >= 3 => r[Len(r) - 2] = q[Len(q) - 2]
          /\ Len(r) >= 4 => r[Len(r) - 3] = q[Len(q) - 3]
      <4>1. Len(r) \in Nat /\ Len(r) - 0 = Len(r) /\ Len(q) - 0 = Len(q)
        BY <3>1
      <4> QED
        BY <3>3, <4>1
    <3>5. /\ Len(r) <= 4 /\ (Len(r) >= 1 => Len(q) >= 1) /\ (Len(r) >= 2 => Len(q) >= 2)
          /\ (Len(r) >= 3 => Len(q) >= 3) /\ (Len(r) >= 4 => Len(q) >= 4)
      BY <3>1, <3>2
    <3>6. /\ Len(r) <= 4
          /\ Len(r) >= 1 => r[Len(r)] \in SizeCells(i) /\ batches[i] >= 1
          /\ Len(r) >= 2 => r[Len(r) - 1] = slot(i)
          /\ Len(r) >= 3 => r[Len(r) - 2] \in KernelCells(i)
          /\ Len(r) >= 4 => r[Len(r) - 3] \in UserCells(i) /\ batches[i] >= 2
      BY <3>2, <3>4, <3>5
    <3>7. todo'[i] = r /\ batches'[i] = batches[i]
      BY <1>1, <1>8 DEF q, r
    <3> QED
      BY <3>6, <3>7, SameCells, Zenon DEF Counting
  <2>3. ASSUME resets' = 0 PROVE Totals(i)'
    <3>1. Totals(i) /\ Counting(i) /\ stats' = [stats EXCEPT ![h] = stats[h] + 1]
      BY <1>1, <1>2, <1>4, <1>7, <2>3 DEF Worker
    <3>2. stats' = [stats EXCEPT ![Head(todo[i])] = stats[Head(todo[i])] + 1]
      BY <3>1 DEF h
    <3> QED
      BY <1>1, <1>2, <1>4, <1>8, <3>1, <3>2, StoreTotals
  <2> QED
    BY <2>1, <2>2, <2>3 DEF Worker
<1>11. ASSUME NEW j \in Id, j # i PROVE Worker(j)'
  <2>1. todo'[j] = todo[j] /\ reg'[j] = reg[j] /\ batches'[j] = batches[j]
        /\ todo[j] \in Seq(Cell) /\ Worker(j) /\ resets' = resets
    BY <1>1, <1>2, <1>3, <1>11 DEF StatsInv
  <2>2. \A c \in SlotCells(j) : stats'[c] = stats[c]
    <3>1. \A c \in SlotCells(j) : c \in Cell /\ c # h
      BY <1>6, <1>11, CellsApart
    <3> QED
      BY <1>2, <1>3, <3>1
  <2> QED
    BY <2>1, <2>2, WorkerStays
<1>12. NoUnderflow'
  <2>1. \A c \in Cell : prev[c] <= stats[c]
    BY DEF StatsInv, NoUnderflow
  <2>2. \A c \in Cell : prev[c] \in Nat /\ stats[c] \in Nat /\ stats'[c] = IF c = h THEN reg[i] + 1 ELSE stats[c]
    BY <1>2, <1>3
  <2>3. \A c \in Cell : prev[c] <= stats'[c]
    BY <1>5, <1>7, <2>1, <2>2
  <2> QED
    BY <1>1, <2>3 DEF NoUnderflow, Cell
<1>13. Printing' /\ (resets' = 0 => stats' = counted')
  BY <1>1, <1>2, <1>3, <1>6, <1>7 DEF StatsInv, Printing, SlotCells
<1> QED
  BY <1>9, <1>10, <1>11, <1>12, <1>13 DEF StatsInv

\* The cells the monitor walks over.
LEMMA Positions ==
    /\ 0 \in Cell /\ \E i \in Id : 0 \in SlotCells(i)
    /\ \A i \in Id : \A p \in SlotCells(i) :
         IF (p % g_batch_stride) = Counters - 1 THEN p - (Counters - 1) \in Cell
                                              ELSE p + 1 \in SlotCells(i)
    /\ \A p \in Cell :
         /\ ((p + 1) % (N * g_batch_stride)) \in Cell
         /\ (((p + 1) % (N * g_batch_stride)) % g_batch_stride) = 0 =>
              \E i \in Id : ((p + 1) % (N * g_batch_stride)) \in SlotCells(i)
<1> DEFINE S == g_batch_stride
           M == N * g_batch_stride
<1>1. /\ S \in Nat /\ Counters \in Nat /\ Counters >= 1 /\ S >= Counters /\ S >= 1
      /\ N \in Nat /\ N >= 1 /\ M \in Nat /\ M >= 1 /\ M = N * S
  BY StatsSizes, SlotsApart
<1>2. Cell = 0 .. M - 1 /\ Id = 0 .. N - 1
  BY DEF Cell, Id
<1>3. \A i \in Id : /\ i \in Nat /\ slot(i) = i * S /\ slot(i) \in Nat
                    /\ SlotCells(i) = slot(i) .. slot(i) + Counters - 1
                    /\ SlotCells(i) \subseteq Cell
  BY <1>2, SlotsApart, CellsApart DEF slot, SlotCells
<1> HIDE DEF S, M
<1>4. 0 \in Cell /\ \E i \in Id : 0 \in SlotCells(i)
  <2>1. 0 \in Id /\ 0 * S = 0 /\ 0 \in 0 .. 0 + Counters - 1 /\ 0 \in 0 .. M - 1
    BY <1>1, <1>2
  <2>2. slot(0) = 0 /\ SlotCells(0) = 0 .. 0 + Counters - 1
    BY <1>3, <2>1
  <2> QED
    BY <1>2, <2>1, <2>2
<1>5. ASSUME NEW i \in Id, NEW p \in SlotCells(i)
      PROVE  IF (p % S) = Counters - 1 THEN p - (Counters - 1) \in Cell ELSE p + 1 \in SlotCells(i)
  <2>1. PICK k \in 0 .. Counters - 1 : p = slot(i) + k
    <3> DEFINE s == slot(i)
    <3>1. s \in Nat /\ p \in s .. s + Counters - 1
      BY <1>3
    <3> HIDE DEF s
    <3>2. p - s \in 0 .. Counters - 1 /\ p = s + (p - s)
      BY <1>1, <3>1
    <3> QED
      BY <3>2 DEF s
  <2>2. k \in 0 .. S - 1 /\ i \in Nat /\ p = i * S + k /\ slot(i) \in Nat
    BY <1>1, <1>3, <2>1
  <2>3. (p % S) = k
    BY <1>1, <2>2, Remainder
  <2>4. CASE k = Counters - 1
    <3>1. p - (Counters - 1) = slot(i)
      BY <1>1, <2>1, <2>2, <2>4
    <3>2. slot(i) \in Cell
      BY CellsApart
    <3> QED
      BY <2>3, <2>4, <3>1, <3>2
  <2>5. CASE k # Counters - 1
    <3>1. p + 1 \in slot(i) .. slot(i) + Counters - 1
      BY <1>1, <2>1, <2>2, <2>5
    <3> QED
      BY <1>3, <2>3, <2>5, <3>1
  <2> QED
    BY <2>4, <2>5
<1>6. ASSUME NEW p \in Cell
      PROVE  /\ ((p + 1) % M) \in Cell
             /\ (((p + 1) % M) % S) = 0 => \E i \in Id : ((p + 1) % M) \in SlotCells(i)
  <2> DEFINE x == ((p + 1) % M)
  <2>1. x \in 0 .. M - 1
    <3>1. p + 1 \in Nat
      BY <1>1, <1>2
    <3> QED
      BY <1>1, <3>1
  <2> HIDE DEF x
  <2>2. ASSUME (x % S) = 0 PROVE \E i \in Id : x \in SlotCells(i)
    <3> DEFINE q == x \div S
    <3>1. q \in Nat /\ x = S * q
      BY <1>1, <2>1, <2>2
    <3> HIDE DEF q
    <3>2. S * q = q * S /\ q * S \in Nat
      BY <1>1, <3>1
    <3>3. q < N
      <4>1. N < q => N * S + S <= q * S
        BY <1>1, <3>1, Multiples
      <4>2. N = q => q * S = N * S
        OBVIOUS
      <4> QED
        BY <1>1, <2>1, <3>1, <3>2, <4>1, <4>2
    <3>4. q \in Id
      BY <1>1, <1>2, <3>1, <3>3
    <3>5. x = slot(q) /\ slot(q) \in SlotCells(q)
      BY <1>3, <3>1, <3>2, <3>4, CellsApart
    <3> QED
      BY <3>4, <3>5
  <2> QED
    BY <1>2, <2>1, <2>2 DEF x
<1> QED
  BY <1>4, <1>5, <1>6 DEF S, M

\* What a step of the monitor that resets nothing must leave alone.
LEMMA MonitorKeeps ==
    ASSUME StatsInv, UNCHANGED <<stats, counted, resets, todo, reg, batches>>
    PROVE  (\A i \in Id : Worker(i)') /\ (resets' = 0 => stats' = counted')
<1>1. ASSUME NEW i \in Id PROVE Worker(i)'
  <2>1. todo[i] \in Seq(Cell) /\ Worker(i)
    BY DEF StatsInv, StatsTypeOK
  <2>2. /\ todo'[i] = todo[i] /\ reg'[i] = reg[i] /\ batches'[i] = batches[i] /\ resets' = resets
        /\ \A c \in SlotCells(i) : stats'[c] = stats[c]
    OBVIOUS
  <2> QED
    BY <2>1, <2>2, WorkerStays
<1> QED
  BY <1>1 DEF StatsInv

LEMMA WakeKeeps == ASSUME StatsInv, Wake PROVE StatsInv'
<1>1. UNCHANGED <<stats, prev, counted, reported, resets, todo, reg, batches>>
      /\ mpc' = "print" /\ pos' = 0 /\ ticks' = ticks + 1
  BY DEF Wake, wvars
<1>2. (\A i \in Id : Worker(i)') /\ (resets' = 0 => stats' = counted')
  BY <1>1, MonitorKeeps
<1>3. StatsTypeOK' /\ Printing'
  <2>1. 0 \in Cell /\ ticks + 1 \in Nat
    BY Positions DEF StatsInv, StatsTypeOK
  <2>2. StatsTypeOK'
    BY <1>1, <2>1 DEF StatsInv, StatsTypeOK
  <2>3. Printing'
    BY <1>1, Positions, SameCells DEF Printing
  <2> QED
    BY <2>2, <2>3
<1>4. NoUnderflow'
  BY <1>1 DEF StatsInv, NoUnderflow, Cell
<1> QED
  BY <1>2, <1>3, <1>4 DEF StatsInv

LEMMA PrintFieldKeeps == ASSUME StatsInv, PrintField PROVE StatsInv'
<1>1. UNCHANGED <<stats, prev, counted, resets, ticks, todo, reg, batches>>
      /\ reported' = [reported EXCEPT ![pos] = @ + (stats[pos] - prev[pos])]
  BY DEF PrintField, wvars
<1>2. (\A i \in Id : Worker(i)') /\ (resets' = 0 => stats' = counted')
  BY <1>1, MonitorKeeps
<1>3. PICK i \in Id : pos \in SlotCells(i)
  BY DEF StatsInv, Printing, PrintField
<1>4. \/ mpc' = "copy" /\ pos' \in Cell
      \/ mpc' = "print" /\ pos' \in SlotCells(i)
  <2>1. CASE (pos % g_batch_stride) = Counters - 1
    <3>1. mpc' = "copy" /\ pos' = pos - (Counters - 1)
      BY <2>1 DEF PrintField
    <3>2. pos - (Counters - 1) \in Cell
      BY <1>3, <2>1, Positions
    <3> QED
      BY <3>1, <3>2
  <2>2. CASE (pos % g_batch_stride) # Counters - 1
    <3>1. mpc' = "print" /\ pos' = pos + 1
      BY <2>2 DEF PrintField
    <3>2. pos + 1 \in SlotCells(i)
      BY <1>3, <2>2, Positions
    <3> QED
      BY <3>1, <3>2
  <2> QED
    BY <2>1, <2>2
<1>5. pos' \in Cell /\ mpc' \in {"print", "copy"}
  BY <1>4, CellsApart
<1>6. StatsTypeOK'
  <2>1. /\ pos \in Cell /\ stats \in [Cell -> Nat] /\ prev \in [Cell -> Nat] /\ reported \in [Cell -> Int]
    BY DEF StatsInv, StatsTypeOK
  <2>2. reported[pos] + (stats[pos] - prev[pos]) \in Int
    BY <2>1
  <2>3. reported' \in [Cell -> Int]
    BY <1>1, <2>1, <2>2
  <2> QED
    BY <1>1, <1>5, <2>3 DEF StatsInv, StatsTypeOK
<1>7. Printing'
  BY <1>4, SameCells DEF Printing
<1>8. NoUnderflow'
  BY <1>1 DEF StatsInv, NoUnderflow
<1> QED
  BY <1>2, <1>6, <1>7, <1>8 DEF StatsInv

LEMMA CopyCellKeeps == ASSUME StatsInv, CopyCell PROVE StatsInv'
<1>1. /\ UNCHANGED <<stats, counted, reported, resets, ticks, todo, reg, batches>>
      /\ mpc = "copy" /\ prev' = [prev EXCEPT ![pos] = stats[pos]]
      /\ pos' = ((pos + 1) % (N * g_batch_stride))
      /\ mpc' = IF pos' = 0 THEN "ctl" ELSE IF (pos' % g_batch_stride) = 0 THEN "print" ELSE mpc
  BY DEF CopyCell, wvars
<1>2. (\A i \in Id : Worker(i)') /\ (resets' = 0 => stats' = counted')
  BY <1>1, MonitorKeeps
<1>3. pos \in Cell /\ stats \in [Cell -> Nat] /\ prev \in [Cell -> Nat]
  BY DEF StatsInv, StatsTypeOK
<1>4. pos' \in Cell
  BY <1>1, <1>3, Positions
<1>5. StatsTypeOK'
  <2>1. prev' \in [Cell -> Nat] /\ mpc' \in {"ctl", "print", "copy"}
    BY <1>1, <1>3
  <2> QED
    BY <1>1, <1>4, <2>1 DEF StatsInv, StatsTypeOK
<1>6. Printing'
  <2>1. ASSUME mpc' = "print" PROVE \E i \in Id : pos' \in SlotCells(i)
    <3>1. (pos' % g_batch_stride) = 0
      BY <1>1, <2>1
    <3> QED
      BY <1>1, <1>3, <3>1, Positions
  <2> QED
    BY <2>1, SameCells DEF Printing
<1>7. NoUnderflow'
  <2>1. \A c \in Cell : prev[c] <= stats[c]
    BY DEF StatsInv, NoUnderflow
  <2>2. \A c \in Cell : prev'[c] <= stats[c]
    BY <1>1, <1>3, <2>1
  <2> QED
    BY <1>1, <2>2 DEF NoUnderflow
<1> QED
  BY <1>2, <1>5, <1>6, <1>7 DEF StatsInv

LEMMA CtlPollKeeps == ASSUME StatsInv, CtlPoll PROVE StatsInv'
<1>1. UNCHANGED <<pos, ticks, todo, reg, batches>> /\ mpc' = "sleep"
  BY DEF CtlPoll, wvars
<1>2. CASE UNCHANGED <<stats, prev, resets, counted, reported>>
  <2>1. (\A i \in Id : Worker(i)') /\ (resets' = 0 => stats' = counted')
    BY <1>1, <1>2, MonitorKeeps
  <2> QED
    BY <1>1, <1>2, <2>1 DEF StatsInv, StatsTypeOK, NoUnderflow, Printing
<1>3. CASE resets' = resets + 1 /\ stats' = Zero /\ prev' = Zero /\ counted' = Zero /\ reported' = Zero
  <2>1. resets \in Nat /\ resets' \in Nat /\ resets' # 0
    BY <1>3 DEF StatsInv, StatsTypeOK
  <2>2. Zero \in [Cell -> Nat] /\ Zero \in [Cell -> Int]
    BY DEF Zero
  <2>3. StatsTypeOK'
    BY <1>1, <1>3, <2>1, <2>2 DEF StatsInv, StatsTypeOK
  <2>4. NoUnderflow' /\ Printing'
    BY <1>1, <1>3 DEF NoUnderflow, Printing, Zero
  <2>5. ASSUME NEW i \in Id PROVE Worker(i)'
    <3>1. Counting(i) /\ Loaded(i) /\ todo[i] \in Seq(Cell) /\ reg[i] \in Nat \cup {None}
      BY DEF StatsInv, StatsTypeOK, Worker
    <3>2. Counting(i)'
      BY <1>1, <3>1, SameCells, Zenon DEF Counting
    <3>3. Loaded(i)'
      <4>1. ASSUME reg[i] # None PROVE todo[i] # <<>> /\ stats'[Head(todo[i])] <= reg[i]
        <5>1. todo[i] # <<>>
          BY <3>1, <4>1 DEF Loaded
        <5>2. Head(todo[i]) \in Cell
          BY <3>1, <5>1, TailOf
        <5>3. stats'[Head(todo[i])] = 0 /\ reg[i] \in Nat
          BY <1>3, <3>1, <4>1, <5>2 DEF Zero
        <5> QED
          BY <5>1, <5>3
      <4> QED
        BY <1>1, <2>1, <4>1 DEF Loaded
    <3> QED
      BY <2>1, <3>2, <3>3 DEF Worker
  <2> QED
    BY <2>1, <2>3, <2>4, <2>5 DEF StatsInv
<1> QED
  BY <1>2, <1>3 DEF CtlPoll, Zeroed

LEMMA StatsStep == StatsInv /\ [StatsNext]_svars => StatsInv'
<1> SUFFICES ASSUME StatsInv, [StatsNext]_svars PROVE StatsInv'
  OBVIOUS
<1>1. CASE UNCHANGED svars
  <2>1. UNCHANGED <<stats, prev, todo, reg, batches, mpc, pos, ticks, resets, counted, reported>>
    BY <1>1 DEF svars
  <2>2. (\A i \in Id : Worker(i)') /\ (resets' = 0 => stats' = counted')
    BY <2>1, MonitorKeeps
  <2> QED
    BY <2>1, <2>2 DEF StatsInv, StatsTypeOK, NoUnderflow, Printing, SlotCells
<1>2. ASSUME NEW i \in Id, Batch(i) \/ Load(i) \/ Store(i) PROVE StatsInv'
  BY <1>2, BatchKeeps, LoadKeeps, StoreKeeps
<1> QED
  BY <1>1, <1>2, WakeKeeps, PrintFieldKeeps, CopyCellKeeps, CtlPollKeeps DEF StatsNext

\* The variables of the statistics have their types: no worker and no monitor
\* ever touches a cell outside g_batch_stats (upcall.c, setup_batch_stats).
THEOREM StatsTypeCorrect == StatsSpec => []StatsTypeOK
<1>1. StatsInv => StatsTypeOK
  BY DEF StatsInv
<1> QED
  BY <1>1, StatsInitial, StatsStep, PTL DEF StatsSpec

\* Without a reset no increment is lost, and the histograms of a worker between
\* two batches add up to its batches, for any number of workers and any layout of
\* the slots (run_event_loop's counters).
THEOREM StatsCountsAgree == StatsSpec => []CountsAgree
<1>1. ASSUME StatsInv, resets = 0, NEW i \in Id, todo[i] = <<>>
      PROVE  /\ Histogram(i, 1, g_batch_hist_len) = stats[slot(i)]
             /\ Histogram(i, 1 + g_batch_hist_len + g_time_hist_len, g_time_hist_len) = stats[slot(i)]
             /\ stats[slot(i)] > 0 =>
                  Histogram(i, 1 + g_batch_hist_len, g_time_hist_len) = stats[slot(i)] - 1
  <2>1. batches[i] \in Nat /\ Len(todo[i]) = 0
    BY <1>1 DEF StatsInv, StatsTypeOK
  <2>2. Lacks(i, 1) = 0 /\ Lacks(i, 2) = 0 /\ Lacks(i, 3) = 0 /\ Lacks(i, 4) = 0
    BY <2>1 DEF Lacks
  <2>3. Totals(i)
    BY <1>1 DEF StatsInv, Worker
  <2>4. /\ stats[slot(i)] = batches[i]
        /\ Cardinality(Marks(SizeCells(i))) = batches[i]
        /\ Cardinality(Marks(KernelCells(i))) = batches[i]
        /\ Cardinality(Marks(UserCells(i))) = IF batches[i] = 0 THEN 0 ELSE batches[i] - 1
    BY <2>1, <2>2, <2>3 DEF Totals
  <2> QED
    BY <2>1, <2>4 DEF Histogram, SizeCells, UserCells, KernelCells
<1>2. StatsInv => CountsAgree
  BY <1>1 DEF StatsInv, CountsAgree
<1> QED
  BY <1>2, StatsInitial, StatsStep, PTL DEF StatsSpec

\* A delta that the monitor prints is never negative, resets or not
\* (batch_monitor_fn, batch_ctl_poll).
THEOREM StatsNoUnderflow == StatsSpec => []NoUnderflow
<1>1. StatsInv => NoUnderflow
  BY DEF StatsInv
<1> QED
  BY <1>1, StatsInitial, StatsStep, PTL DEF StatsSpec

=============================================================================
