-------------------------- MODULE Measurement_proofs --------------------------
(***************************************************************************)
(* The load generator counts its transactions and batches right, has one   *)
(* message at a time in each connection and waits only for registered      *)
(* events, for any clients, messages and batches; and a measurement that   *)
(* returns 0 is sound.                                                     *)
(***************************************************************************)
EXTENDS Measurement, FiniteSetTheorems, TLAPS

-----------------------------------------------------------------------------
(* Arithmetic *)

\* Min, of the two numbers recv chooses from.
LEMMA MinOfTwo ==
    ASSUME NEW a \in Int, NEW b \in Int
    PROVE  Min({a, b}) = IF a <= b THEN a ELSE b
BY DEF Min

\* What is left over from whole batches.
LEMMA Leftover ==
    ASSUME NEW b \in Nat \ {0}, NEW q \in Nat, NEW r \in 0 .. b - 1
    PROVE  (q * b + r) % b = r
<1> DEFINE a == q * b + r
<1>1. a \in Nat
  OBVIOUS
<1> HIDE DEF a
<1>2. PICK p \in Int : p = a \div b
  BY <1>1
<1>3. PICK m \in 0 .. b - 1 : m = a % b
  BY <1>1
<1>4. a = b * p + m
  BY <1>1, <1>2, <1>3
<1>5. (q - p) * b = m - r
  BY <1>4 DEF a
<1>6. q - p >= 1 => (q - p) * b >= b
  OBVIOUS
<1>7. q - p <= -1 => (q - p) * b <= -b
  OBVIOUS
<1>8. p = q
  BY <1>5, <1>6, <1>7
<1> QED
  BY <1>3, <1>5, <1>8 DEF a

-----------------------------------------------------------------------------
(* The types *)

\* A step is one of these.
LEMMA LoadSteps ==
    ASSUME Next
    PROVE  /\ UNCHANGED env
           /\ \/ Begin \/ Loop \/ Handle \/ Timeout \/ EpollError \/ OtherDies
              \/ \E R \in SUBSET Client : EpollWait(R)
              \/ \E j \in Client :
                   \/ FromInit(j) \/ FromConnecting(j) \/ FromNew(j) \/ FromReady(j)
                   \/ Recv(j) \/ RecvError(j) \/ FromSent(j) \/ FromDone(j)
                   \/ Network(j)
BY DEF Next, Worker, Transition

LEMMA Sizes ==
    /\ NoClient \notin Client
    /\ transaction_count \in Nat /\ transaction_count >= 1
    /\ batch_size \in Nat /\ batch_size >= 1
    /\ msg_size \in Nat /\ msg_size >= 1
BY ClientAssumption

\* A connection that is being set up or used has transactions left in its batch,
\* and the ones before it were whole batches.
Done(j) == transaction_count - txn_remaining[j]
InBatch(s, done, left) ==
    /\ s \in {"CONNECTING", "NEW", "READY", "SENT"} =>
         left > 0 /\ \E q \in Nat : done = q * batch_size + (batch_size - left)
    /\ s = "INIT" => \E q \in Nat : done = q * batch_size
Batches == \A j \in Client : InBatch(state[j], Done(j), batch_remaining[j])

LEMMA TypeInit == Init => TypeOK
<1> SUFFICES ASSUME Init PROVE TypeOK
  OBVIOUS
<1>1. /\ wpc \in {"init", "loop", "wait", "handle", "done", "exit"}
      /\ begun \subseteq Client /\ rdy \subseteq Client /\ cur \in Client \cup {NoClient}
      /\ complete \in Nat /\ dying \in BOOLEAN
  BY DEF Init
<1>2. /\ state \in [Client -> {"INIT", "CONNECTING", "NEW", "READY", "SENT", "DONE"}]
      /\ watch \in [Client -> {"none", "out", "off", "in"}]
      /\ link \in [Client -> {"none", "connecting", "failed", "up", "closed"}]
  BY DEF Init
<1>3. /\ cursor \in [Client -> 0 .. msg_size]
      /\ txn_remaining \in [Client -> 0 .. transaction_count]
      /\ batch_remaining \in [Client -> 0 .. batch_size]
      /\ toServer \in [Client -> Nat] /\ toClient \in [Client -> Nat]
  BY Sizes DEF Init
<1> QED
  BY <1>1, <1>2, <1>3 DEF TypeOK

\* recv takes what is there and fits.
LEMMA ReceivedBytes ==
    ASSUME TypeOK, NEW j \in Client
    PROVE  /\ Received(j) \in Nat
           /\ Received(j) <= toClient[j] /\ Received(j) <= msg_size - cursor[j]
<1>1. /\ toClient[j] \in Nat /\ cursor[j] \in 0 .. msg_size
      /\ msg_size - cursor[j] \in Int
  BY Sizes DEF TypeOK
<1>2. Received(j) = IF toClient[j] <= msg_size - cursor[j] THEN toClient[j]
                                                           ELSE msg_size - cursor[j]
  BY <1>1, MinOfTwo DEF Received
<1> QED
  BY <1>1, <1>2, Sizes

LEMMA TypeStep ==
    ASSUME TypeOK, Batches, [Next]_vars
    PROVE  TypeOK'
<1> USE Sizes
<1>1. CASE Begin
  BY <1>1 DEF Begin, TypeOK, net
<1>2. CASE Loop
  BY <1>2 DEF Loop, TypeOK, net
<1>3. CASE Handle
  BY <1>3 DEF Handle, TypeOK, net
<1>4. CASE Timeout
  BY <1>4 DEF Timeout, TypeOK, net
<1>5. CASE EpollError
  BY <1>5 DEF EpollError, TypeOK, net
<1>6. CASE OtherDies
  BY <1>6 DEF OtherDies, TypeOK, loop, net
<1>7. ASSUME NEW R \in SUBSET Client, EpollWait(R) PROVE TypeOK'
  BY <1>7 DEF EpollWait, TypeOK, net
<1>8. ASSUME NEW j \in Client, FromInit(j) PROVE TypeOK'
  <2> USE <1>8 DEF FromInit, TypeOK
  <2>1. UNCHANGED <<wpc, begun, rdy, cursor, txn_remaining, complete, toServer, toClient>>
    BY DEF loop
  <2>2. batch_remaining' \in [Client -> 0 .. batch_size]
    BY DEF BatchStart
  <2>3. cur' \in Client \cup {NoClient} /\ dying' \in BOOLEAN
    BY DEF Returns, Stays, Fails
  <2>4. state' \in [Client -> {"INIT", "CONNECTING", "NEW", "READY", "SENT", "DONE"}]
    BY DEF Becomes
  <2>5. /\ watch' \in [Client -> {"none", "out", "off", "in"}]
        /\ link' \in [Client -> {"none", "connecting", "failed", "up", "closed"}]
    BY DEF Watches
  <2> QED
    BY <2>1, <2>2, <2>3, <2>4, <2>5
<1>9. ASSUME NEW j \in Client, FromConnecting(j) PROVE TypeOK'
  BY <1>9 DEF FromConnecting, Becomes, Watches, Stays, Returns, Fails, TypeOK, loop, net
<1>10. ASSUME NEW j \in Client, FromNew(j) PROVE TypeOK'
  BY <1>10 DEF FromNew, Becomes, Watches, Stays, Returns, Fails, TypeOK, loop, net
<1>11. ASSUME NEW j \in Client, FromReady(j) PROVE TypeOK'
  <2> USE <1>11 DEF FromReady, TypeOK
  <2>1. UNCHANGED <<wpc, begun, rdy, cursor, txn_remaining, batch_remaining, complete,
                    watch, link, toClient>>
    BY DEF loop
  <2>2. cur' \in Client \cup {NoClient} /\ dying' \in BOOLEAN
    BY DEF client_send, Returns, Fails
  <2>3. toServer' \in [Client -> Nat]
    BY DEF client_send
  <2>4. state' \in [Client -> {"INIT", "CONNECTING", "NEW", "READY", "SENT", "DONE"}]
    BY DEF Becomes
  <2> QED
    BY <2>1, <2>2, <2>3, <2>4
<1>12. ASSUME NEW j \in Client, Recv(j) PROVE TypeOK'
  <2> USE <1>12 DEF Recv, TypeOK
  <2>1. UNCHANGED <<wpc, begun, rdy, state, txn_remaining, batch_remaining, complete,
                    watch, link, toServer>>
    BY DEF loop
  <2>2. cur' \in Client \cup {NoClient} /\ dying' \in BOOLEAN
    BY DEF Stays, Returns
  <2>3. cursor' \in [Client -> 0 .. msg_size] /\ toClient' \in [Client -> Nat]
    BY ReceivedBytes
  <2> QED
    BY <2>1, <2>2, <2>3
<1>13. ASSUME NEW j \in Client, RecvError(j) PROVE TypeOK'
  BY <1>13 DEF RecvError, Fails, Returns, TypeOK, loop, net
<1>14. ASSUME NEW j \in Client, FromSent(j) PROVE TypeOK'
  <2> USE <1>14 DEF FromSent, TypeOK
  <2>1. UNCHANGED <<wpc, begun, rdy, dying>> /\ cur' = cur /\ complete' \in Nat
    BY DEF loop, Stays, Counted
  <2>2. cursor' \in [Client -> 0 .. msg_size]
    BY DEF Rewind
  <2>3. /\ txn_remaining' \in [Client -> 0 .. transaction_count]
        /\ batch_remaining' \in [Client -> 0 .. batch_size]
    <3>1. txn_remaining[j] - 1 \in 0 .. transaction_count
      OBVIOUS
    <3>2. batch_remaining[j] - 1 \in 0 .. batch_size
      BY DEF Batches, InBatch
    <3> QED
      BY <3>1, <3>2
  <2>4. state' \in [Client -> {"INIT", "CONNECTING", "NEW", "READY", "SENT", "DONE"}]
    BY DEF Becomes
  <2>5. /\ watch' \in [Client -> {"none", "out", "off", "in"}]
        /\ link' \in [Client -> {"none", "connecting", "failed", "up", "closed"}]
        /\ toServer' \in [Client -> Nat] /\ toClient' \in [Client -> Nat]
    BY DEF Watches, net
  <2> QED
    BY <2>1, <2>2, <2>3, <2>4, <2>5
<1>15. ASSUME NEW j \in Client, FromDone(j) PROVE TypeOK'
  BY <1>15 DEF FromDone, Returns, Watches, TypeOK, loop
<1>16. ASSUME NEW j \in Client, Network(j) PROVE TypeOK'
  BY <1>16 DEF Network, Connected, Echo, Lost, TypeOK, loop
<1>17. CASE UNCHANGED vars
  BY <1>17 DEF vars, TypeOK
<1> QED
  BY <1>1, <1>2, <1>3, <1>4, <1>5, <1>6, <1>7, <1>8, <1>9, <1>10, <1>11, <1>12,
     <1>13, <1>14, <1>15, <1>16, <1>17, LoadSteps

-----------------------------------------------------------------------------
(* The counts *)

\* Only five of the steps change a client's state or a count.
LEMMA CountSteps ==
    ASSUME [Next]_vars
    PROVE  \/ UNCHANGED <<state, txn_remaining, batch_remaining, complete>>
           \/ \E j \in Client : \/ FromInit(j) \/ FromConnecting(j) \/ FromNew(j)
                                \/ FromReady(j) \/ FromSent(j)
<1> DEFINE Quiet == UNCHANGED <<state, txn_remaining, batch_remaining, complete>>
<1>1. Begin \/ Loop \/ Handle \/ Timeout \/ EpollError \/ OtherDies => Quiet
  BY DEF Begin, Loop, Handle, Timeout, EpollError, OtherDies
<1>2. \A R \in SUBSET Client : EpollWait(R) => Quiet
  BY DEF EpollWait
<1>3. \A j \in Client : Recv(j) \/ RecvError(j) \/ FromDone(j) \/ Network(j) => Quiet
  BY DEF Recv, RecvError, FromDone, Network
<1>4. UNCHANGED vars => Quiet
  BY DEF vars
<1> QED
  BY <1>1, <1>2, <1>3, <1>4, LoadSteps

LEMMA BatchesInit == Init => Batches
<1> SUFFICES ASSUME Init, NEW j \in Client
    PROVE  InBatch(state[j], Done(j), batch_remaining[j])
  BY DEF Batches
<1>1. state[j] = "INIT" /\ Done(j) = 0 * batch_size
  BY Sizes DEF Init, Done
<1> QED
  BY <1>1 DEF InBatch

LEMMA BatchesStep ==
    ASSUME TypeOK, Batches, [Next]_vars
    PROVE  Batches'
<1>0. /\ state \in [Client -> {"INIT", "CONNECTING", "NEW", "READY", "SENT", "DONE"}]
      /\ txn_remaining \in [Client -> 0 .. transaction_count]
      /\ batch_remaining \in [Client -> 0 .. batch_size]
  BY DEF TypeOK
<1>1. CASE UNCHANGED <<state, txn_remaining, batch_remaining, complete>>
  BY <1>1 DEF Batches, Done
<1>2. ASSUME NEW j \in Client,
             \A i \in Client : i # j => /\ state'[i] = state[i]
                                        /\ txn_remaining'[i] = txn_remaining[i]
                                        /\ batch_remaining'[i] = batch_remaining[i],
             InBatch(state'[j], Done(j)', batch_remaining'[j])
      PROVE  Batches'
  BY <1>2 DEF Batches, Done
<1>3. ASSUME NEW j \in Client, FromInit(j) PROVE Batches'
  <2>1. /\ batch_remaining' = [batch_remaining EXCEPT ![j] = batch_size]
        /\ txn_remaining' = txn_remaining /\ state[j] = "INIT"
        /\ \A i \in Client : i # j => state'[i] = state[i]
    BY <1>0, <1>3 DEF FromInit, BatchStart, Becomes
  <2>2. PICK q \in Nat : Done(j) = q * batch_size
    BY <2>1 DEF Batches, InBatch
  <2>3. Done(j)' = q * batch_size /\ batch_remaining'[j] = batch_size
    BY <1>0, <2>1, <2>2 DEF Done
  <2>4. InBatch(state'[j], Done(j)', batch_remaining'[j])
    BY <2>3, Sizes DEF InBatch
  <2> QED
    BY <1>0, <1>2, <2>1, <2>4
<1>4. ASSUME NEW j \in Client, FromConnecting(j) \/ FromNew(j) \/ FromReady(j)
      PROVE  Batches'
  <2>1. /\ UNCHANGED <<txn_remaining, batch_remaining>>
        /\ state[j] \in {"CONNECTING", "NEW", "READY"}
        /\ state'[j] \in {"CONNECTING", "NEW", "READY", "SENT"}
        /\ \A i \in Client : i # j => state'[i] = state[i]
    BY <1>0, <1>4 DEF FromConnecting, FromNew, FromReady, Becomes
  <2>2. InBatch(state'[j], Done(j)', batch_remaining'[j])
    BY <2>1 DEF Batches, InBatch, Done
  <2> QED
    BY <1>2, <2>1, <2>2
<1>5. ASSUME NEW j \in Client, FromSent(j) PROVE Batches'
  <2>1. /\ state[j] = "SENT" /\ txn_remaining' = [txn_remaining EXCEPT ![j] = @ - 1]
        /\ \A i \in Client : i # j => state'[i] = state[i]
        /\ \A i \in Client : i # j => batch_remaining'[i] = batch_remaining[i]
    BY <1>0, <1>5 DEF FromSent, Becomes
  <2>2. Done(j)' = Done(j) + 1 /\ Done(j) \in Nat
    BY <1>0, <2>1, Sizes DEF Done
  <2>3. PICK q \in Nat : /\ Done(j) = q * batch_size + (batch_size - batch_remaining[j])
                         /\ batch_remaining[j] > 0
    BY <2>1 DEF Batches, InBatch
  <2>4. CASE txn_remaining[j] = 1
    <3>1. state'[j] = "DONE"
      BY <1>0, <1>5, <2>4 DEF FromSent, Becomes
    <3>2. InBatch(state'[j], Done(j)', batch_remaining'[j])
      BY <3>1 DEF InBatch
    <3> QED
      BY <1>2, <2>1, <3>2
  <2>5. CASE txn_remaining[j] > 1
    <3>1. batch_remaining' = [batch_remaining EXCEPT ![j] = @ - 1]
      BY <1>5, <2>5 DEF FromSent
    <3>2. CASE batch_remaining[j] = 1
      <4>1. state'[j] = "INIT"
        BY <1>0, <1>5, <2>5, <3>2 DEF FromSent, Becomes
      <4>2. q + 1 \in Nat /\ Done(j)' = (q + 1) * batch_size
        BY <2>2, <2>3, <3>2, Sizes
      <4>3. InBatch(state'[j], Done(j)', batch_remaining'[j])
        BY <4>1, <4>2 DEF InBatch
      <4> QED
        BY <1>2, <2>1, <4>3
    <3>3. CASE batch_remaining[j] # 1
      <4>1. state'[j] = "READY"
        BY <1>0, <1>5, <2>5, <3>3 DEF FromSent, Becomes
      <4>2. batch_remaining'[j] = batch_remaining[j] - 1 /\ batch_remaining'[j] > 0
        BY <1>0, <2>3, <3>1, <3>3
      <4>3. Done(j)' = q * batch_size + (batch_size - batch_remaining'[j])
        BY <1>0, <2>2, <2>3, <4>2, Sizes
      <4>4. InBatch(state'[j], Done(j)', batch_remaining'[j])
        BY <4>1, <4>2, <4>3 DEF InBatch
      <4> QED
        BY <1>2, <2>1, <4>4
    <3> QED
      BY <3>2, <3>3
  <2> QED
    BY <1>5, <2>4, <2>5 DEF FromSent
<1> QED
  BY <1>1, <1>3, <1>4, <1>5, CountSteps

\* The invariant in the terms of the property.
LEMMA BatchesAlign == TypeOK /\ Batches => BatchAligned
<1> SUFFICES ASSUME TypeOK, Batches, NEW j \in Client, state[j] = "SENT"
    PROVE  /\ batch_remaining[j] > 0
           /\ (transaction_count - txn_remaining[j]) % batch_size
                = batch_size - batch_remaining[j]
  BY DEF BatchAligned
<1>1. PICK q \in Nat : /\ Done(j) = q * batch_size + (batch_size - batch_remaining[j])
                       /\ batch_remaining[j] > 0
  BY DEF Batches, InBatch
<1>2. batch_size \in Nat \ {0} /\ batch_size - batch_remaining[j] \in 0 .. batch_size - 1
  BY <1>1, Sizes DEF TypeOK
<1> QED
  BY <1>1, <1>2, Leftover DEF Done

\* There are finitely many transactions to finish.
LEMMA FinishedIsFinite ==
    /\ IsFiniteSet(Finished) /\ Cardinality(Finished) \in Nat
    /\ total \in Nat /\ Cardinality(Finished) <= total
<1> DEFINE All == Client \X (1 .. transaction_count)
<1>1. /\ IsFiniteSet(Client) /\ IsFiniteSet(1 .. transaction_count)
      /\ Cardinality(1 .. transaction_count) = transaction_count
      /\ Cardinality(Client) \in Nat /\ transaction_count \in Nat
  <2>1. IsFiniteSet(Client) /\ Cardinality(Client) \in Nat
    BY ClientAssumption, FS_CardinalityType
  <2>2. 1 \in Int /\ transaction_count \in Int /\ ~(1 > transaction_count)
    BY Sizes
  <2>3. /\ IsFiniteSet(1 .. transaction_count)
        /\ Cardinality(1 .. transaction_count) = transaction_count - 1 + 1
    BY <2>2, FS_Interval
  <2> QED
    BY <2>1, <2>3, Sizes
<1>2. IsFiniteSet(All) /\ Cardinality(All) = Cardinality(Client) * transaction_count
  BY <1>1, FS_Product
<1>3. Finished \in SUBSET All
  BY DEF Finished
<1>4. IsFiniteSet(Finished) /\ Cardinality(Finished) <= Cardinality(All)
  BY <1>2, <1>3, FS_Subset
<1>5. Cardinality(Finished) \in Nat
  BY <1>4, FS_CardinalityType
<1>6. Cardinality(All) = total /\ total \in Nat
  <2>1. \A c, n \in Nat : n * c = c * n /\ n * c \in Nat
    OBVIOUS
  <2>2. total = transaction_count * Cardinality(Client)
    BY DEF total
  <2> HIDE DEF All
  <2> QED
    BY <1>1, <1>2, <2>1, <2>2
<1> QED
  BY <1>4, <1>5, <1>6

LEMMA CompleteInit == Init => CompleteExact
<1> SUFFICES ASSUME Init PROVE Finished = {}
  BY FS_EmptySet DEF Init, CompleteExact
<1> QED
  BY Sizes DEF Init, Finished

LEMMA CompleteStep ==
    ASSUME TypeOK, CompleteExact, [Next]_vars
    PROVE  CompleteExact'
<1>1. CASE UNCHANGED <<txn_remaining, complete>>
  BY <1>1 DEF CompleteExact, Finished
<1>2. ASSUME NEW j \in Client, FromSent(j) PROVE CompleteExact'
  <2> DEFINE t == <<j, txn_remaining[j]>>
  <2>1. /\ txn_remaining \in [Client -> 0 .. transaction_count]
        /\ txn_remaining' = [txn_remaining EXCEPT ![j] = @ - 1]
        /\ txn_remaining[j] >= 1 /\ complete' = complete + 1
    BY <1>2, Sizes DEF FromSent, Counted, TypeOK
  <2>2. t \in Client \X (1 .. transaction_count) /\ t \notin Finished
    BY <2>1, Sizes DEF Finished
  <2>3. \A u \in Client \X (1 .. transaction_count) :
           u[2] > txn_remaining'[u[1]] <=> u[2] > txn_remaining[u[1]] \/ u = t
    <3> SUFFICES ASSUME NEW i \in Client, NEW n \in 1 .. transaction_count
        PROVE  n > txn_remaining'[i] <=> n > txn_remaining[i] \/ <<i, n>> = t
      OBVIOUS
    <3>1. CASE i = j
      BY <2>1, <3>1, Sizes
    <3>2. CASE i # j
      BY <2>1, <3>2
    <3> QED
      BY <3>1, <3>2
  <2> HIDE DEF t
  <2>4. Finished' = Finished \cup {t}
    BY <2>2, <2>3 DEF Finished
  <2>5. Cardinality(Finished') = Cardinality(Finished) + 1
    BY <2>2, <2>4, FinishedIsFinite, FS_AddElement
  <2> QED
    BY <2>1, <2>5 DEF CompleteExact
<1>3. \A j \in Client : FromInit(j) \/ FromConnecting(j) \/ FromNew(j) \/ FromReady(j)
                          => UNCHANGED <<txn_remaining, complete>>
  BY DEF FromInit, FromConnecting, FromNew, FromReady
<1> QED
  BY <1>1, <1>2, <1>3, CountSteps

-----------------------------------------------------------------------------
(* The loop and its clients *)

\* One client at a time is in do_state_transition: while the clients are begun,
\* or as the events of a batch are handled.
Phases ==
    /\ wpc # "init" => begun = Client
    /\ wpc # "handle" => rdy = {}
    /\ wpc \notin {"init", "handle"} => cur = NoClient
    /\ cur \notin rdy /\ (cur \in Client => cur \in begun)
    /\ rdy \subseteq begun
    /\ \A j \in Client \ begun : state[j] = "INIT"

\* do_state_transition of client j changes nothing but what is j's.
LEMMA TransitionEffect ==
    ASSUME TypeOK, NEW j \in Client, Transition(j) \/ RecvError(j)
    PROVE  /\ UNCHANGED <<wpc, begun, rdy>>
           /\ cur = j /\ cur' \in {j, NoClient}
           /\ \A i \in Client : i # j =>
                /\ state'[i] = state[i] /\ watch'[i] = watch[i] /\ link'[i] = link[i]
                /\ cursor'[i] = cursor[i]
                /\ toServer'[i] = toServer[i] /\ toClient'[i] = toClient[i]
<1> USE DEF Returns, Stays, Fails, Becomes, Watches, loop, net, TypeOK
<1>1. CASE FromInit(j)
  BY <1>1 DEF FromInit
<1>2. CASE FromConnecting(j)
  BY <1>2 DEF FromConnecting
<1>3. CASE FromNew(j)
  BY <1>3 DEF FromNew
<1>4. CASE FromReady(j)
  BY <1>4 DEF FromReady, client_send
<1>5. CASE Recv(j)
  BY <1>5 DEF Recv
<1>6. CASE RecvError(j)
  BY <1>6 DEF RecvError
<1>7. CASE FromSent(j)
  BY <1>7 DEF FromSent, Rewind
<1>8. CASE FromDone(j)
  BY <1>8 DEF FromDone
<1> QED
  BY <1>1, <1>2, <1>3, <1>4, <1>5, <1>6, <1>7, <1>8 DEF Transition

LEMMA PhasesInit == Init => Phases
BY Sizes DEF Init, Phases

LEMMA PhasesStep ==
    ASSUME TypeOK, Phases, [Next]_vars
    PROVE  Phases'
<1> USE Sizes DEF Phases
<1>1. CASE Begin
  BY <1>1 DEF Begin, TypeOK
<1>2. CASE Loop
  BY <1>2 DEF Loop
<1>3. CASE Handle
  BY <1>3 DEF Handle, TypeOK
<1>4. CASE Timeout \/ EpollError
  BY <1>4 DEF Timeout, EpollError
<1>5. ASSUME NEW R \in SUBSET Client, EpollWait(R) PROVE Phases'
  BY <1>5 DEF EpollWait
<1>6. ASSUME NEW j \in Client, Transition(j) \/ RecvError(j) PROVE Phases'
  BY <1>6, TransitionEffect DEF TypeOK
<1>7. ASSUME UNCHANGED <<wpc, begun, rdy, cur, state>> PROVE Phases'
  BY <1>7
<1>8. OtherDies \/ UNCHANGED vars \/ (\E j \in Client : Network(j))
        => UNCHANGED <<wpc, begun, rdy, cur, state>>
  BY DEF OtherDies, vars, Network, loop
<1> QED
  BY <1>1, <1>2, <1>3, <1>4, <1>5, <1>6, <1>7, <1>8, LoadSteps DEF Transition

\* A client that goes on has a connection, or knows that it has none; a
\* transition out of CONNECTING is made for an event only.
Connections == \A j \in Client :
    /\ state[j] \in {"NEW", "READY", "SENT"} => link[j] # "connecting"
    /\ state[j] = "CONNECTING" /\ j \in rdy \cup {cur} => link[j] # "connecting"

\* Until it has sent, and after it has received all, nothing is under way.
InTransit(s, c, up_, down) ==
    /\ s \in {"INIT", "CONNECTING", "NEW", "READY"} => c = 0 /\ up_ = 0 /\ down = 0
    /\ s = "SENT" => c + up_ + down <= msg_size
Transit == \A j \in Client : InTransit(state[j], cursor[j], toServer[j], toClient[j])

LEMMA TransitInit == Init => Transit /\ Connections
<1> SUFFICES ASSUME Init PROVE Transit /\ Connections
  OBVIOUS
<1> QED
  BY DEF Init, Transit, InTransit, Connections

LEMMA ConnectionsStep ==
    ASSUME TypeOK, Phases, Transit, Connections, [Next]_vars
    PROVE  Connections'
<1> USE DEF Connections
<1>1. CASE Begin
  BY <1>1, Sizes DEF Begin, Phases, TypeOK, net
<1>2. CASE Handle
  BY <1>2, Sizes DEF Handle, TypeOK, net
<1>3. CASE Loop \/ Timeout \/ EpollError \/ OtherDies \/ UNCHANGED vars
  BY <1>3 DEF Loop, Timeout, EpollError, OtherDies, vars, loop, net
<1>4. ASSUME NEW R \in SUBSET Client, EpollWait(R) PROVE Connections'
  <2>1. /\ rdy' = R /\ UNCHANGED <<cur, state, link>> /\ cur = NoClient
        /\ \A j \in R : Event(j)
    BY <1>4 DEF EpollWait, net, Phases
  <2>2. \A j \in R : state[j] = "CONNECTING" => link[j] # "connecting"
    BY <2>1 DEF Event, Transit, InTransit, TypeOK
  <2> QED
    BY <2>1, <2>2, Sizes
<1>5. ASSUME NEW j \in Client, Network(j) PROVE Connections'
  <2>1. UNCHANGED <<rdy, cur, state>>
    BY <1>5 DEF Network, loop
  <2>2. \A i \in Client : link'[i] = link[i] \/ link'[i] # "connecting"
    BY <1>5 DEF Network, Connected, Echo, Lost, TypeOK
  <2> QED
    BY <2>1, <2>2
<1>6. ASSUME NEW j \in Client, Transition(j) \/ RecvError(j) PROVE Connections'
  <2>1. /\ UNCHANGED <<rdy>> /\ cur = j /\ cur' \in {j, NoClient}
        /\ \A i \in Client : i # j => state'[i] = state[i] /\ link'[i] = link[i]
    BY <1>6, TransitionEffect
  <2>2. j \notin rdy
    BY <2>1 DEF Phases
  <2>3. /\ state'[j] \in {"NEW", "READY", "SENT"} => link'[j] # "connecting"
        /\ state'[j] = "CONNECTING" /\ cur' = j => link'[j] # "connecting"
    <3> USE Sizes, <2>1 DEF Returns, Stays, Fails, Becomes, Watches, net, TypeOK
    <3>1. CASE FromInit(j)
      BY <3>1 DEF FromInit
    <3>2. CASE FromConnecting(j)
      BY <3>2 DEF FromConnecting
    <3>3. CASE FromNew(j)
      BY <3>3 DEF FromNew
    <3>4. CASE FromReady(j)
      BY <3>4 DEF FromReady, client_send
    <3>5. CASE Recv(j) \/ RecvError(j)
      BY <3>5 DEF Recv, RecvError
    <3>6. CASE FromSent(j)
      BY <3>6 DEF FromSent
    <3>7. CASE FromDone(j)
      BY <3>7 DEF FromDone
    <3> QED
      BY <1>6, <3>1, <3>2, <3>3, <3>4, <3>5, <3>6, <3>7 DEF Transition
  <2> QED
    BY <2>1, <2>2, <2>3, Sizes
<1> QED
  BY <1>1, <1>2, <1>3, <1>4, <1>5, <1>6, LoadSteps DEF Transition

LEMMA TransitStep ==
    ASSUME TypeOK, Transit, [Next]_vars
    PROVE  Transit'
<1>0. /\ state \in [Client -> {"INIT", "CONNECTING", "NEW", "READY", "SENT", "DONE"}]
      /\ cursor \in [Client -> 0 .. msg_size]
      /\ toServer \in [Client -> Nat] /\ toClient \in [Client -> Nat]
  BY DEF TypeOK
<1>1. CASE UNCHANGED <<state, cursor, toServer, toClient>>
  BY <1>1 DEF Transit
<1>2. ASSUME NEW j \in Client,
             \A i \in Client : i # j =>
               /\ state'[i] = state[i] /\ cursor'[i] = cursor[i]
               /\ toServer'[i] = toServer[i] /\ toClient'[i] = toClient[i],
             InTransit(state'[j], cursor'[j], toServer'[j], toClient'[j])
      PROVE  Transit'
  BY <1>2 DEF Transit
<1>3. Begin \/ Loop \/ Handle \/ Timeout \/ EpollError \/ OtherDies \/ UNCHANGED vars
        => UNCHANGED <<state, cursor, toServer, toClient>>
  BY DEF Begin, Loop, Handle, Timeout, EpollError, OtherDies, vars, net
<1>4. \A R \in SUBSET Client : EpollWait(R) => UNCHANGED <<state, cursor, toServer, toClient>>
  BY DEF EpollWait, net
<1>5. ASSUME NEW j \in Client, Network(j) PROVE Transit'
  <2>1. UNCHANGED <<state, cursor>>
    BY <1>5 DEF Network
  <2>2. CASE Connected(j) \/ Lost(j)
    BY <1>1, <2>1, <2>2 DEF Connected, Lost
  <2>3. CASE Echo(j)
    <3>1. PICK n \in 1 .. toServer[j] :
            /\ toServer' = [toServer EXCEPT ![j] = @ - n]
            /\ toClient' = [toClient EXCEPT ![j] = @ + n]
      BY <2>3 DEF Echo
    <3>2. InTransit(state[j], cursor[j], toServer[j], toClient[j])
      BY DEF Transit
    <3>3. InTransit(state'[j], cursor'[j], toServer'[j], toClient'[j])
      BY <1>0, <2>1, <3>1, <3>2, Sizes DEF InTransit
    <3> QED
      BY <1>2, <2>1, <3>1, <3>3, <1>0
  <2> QED
    BY <1>5, <2>2, <2>3 DEF Network
<1>6. ASSUME NEW j \in Client, Transition(j) \/ RecvError(j) PROVE Transit'
  <2>1. \A i \in Client : i # j =>
               /\ state'[i] = state[i] /\ cursor'[i] = cursor[i]
               /\ toServer'[i] = toServer[i] /\ toClient'[i] = toClient[i]
    BY <1>6, TransitionEffect
  <2>2. InTransit(state[j], cursor[j], toServer[j], toClient[j])
    BY DEF Transit
  <2>3. InTransit(state'[j], cursor'[j], toServer'[j], toClient'[j])
    <3> USE <1>0, <2>2, Sizes DEF InTransit, Stays, Returns, Fails, Becomes, net
    <3>1. CASE FromInit(j)
      BY <3>1 DEF FromInit
    <3>2. CASE FromConnecting(j)
      BY <3>2 DEF FromConnecting
    <3>3. CASE FromNew(j)
      BY <3>3 DEF FromNew
    <3>4. CASE FromReady(j)
      BY <3>4 DEF FromReady, client_send
    <3>5. CASE Recv(j)
      <4>1. /\ state' = state /\ toServer' = toServer /\ state[j] = "SENT"
            /\ \/ cursor' = cursor /\ toClient' = toClient
               \/ /\ cursor' = [cursor EXCEPT ![j] = @ + Received(j)]
                  /\ toClient' = [toClient EXCEPT ![j] = @ - Received(j)]
        BY <3>5 DEF Recv
      <4>2. Received(j) \in Nat
        BY ReceivedBytes
      <4> QED
        BY <4>1, <4>2
    <3>6. CASE RecvError(j)
      BY <3>6 DEF RecvError
    <3>7. CASE FromSent(j)
      BY <3>7 DEF FromSent, Rewind
    <3>8. CASE FromDone(j)
      BY <3>8 DEF FromDone
    <3> QED
      BY <1>6, <3>1, <3>2, <3>3, <3>4, <3>5, <3>6, <3>7, <3>8 DEF Transition
  <2> QED
    BY <1>2, <2>1, <2>3
<1> QED
  BY <1>1, <1>3, <1>4, <1>5, <1>6, LoadSteps DEF Transition

\* A failure is not taken back, and the environment stays what it is.
LEMMA Lasting ==
    ASSUME [Next]_vars
    PROVE  (dying => dying') /\ (immediate => immediate')
<1>1. CASE UNCHANGED vars
  BY <1>1 DEF vars
<1>2. CASE Next
  <2>1. dying => dying'
    BY <1>2, LoadSteps DEF Begin, Loop, Handle, Timeout, EpollError, OtherDies,
       EpollWait, FromInit, FromConnecting, FromNew, FromReady, client_send, Recv,
       RecvError, FromSent, FromDone, Network, Fails
  <2>2. immediate => immediate'
    BY <1>2 DEF Next, env
  <2> QED
    BY <2>1, <2>2
<1> QED
  BY <1>1, <1>2

\* On a connection that holds, no byte of the message is lost.
Exact == \A j \in Client : state[j] = "SENT" /\ link[j] = "up" /\ ~dying =>
    cursor[j] + toServer[j] + toClient[j] = msg_size

LEMMA ExactStep ==
    ASSUME TypeOK, Transit, Connections, Exact, [Next]_vars
    PROVE  Exact'
<1>0. /\ state \in [Client -> {"INIT", "CONNECTING", "NEW", "READY", "SENT", "DONE"}]
      /\ cursor \in [Client -> 0 .. msg_size]
      /\ link \in [Client -> {"none", "connecting", "failed", "up", "closed"}]
      /\ toServer \in [Client -> Nat] /\ toClient \in [Client -> Nat]
  BY DEF TypeOK
<1>1. dying => dying'
  BY Lasting
<1>2. SUFFICES ASSUME NEW i \in Client, state'[i] = "SENT", link'[i] = "up", ~dying'
      PROVE  cursor'[i] + toServer'[i] + toClient'[i] = msg_size
  BY DEF Exact
<1>3. CASE /\ state'[i] = state[i] /\ cursor'[i] = cursor[i] /\ link'[i] = link[i]
           /\ toServer'[i] = toServer[i] /\ toClient'[i] = toClient[i]
  BY <1>1, <1>2, <1>3 DEF Exact
<1>4. Begin \/ Loop \/ Handle \/ Timeout \/ EpollError \/ OtherDies \/ UNCHANGED vars
        => UNCHANGED <<state, cursor, link, toServer, toClient>>
  BY DEF Begin, Loop, Handle, Timeout, EpollError, OtherDies, vars, net
<1>5. \A R \in SUBSET Client :
        EpollWait(R) => UNCHANGED <<state, cursor, link, toServer, toClient>>
  BY DEF EpollWait, net
<1>6. ASSUME NEW j \in Client, Network(j)
      PROVE  cursor'[i] + toServer'[i] + toClient'[i] = msg_size
  <2>1. UNCHANGED <<state, cursor>>
    BY <1>6 DEF Network
  <2>2. link[i] # "connecting"
    BY <1>2, <2>1 DEF Connections
  <2>3. CASE Connected(j) \/ Lost(j)
    <3>1. UNCHANGED <<toServer, toClient>> /\ link'[i] = link[i]
      BY <1>0, <1>2, <2>2, <2>3 DEF Connected, Lost
    <3> QED
      BY <1>3, <2>1, <3>1
  <2>4. CASE Echo(j)
    <3>1. PICK n \in 1 .. toServer[j] :
            /\ toServer' = [toServer EXCEPT ![j] = @ - n]
            /\ toClient' = [toClient EXCEPT ![j] = @ + n]
            /\ UNCHANGED link
      BY <2>4 DEF Echo
    <3>2. cursor[i] + toServer[i] + toClient[i] = msg_size
      BY <1>1, <1>2, <2>1, <3>1 DEF Exact
    <3> QED
      BY <1>0, <2>1, <3>1, <3>2
  <2> QED
    BY <1>6, <2>3, <2>4 DEF Network
<1>7. ASSUME NEW j \in Client, Transition(j) \/ RecvError(j)
      PROVE  cursor'[i] + toServer'[i] + toClient'[i] = msg_size
  <2>1. CASE i # j
    BY <1>3, <1>7, <2>1, TransitionEffect
  <2>2. CASE i = j
    <3> USE <1>0, <1>2, <2>2 DEF Becomes
    <3>1. ~FromInit(j) /\ ~FromNew(j) /\ ~FromDone(j)
      BY DEF FromInit, FromNew, FromDone
    <3>2. ~FromConnecting(j)
      BY DEF FromConnecting
    <3>3. ~FromSent(j)
      BY DEF FromSent
    <3>4. ~RecvError(j)
      BY DEF RecvError, Fails
    <3>5. CASE FromReady(j)
      <4>1. /\ state[j] = "READY" /\ cursor' = cursor /\ toClient' = toClient
            /\ link' = link /\ client_send(j)
        BY <3>5 DEF FromReady
      <4>2. cursor[j] = 0 /\ toServer[j] = 0 /\ toClient[j] = 0
        BY <4>1 DEF Transit, InTransit
      <4>3. toServer' = [toServer EXCEPT ![j] = @ + msg_size]
        BY <4>1 DEF client_send, Fails
      <4> QED
        BY <4>1, <4>2, <4>3, Sizes
    <3>6. CASE Recv(j)
      <4>1. /\ state' = state /\ toServer' = toServer /\ link' = link
            /\ \/ cursor' = cursor /\ toClient' = toClient
               \/ /\ cursor' = [cursor EXCEPT ![j] = @ + Received(j)]
                  /\ toClient' = [toClient EXCEPT ![j] = @ - Received(j)]
        BY <3>6 DEF Recv
      <4>2. Received(j) \in Nat
        BY ReceivedBytes
      <4>3. cursor[j] + toServer[j] + toClient[j] = msg_size
        BY <1>1, <4>1 DEF Exact
      <4> QED
        BY <4>1, <4>2, <4>3
    <3> QED
      BY <1>7, <3>1, <3>2, <3>3, <3>4, <3>5, <3>6 DEF Transition
  <2> QED
    BY <2>1, <2>2
<1> QED
  BY <1>3, <1>4, <1>5, <1>6, <1>7, LoadSteps DEF Transition

\* A client is registered for what it waits for, unless its turn is now or comes
\* with the events that are being handled; a client whose connect succeeded at
\* once never was.
Registered == ~immediate /\ ~dying => \A j \in Client :
    /\ state[j] \in {"READY", "SENT"} => watch[j] = "in"
    /\ state[j] = "CONNECTING" => watch[j] = "out" \/ j \in rdy \cup {cur}
    /\ state[j] \in {"INIT", "NEW", "READY"} => cur = j \/ j \notin begun

LEMMA ExactInit == Init => Exact /\ Registered
<1> SUFFICES ASSUME Init PROVE Exact /\ Registered
  OBVIOUS
<1> QED
  BY DEF Init, Exact, Registered

LEMMA RegisteredStep ==
    ASSUME TypeOK, Phases, Registered, [Next]_vars
    PROVE  Registered'
<1>0. /\ state \in [Client -> {"INIT", "CONNECTING", "NEW", "READY", "SENT", "DONE"}]
      /\ watch \in [Client -> {"none", "out", "off", "in"}]
  BY DEF TypeOK
<1>1. (dying => dying') /\ (immediate => immediate')
  BY Lasting
<1>2. SUFFICES ASSUME ~immediate', ~dying', NEW i \in Client
      PROVE  /\ state'[i] \in {"READY", "SENT"} => watch'[i] = "in"
             /\ state'[i] = "CONNECTING" => watch'[i] = "out" \/ i \in rdy' \cup {cur'}
             /\ state'[i] \in {"INIT", "NEW", "READY"} => cur' = i \/ i \notin begun'
  BY DEF Registered
<1>3. /\ state[i] \in {"READY", "SENT"} => watch[i] = "in"
      /\ state[i] = "CONNECTING" => watch[i] = "out" \/ i \in rdy \cup {cur}
      /\ state[i] \in {"INIT", "NEW", "READY"} => cur = i \/ i \notin begun
  BY <1>1, <1>2 DEF Registered
<1>4. CASE Begin
  BY <1>3, <1>4, Sizes DEF Begin
<1>5. CASE Handle
  BY <1>3, <1>5, Sizes DEF Handle
<1>6. CASE Loop \/ Timeout \/ EpollError \/ OtherDies \/ UNCHANGED vars
  BY <1>3, <1>6 DEF Loop, Timeout, EpollError, OtherDies, vars, loop
<1>7. ASSUME NEW R \in SUBSET Client, EpollWait(R)
      PROVE  /\ UNCHANGED <<state, cur, begun>> /\ rdy = {} /\ rdy' = R
             /\ watch'[i] = IF i \in R /\ watch[i] = "out" THEN "off" ELSE watch[i]
  BY <1>7 DEF EpollWait, Phases
<1>8. ASSUME NEW j \in Client, Network(j)
      PROVE  UNCHANGED <<state, cur, begun, rdy, watch>>
  BY <1>8 DEF Network, loop
<1>9. ASSUME NEW j \in Client, Transition(j) \/ RecvError(j), i # j
      PROVE  /\ state'[i] = state[i] /\ watch'[i] = watch[i] /\ UNCHANGED <<begun, rdy>>
             /\ cur # i
  BY <1>9, TransitionEffect
<1>10. ASSUME Transition(i) \/ RecvError(i)
       PROVE  /\ state'[i] \in {"READY", "SENT"} => watch'[i] = "in"
              /\ state'[i] = "CONNECTING" => watch'[i] = "out"
              /\ state'[i] \in {"INIT", "NEW", "READY"} => cur' = i
  <2> USE <1>0, <1>1, <1>2, <1>3 DEF Stays, Returns, Fails, Becomes, Watches, net
  <2>1. CASE FromInit(i)
    BY <2>1 DEF FromInit
  <2>2. CASE FromConnecting(i)
    BY <2>2 DEF FromConnecting
  <2>3. CASE FromNew(i)
    BY <2>3 DEF FromNew
  <2>4. CASE FromReady(i)
    BY <2>4 DEF FromReady, client_send
  <2>5. CASE Recv(i) \/ RecvError(i)
    BY <2>5 DEF Recv, RecvError
  <2>6. CASE FromSent(i)
    BY <2>6 DEF FromSent
  <2>7. CASE FromDone(i)
    BY <2>7 DEF FromDone
  <2> QED
    BY <1>10, <2>1, <2>2, <2>3, <2>4, <2>5, <2>6, <2>7 DEF Transition
<1>11. ASSUME NEW j \in Client, Transition(j) \/ RecvError(j)
       PROVE  /\ state'[i] \in {"READY", "SENT"} => watch'[i] = "in"
              /\ state'[i] = "CONNECTING" => watch'[i] = "out" \/ i \in rdy' \cup {cur'}
              /\ state'[i] \in {"INIT", "NEW", "READY"} => cur' = i \/ i \notin begun'
  BY <1>3, <1>9, <1>10, <1>11
<1> QED
  BY <1>3, <1>4, <1>5, <1>6, <1>7, <1>8, <1>11, LoadSteps DEF Transition

-----------------------------------------------------------------------------
(* The load *)

LoadInv == /\ TypeOK /\ Batches /\ CompleteExact /\ Phases
           /\ Transit /\ Connections /\ Exact /\ Registered

LEMMA LoadInit == Init => LoadInv
BY TypeInit, BatchesInit, CompleteInit, PhasesInit, TransitInit, ExactInit DEF LoadInv

LEMMA LoadStep == LoadInv /\ [Next]_vars => LoadInv'
<1> SUFFICES ASSUME LoadInv, [Next]_vars PROVE LoadInv'
  OBVIOUS
<1> USE DEF LoadInv
<1>1. TypeOK'
  BY TypeStep
<1>2. Batches'
  BY BatchesStep
<1>3. CompleteExact'
  BY CompleteStep
<1>4. Phases'
  BY PhasesStep
<1>5. Transit'
  BY TransitStep
<1>6. Connections'
  BY ConnectionsStep
<1>7. Exact'
  BY ExactStep
<1>8. Registered'
  BY RegisteredStep
<1> QED
  BY <1>1, <1>2, <1>3, <1>4, <1>5, <1>6, <1>7, <1>8

LEMMA LoadCorrect == Spec => []LoadInv
<1> QED
  BY LoadInit, LoadStep, PTL DEF Spec

\* The properties of the load, in every state of the invariant.
LEMMA LoadProperties == LoadInv => OneMessage /\ CountsAgree /\ WaitsAreWatched
<1> SUFFICES ASSUME LoadInv PROVE OneMessage /\ CountsAgree /\ WaitsAreWatched
  OBVIOUS
<1>1. OneMessage
  BY DEF LoadInv, Transit, InTransit, Exact, OneMessage
<1>2. CountsAgree
  BY BatchesAlign DEF LoadInv, CountsAgree
<1>3. ASSUME wpc = "wait", ~immediate, ~dying, NEW j \in Client
      PROVE  Watched(j)
  <2>1. rdy = {} /\ cur # j /\ j \in begun
    BY <1>3, Sizes DEF LoadInv, Phases
  <2>2. /\ state[j] \notin {"INIT", "NEW", "READY"}
        /\ state[j] = "CONNECTING" => watch[j] = "out"
        /\ state[j] = "SENT" => watch[j] = "in"
    BY <1>3, <2>1 DEF LoadInv, Registered
  <2> QED
    BY <2>2 DEF LoadInv, TypeOK, Watched
<1>4. WaitsAreWatched
  BY <1>3 DEF WaitsAreWatched, AllWatched
<1> QED
  BY <1>1, <1>2, <1>4

\* The variables of a worker of the load generator have their types.
THEOREM LoadTypeCorrect == Spec => []TypeOK
<1>1. LoadInv => TypeOK
  BY DEF LoadInv
<1> QED
  BY <1>1, LoadCorrect, PTL

\* A client has at most one message under way (client_send, client_recv and case
\* SENT of do_state_transition): none of its bytes is lost or left behind.
THEOREM LoadOneMessage == Spec => []OneMessage
<1> QED
  BY LoadProperties, LoadCorrect, PTL

\* complete, with which the loop of worker_func ends, counts each transaction
\* once, and a socket carries batch_size of them.
THEOREM LoadCountsAgree == Spec => []CountsAgree
<1> QED
  BY LoadProperties, LoadCorrect, PTL

\* In epoll_wait each client that is not done is registered for what it waits for
\* (tcp_client.c:475-476), if no connect succeeded at once.
THEOREM LoadWaitsAreWatched == Spec => []WaitsAreWatched
<1> QED
  BY LoadProperties, LoadCorrect, PTL

-----------------------------------------------------------------------------
(* The measurement *)

\* A measurement is a run of the load, and main does nothing before it is over.
LEMMA MeasurementLoad == MeasurementSpec => Spec
<1>1. MeasurementInit => Init
  BY DEF MeasurementInit
<1>2. [MeasurementNext]_mvars => [Next]_vars
  BY DEF MeasurementNext, mvars, client_main, Join, Dial, ReadSize, ReadText, Save,
     Main, GivesUp, control_loop, Control, OnControl, OnErrorNone, WriteText, Hangup,
     ServerEnds
<1> QED
  BY <1>1, <1>2, PTL DEF MeasurementSpec, Spec

\* Where main and the control loop are with the answer, and why the load ended.
Answered ==
    /\ mainpc # "join" => wpc = "done"
    /\ wpc = "done" => dying \/ complete >= total
    /\ mainpc \in {"join", "dial"} => ctl = "none"
    /\ ctl \in {"none", "backlog"} => sent = 0
    /\ spc = "write" => ctl = "open" /\ sent < Whole
    /\ ctl \in {"shut", "closed"} => dying \/ sent = Whole
    /\ mainpc \in {"save", "returned"} => ~dying /\ (got = Whole \/ ~up)

MeasurementInv == MeasurementTypeOK /\ Answered

LEMMA WholeIsMore == Whole \in Nat /\ Whole > 1
BY MeasurementAssumption DEF Whole

LEMMA MeasurementStart == MeasurementInit => MeasurementInv
<1> SUFFICES ASSUME MeasurementInit PROVE MeasurementInv
  OBVIOUS
<1> QED
  BY WholeIsMore DEF MeasurementInit, Init, MeasurementInv, MeasurementTypeOK, Answered

\* The thread is done for a failure, or because all is done, and stays so.
LEMMA LoadDone ==
    ASSUME TypeOK, Phases, [Next]_vars, wpc = "done" => dying \/ complete >= total
    PROVE  wpc' = "done" => dying' \/ complete' >= total
<1>1. CASE Loop
  <2>1. wpc' = "done" => dying \/ complete >= total
    BY <1>1 DEF Loop
  <2>2. complete' = complete /\ (dying => dying')
    BY <1>1, Lasting DEF Loop
  <2> QED
    BY <2>1, <2>2
<1>2. CASE EpollError
  BY <1>2 DEF EpollError
<1>3. CASE Begin \/ Handle \/ Timeout
  BY <1>3 DEF Begin, Handle, Timeout
<1>4. ASSUME NEW R \in SUBSET Client, EpollWait(R) PROVE wpc' # "done"
  BY <1>4 DEF EpollWait
<1>5. ASSUME NEW j \in Client, Transition(j) \/ RecvError(j) PROVE wpc' # "done"
  BY <1>5, TransitionEffect, Sizes DEF Phases
<1>6. ASSUME OtherDies \/ UNCHANGED vars \/ \E j \in Client : Network(j)
      PROVE  wpc' = wpc /\ complete' = complete
  BY <1>6 DEF OtherDies, vars, Network, loop
<1>7. dying => dying'
  BY Lasting
<1> QED
  BY <1>1, <1>2, <1>3, <1>4, <1>5, <1>6, <1>7, LoadSteps DEF Transition

LEMMA MeasurementStep ==
    ASSUME LoadInv, MeasurementInv, [MeasurementNext]_mvars
    PROVE  MeasurementInv'
<1> USE WholeIsMore DEF MeasurementInv, MeasurementTypeOK, Answered
<1>0. Whole' = Whole /\ total' = total
  BY DEF Whole, total
<1>1. CASE Next /\ mainpc = "join" /\ UNCHANGED control
  <2>1. UNCHANGED <<mainpc, up, spc, ctl, sent, got>>
    BY <1>1 DEF control
  <2>2. wpc' = "done" => dying' \/ complete' >= total
    BY <1>1, LoadDone DEF LoadInv
  <2>3. dying => dying'
    BY <1>1, Lasting
  <2> QED
    BY <1>0, <1>1, <2>1, <2>2, <2>3
<1>2. ASSUME UNCHANGED vars
      PROVE  /\ UNCHANGED <<wpc, complete>> /\ (dying <=> dying')
  BY <1>2 DEF vars
<1>3. CASE Join
  BY <1>0, <1>2, <1>3 DEF Join, Main
<1>4. CASE Dial
  BY <1>0, <1>2, <1>4 DEF Dial, Main, GivesUp
<1>5. CASE ReadSize
  BY <1>0, <1>2, <1>5 DEF ReadSize, Main, GivesUp
<1>6. CASE ReadText
  BY <1>0, <1>2, <1>6 DEF ReadText, Main, GivesUp, More, AtEnd
<1>7. CASE Save
  BY <1>0, <1>2, <1>7 DEF Save, Main
<1>8. CASE OnControl
  BY <1>0, <1>2, <1>8 DEF OnControl, Control
<1>9. CASE OnErrorNone
  BY <1>0, <1>2, <1>9 DEF OnErrorNone, Control
<1>10. CASE WriteText
  <2>1. /\ UNCHANGED <<vars, mainpc, got>> /\ up /\ spc = "write"
        /\ ctl = "open" /\ sent \in 0 .. Whole /\ mainpc # "dial" /\ mainpc # "join"
    BY <1>10 DEF WriteText, Control
  <2>2. ASSUME NEW n \in 1 .. Whole - sent, sent' = sent + n, UNCHANGED up,
               IF sent + n = Whole THEN spc' = "wait" /\ ctl' = Shut
                                   ELSE UNCHANGED <<spc, ctl>>
        PROVE  MeasurementInv'
    <3>1. CASE sent + n = Whole
      BY <1>0, <1>2, <2>1, <2>2, <3>1 DEF Shut
    <3>2. CASE sent + n # Whole
      BY <1>0, <1>2, <2>1, <2>2, <3>2
    <3> QED
      BY <3>1, <3>2
  <2>3. ASSUME ~up', UNCHANGED <<spc, ctl, sent>> PROVE MeasurementInv'
    <3>1. up' \in BOOLEAN
      BY <1>10 DEF WriteText, Control
    <3> QED
      BY <1>0, <1>2, <2>1, <2>3, <3>1
  <2> QED
    BY <1>10, <2>2, <2>3 DEF WriteText
<1>11. CASE Hangup
  BY <1>0, <1>2, <1>11 DEF Hangup, Control
<1>12. CASE ServerEnds
  BY <1>0, <1>2, <1>12 DEF ServerEnds
<1>13. CASE UNCHANGED mvars
  BY <1>0, <1>2, <1>13 DEF mvars, control
<1> QED
  BY <1>1, <1>3, <1>4, <1>5, <1>6, <1>7, <1>8, <1>9, <1>10, <1>11, <1>12, <1>13
  DEF MeasurementNext, client_main, control_loop

LEMMA MeasurementCorrect == MeasurementSpec => [](LoadInv /\ MeasurementInv)
<1>1. MeasurementSpec => []LoadInv
  BY MeasurementLoad, LoadCorrect, PTL
<1>2. LoadInv /\ MeasurementInv /\ [MeasurementNext]_mvars => MeasurementInv'
  BY MeasurementStep
<1> QED
  BY <1>1, <1>2, MeasurementStart, PTL DEF MeasurementSpec

\* The variables of main and of the control loop have their types: what is read
\* was written.
THEOREM MeasurementTypeCorrect == MeasurementSpec => []MeasurementTypeOK
<1>1. MeasurementInv => MeasurementTypeOK
  BY DEF MeasurementInv
<1> QED
  BY <1>1, MeasurementCorrect, PTL

\* main of tcp_client.c returns 0 only after every transaction, without a failed
\* worker, and with the whole statistics, unless the server ended meanwhile.
THEOREM MeasurementSound == MeasurementSpec => []SoundOutcome
<1>1. LoadInv /\ MeasurementInv => SoundOutcome
  <2> SUFFICES ASSUME LoadInv, MeasurementInv, mainpc = "returned"
      PROVE  complete = total /\ ~dying /\ (got = Whole \/ ~up)
    BY DEF SoundOutcome
  <2>1. ~dying /\ (got = Whole \/ ~up)
    BY DEF MeasurementInv, Answered
  <2>2. complete >= total
    BY <2>1 DEF MeasurementInv, Answered
  <2>3. complete <= total /\ complete \in Nat /\ total \in Nat
    BY FinishedIsFinite DEF LoadInv, CompleteExact, TypeOK
  <2> QED
    BY <2>1, <2>2, <2>3
<1> QED
  BY <1>1, MeasurementCorrect, PTL

\* During a measurement the load keeps its promises, too.
THEOREM MeasurementLoadSound ==
    MeasurementSpec => [](OneMessage /\ CountsAgree /\ WaitsAreWatched)
<1> QED
  BY LoadProperties, MeasurementCorrect, PTL
===============================================================================
