-------------------------- MODULE UpcallLoop_proofs --------------------------
(***************************************************************************)
(* The loop keeps its arrays in bounds, its requests and its buffers each  *)
(* in one place, and implements UpcallService, for any requests, buffers,  *)
(* batch size and queue step.                                              *)
(***************************************************************************)
EXTENDS UpcallLoop, TLAPS

\* What the phases of the loop imply: receive[] is empty outside a dispatch,
\* an event is being handled only by a work_fn, and a UP_VEC is queued only
\* until the first upcall_submit after it, with nothing in buffers[] meanwhile.
LoopShape ==
    /\ lpc \notin {"handler", "dispatch"} => recv = {}
    /\ lpc # "handler" => cur = {}
    /\ lpc = "setup" => buf_cnt = 0
    /\ \A i \in DOMAIN Unread :
         IsVec(Unread[i]) => lpc \in {"setup", "submit"} /\ buf_cnt = 0
    /\ \A e \in ready \cup recv : e.buf # NoBuf => e.type = "read"

-----------------------------------------------------------------------------
(* The operators on the work queue *)

\* Entries and UP_VECs are told apart by their type.
LEMMA EntryIsNotVec ==
    /\ \A e \in Entry : ~IsVec(e) /\ e.type \in Type /\ e.req \in Req
    /\ \A v \in Vec : IsVec(v) /\ v.len \in Nat
    /\ \A e \in Entry : e = [type |-> e.type, req |-> e.req]
BY DEF Entry, Vec, IsVec, Type

\* Appending keeps what was queued.
LEMMA Appended ==
    ASSUME NEW S, NEW w \in Seq(S), NEW x \in S
    PROVE  /\ Append(w, x) \in Seq(S)
           /\ Len(w) \in Nat /\ DOMAIN w = 1 .. Len(w)
           /\ Len(Append(w, x)) = Len(w) + 1
           /\ DOMAIN Append(w, x) = 1 .. Len(w) + 1
           /\ \A i \in 1 .. Len(w) : Append(w, x)[i] = w[i] /\ w[i] \in S
           /\ Append(w, x)[Len(w) + 1] = x
OBVIOUS

\* A request that is added is one more request of the queue, and its buffers
\* stay the same.
LEMMA EntryAdded ==
    ASSUME NEW w \in Seq(Entry \cup Vec), NEW e \in Entry
    PROVE  /\ ReqsOf(Append(w, e)) = ReqsOf(w) \cup {e}
           /\ VecBufs(Append(w, e)) = VecBufs(w)
<1> DEFINE x == Append(w, e)
<1>1. /\ DOMAIN w = 1 .. Len(w) /\ DOMAIN x = 1 .. Len(w) + 1 /\ Len(w) \in Nat
      /\ \A i \in 1 .. Len(w) : x[i] = w[i]
      /\ x[Len(w) + 1] = e /\ ~IsVec(e)
  BY EntryIsNotVec
<1> HIDE DEF x
<1>2. { j \in DOMAIN x : IsVec(x[j]) } = { j \in DOMAIN w : IsVec(w[j]) }
  BY <1>1
<1>3. { j \in DOMAIN x : ~IsVec(x[j]) }
        = { j \in DOMAIN w : ~IsVec(w[j]) } \cup {Len(w) + 1}
  BY <1>1
<1>4. ReqsOf(x) = ReqsOf(w) \cup {e}
  BY <1>1, <1>3 DEF ReqsOf
<1>5. \A j \in { j \in DOMAIN w : IsVec(w[j]) } : 1 .. x[j].len = 1 .. w[j].len
  BY <1>1
<1>6. VecBufs(x) = VecBufs(w)
  BY <1>2, <1>5 DEF VecBufs
<1> QED
  BY <1>4, <1>6 DEF x

\* A UP_VEC that is added leaves the requests and adds its buffers.
LEMMA VecAdded ==
    ASSUME NEW w \in Seq(Entry \cup Vec), NEW v \in Vec
    PROVE  /\ ReqsOf(Append(w, v)) = ReqsOf(w)
           /\ VecBufs(Append(w, v)) = VecBufs(w) \cup { buffers[k] : k \in 1 .. v.len }
<1> DEFINE x == Append(w, v)
<1>1. /\ DOMAIN w = 1 .. Len(w) /\ DOMAIN x = 1 .. Len(w) + 1 /\ Len(w) \in Nat
      /\ \A i \in 1 .. Len(w) : x[i] = w[i]
      /\ x[Len(w) + 1] = v /\ IsVec(v)
  BY EntryIsNotVec
<1> HIDE DEF x
<1>2. { j \in DOMAIN x : IsVec(x[j]) }
        = { j \in DOMAIN w : IsVec(w[j]) } \cup {Len(w) + 1}
  BY <1>1
<1>3. { j \in DOMAIN x : ~IsVec(x[j]) } = { j \in DOMAIN w : ~IsVec(w[j]) }
  BY <1>1
<1>4. ReqsOf(x) = ReqsOf(w)
  BY <1>1, <1>3 DEF ReqsOf
<1>5. \A j \in { j \in DOMAIN w : IsVec(w[j]) } : 1 .. x[j].len = 1 .. w[j].len
  BY <1>1
<1>6. UNION { 1 .. x[i].len : i \in { j \in DOMAIN x : IsVec(x[j]) } }
        = (UNION { 1 .. w[i].len : i \in { j \in DOMAIN w : IsVec(w[j]) } }) \cup 1 .. v.len
  BY <1>1, <1>2, <1>5
<1>7. VecBufs(x) = VecBufs(w) \cup { buffers[k] : k \in 1 .. v.len }
  BY <1>6 DEF VecBufs
<1> QED
  BY <1>4, <1>7 DEF x

\* A queue without a UP_VEC holds no buffers; the empty queue holds nothing.
LEMMA NothingQueued ==
    /\ \A w : (\A i \in DOMAIN w : ~IsVec(w[i])) => VecBufs(w) = {}
    /\ ReqsOf(<<>>) = {} /\ VecBufs(<<>>) = {}
BY DEF VecBufs, ReqsOf

\* The buffer array after return_buffer(b) keeps the buffers in front of b.
LEMMA StoredBuffers ==
    ASSUME TypeOK, buf_cnt <= buf_max, buf_max >= 1, NEW b \in Buf
    PROVE  /\ Stored(b) \in Seq(Buf \cup {NoBuf})
           /\ Len(Stored(b)) >= buf_max /\ Len(Stored(b)) >= buf_cnt + 1
           /\ \A i \in 1 .. buf_max : i # buf_cnt + 1 => Stored(b)[i] = buffers[i]
           /\ Stored(b)[buf_cnt + 1] = b
<1>1. /\ buffers \in Seq(Buf \cup {NoBuf}) /\ buf_max \in Nat /\ buf_cnt \in Nat
      /\ DOMAIN buffers = 1 .. buf_max
  BY DEF TypeOK, buf_max
<1>2. CASE buf_cnt = buf_max
  <2> DEFINE f == [i \in 1 .. 2 * buf_max |->
                     IF i <= buf_cnt THEN buffers[i] ELSE IF i = buf_cnt + 1 THEN b ELSE NoBuf]
  <2>1. Stored(b) = f
    BY <1>2 DEF Stored
  <2>2. \A i \in 1 .. 2 * buf_max : f[i] \in Buf \cup {NoBuf}
    BY <1>1, <1>2 DEF buf_max
  <2>3. f \in Seq(Buf \cup {NoBuf}) /\ Len(f) = 2 * buf_max
    BY <1>1, <2>2
  <2> QED
    BY <1>1, <1>2, <2>1, <2>3
<1>3. CASE buf_cnt # buf_max
  <2>1. Stored(b) = [buffers EXCEPT ![buf_cnt + 1] = b]
    BY <1>3 DEF Stored
  <2>2. buf_cnt + 1 \in 1 .. buf_max
    BY <1>1, <1>3
  <2> DEFINE f == [i \in 1 .. buf_max |-> IF i = buf_cnt + 1 THEN b ELSE buffers[i]]
  <2>3. Stored(b) = f
    BY <1>1, <2>1, <2>2
  <2>4. \A i \in 1 .. buf_max : f[i] \in Buf \cup {NoBuf}
    BY <1>1 DEF buf_max
  <2>5. f \in Seq(Buf \cup {NoBuf}) /\ Len(f) = buf_max
    BY <1>1, <2>4
  <2> QED
    BY <1>1, <1>3, <2>2, <2>3, <2>5
<1> QED
  BY <1>2, <1>3

-----------------------------------------------------------------------------
(* The arrays *)

\* No slot that was never written is given to the kernel, and the array that
\* doubles is not empty.
SlotsFilled ==
    /\ buf_max >= 1
    /\ \A k \in 1 .. buf_cnt : buffers[k] \in Buf
    /\ \A i \in DOMAIN work :
         IsVec(work[i]) => \A k \in 1 .. work[i].len : buffers[k] \in Buf

BoundsInv == TypeOK /\ InBounds /\ SlotsFilled

LEMMA BoundsInit == Init => BoundsInv
<1> SUFFICES ASSUME Init PROVE BoundsInv
  OBVIOUS
<1> USE LoopAssumption DEF Init, Buf
<1> DEFINE v == [type |-> "vec", len |-> BatchSz]
<1>1. v \in Entry \cup Vec /\ BatchSz \in Nat /\ BatchSz >= 1 /\ 1 .. BatchSz \subseteq Buf
  BY DEF Vec
<1>2. /\ work \in Seq(Entry \cup Vec)
      /\ Len(work) = 1 /\ DOMAIN work = {1} /\ work[1].len = BatchSz
  BY <1>1
<1>3. buffers \in Seq(Buf \cup {NoBuf}) /\ Len(buffers) = BatchSz
  BY <1>1
<1>4. TypeOK
  BY <1>1, <1>2, <1>3 DEF TypeOK
<1> QED
  BY <1>1, <1>2, <1>3, <1>4 DEF BoundsInv, InBounds, SlotsFilled, work_cnt, buf_max

\* expand_queue makes room for one more entry, whatever is appended.
LEMMA QueueGrows ==
    ASSUME BoundsInv, NEW x \in Entry \cup Vec,
           IsVec(x) => x.len <= buf_max /\ \A k \in 1 .. x.len : buffers[k] \in Buf
    PROVE  /\ Append(work, x) \in Seq(Entry \cup Vec)
           /\ Expanded \in Nat /\ Len(Append(work, x)) <= Expanded
           /\ \A i \in DOMAIN Append(work, x) :
                IsVec(Append(work, x)[i]) =>
                  /\ Append(work, x)[i].len <= buf_max
                  /\ \A k \in 1 .. Append(work, x)[i].len : buffers[k] \in Buf
<1>1. /\ work \in Seq(Entry \cup Vec) /\ work_max \in Nat /\ work_cnt <= work_max
      /\ \A i \in DOMAIN work : IsVec(work[i]) =>
           work[i].len <= buf_max /\ \A k \in 1 .. work[i].len : buffers[k] \in Buf
  BY DEF BoundsInv, TypeOK, InBounds, SlotsFilled
<1>2. /\ Append(work, x) \in Seq(Entry \cup Vec)
      /\ DOMAIN Append(work, x) = 1 .. Len(work) + 1 /\ Len(work) \in Nat
      /\ DOMAIN work = 1 .. Len(work) /\ Len(Append(work, x)) = Len(work) + 1
      /\ \A i \in 1 .. Len(work) : Append(work, x)[i] = work[i]
      /\ Append(work, x)[Len(work) + 1] = x
  BY <1>1, Appended
<1>3. Expanded \in Nat /\ Len(work) + 1 <= Expanded
  <2>1. EVTS \in Nat /\ EVTS >= 1
    BY LoopAssumption
  <2>2. Len(work) \in Nat /\ work_max \in Nat /\ Len(work) <= work_max
    BY <1>1, <1>2 DEF work_cnt
  <2>3. CASE Len(work) = work_max
    BY <2>1, <2>2, <2>3 DEF Expanded, work_cnt
  <2>4. CASE Len(work) # work_max
    BY <2>1, <2>2, <2>4 DEF Expanded, work_cnt
  <2> QED
    BY <2>3, <2>4
<1>4. ASSUME NEW i \in 1 .. Len(work) + 1, IsVec(Append(work, x)[i])
      PROVE  /\ Append(work, x)[i].len <= buf_max
             /\ \A k \in 1 .. Append(work, x)[i].len : buffers[k] \in Buf
  <2>1. CASE i = Len(work) + 1
    BY <1>2, <1>4, <2>1
  <2>2. CASE i \in DOMAIN work
    BY <1>1, <1>2, <1>4, <2>2
  <2> QED
    BY <1>2, <2>1, <2>2
<1> QED
  BY <1>2, <1>3, <1>4

\* What the queue and the pool give to the kernel.
LEMMA QueueContents ==
    ASSUME NEW w \in Seq(Entry \cup Vec),
           \A i \in DOMAIN w : IsVec(w[i]) => \A k \in 1 .. w[i].len : buffers[k] \in Buf
    PROVE  ReqsOf(w) \subseteq Entry /\ VecBufs(w) \subseteq Buf
<1>1. \A i \in DOMAIN w : w[i] \in Entry \cup Vec
  OBVIOUS
<1>2. ReqsOf(w) \subseteq Entry
  BY <1>1, EntryIsNotVec DEF ReqsOf
<1>3. VecBufs(w) \subseteq Buf
  BY DEF VecBufs
<1> QED
  BY <1>2, <1>3

LEMMA BoundsStep ==
    ASSUME BoundsInv, [Next]_vars
    PROVE  BoundsInv'
<1> USE DEF BoundsInv
<1>1. ASSUME NEW e \in Entry, Add(e) PROVE BoundsInv'
  <2>1. e \in Entry \cup Vec /\ ~IsVec(e)
    BY EntryIsNotVec
  <2>2. /\ work' \in Seq(Entry \cup Vec) /\ work_max' \in Nat /\ Len(work') <= work_max'
        /\ \A i \in DOMAIN work' : IsVec(work'[i]) =>
             work'[i].len <= buf_max /\ \A k \in 1 .. work'[i].len : buffers[k] \in Buf
        /\ UNCHANGED <<lpc, buffers, buf_cnt, recv, cur, held, fresh, kvars>>
    BY <1>1, <2>1, QueueGrows DEF Add
  <2>3. TypeOK'
    BY <2>2 DEF TypeOK, kvars
  <2>4. InBounds' /\ SlotsFilled'
    BY <2>2 DEF InBounds, SlotsFilled, work_cnt, buf_max
  <2> QED
    BY <2>3, <2>4
<1>2. ASSUME NEW b \in Buf, return_buffer(b) PROVE BoundsInv'
  <2>1. /\ buffers' \in Seq(Buf \cup {NoBuf})
        /\ Len(buffers') >= buf_max /\ Len(buffers') >= buf_cnt + 1 /\ Len(buffers') \in Nat
        /\ \A i \in 1 .. buf_max : i # buf_cnt + 1 => buffers'[i] = buffers[i]
        /\ buffers'[buf_cnt + 1] = b
        /\ buf_max \in Nat /\ buf_cnt \in Nat /\ buf_cnt <= buf_max
    BY <1>2, StoredBuffers DEF InBounds, SlotsFilled, return_buffer, TypeOK, buf_max
  <2>2. /\ buf_cnt' = buf_cnt + 1 /\ held' = held \ {b} /\ fresh' = fresh \ {b}
        /\ UNCHANGED <<lpc, work, work_max, recv, cur, kpool, armed, ready>>
    BY <1>2 DEF return_buffer, kvars
  <2>3. TypeOK'
    BY <2>1, <2>2 DEF TypeOK
  <2>4. \A i \in DOMAIN work : IsVec(work[i]) => work[i].len \in Nat /\ work[i].len <= buf_max
    <3>1. \A i \in DOMAIN work : work[i] \in Entry \cup Vec
      BY DEF TypeOK
    <3> QED
      BY <3>1, EntryIsNotVec DEF InBounds
  <2>5. buf_max' >= buf_max /\ buf_cnt' <= buf_max' /\ buf_max' \in Nat
    BY <2>1, <2>2 DEF buf_max
  <2>6. InBounds'
    BY <2>1, <2>2, <2>4, <2>5 DEF InBounds, work_cnt
  <2>7. \A k \in 1 .. buf_max : buffers[k] \in Buf => buffers'[k] \in Buf
    BY <2>1
  <2>8. \A k \in 1 .. buf_cnt' : buffers'[k] \in Buf
    BY <2>1, <2>2, <2>7 DEF SlotsFilled
  <2>9. ASSUME NEW i \in DOMAIN work, IsVec(work[i]), NEW k \in 1 .. work[i].len
        PROVE  buffers'[k] \in Buf
    BY <2>1, <2>4, <2>7, <2>9 DEF SlotsFilled
  <2>10. SlotsFilled'
    BY <2>1, <2>2, <2>5, <2>8, <2>9 DEF SlotsFilled
  <2> QED
    BY <2>3, <2>6, <2>10
<1>3. CASE CallbackReturns
  BY <1>3 DEF CallbackReturns, InCallback, TypeOK, InBounds, SlotsFilled, work_cnt, buf_max, kvars
<1>4. CASE Submit
  <2> DEFINE v == [type |-> "vec", len |-> buf_cnt]
  <2>1. v \in Vec /\ v \in Entry \cup Vec /\ v.len = buf_cnt /\ v.len <= buf_max
        /\ \A k \in 1 .. v.len : buffers[k] \in Buf
    BY DEF Vec, TypeOK, InBounds, SlotsFilled
  <2>2. /\ work' \in Seq(Entry \cup Vec) /\ work_max' \in Nat /\ Len(work') <= work_max'
        /\ \A i \in DOMAIN work' : IsVec(work'[i]) =>
             work'[i].len <= buf_max /\ \A k \in 1 .. work'[i].len : buffers[k] \in Buf
    <3>1. CASE buf_cnt > 0
      <4>1. work' = Append(work, v) /\ work_max' = Expanded
        BY <1>4, <3>1 DEF Submit
      <4> HIDE DEF v
      <4> QED
        BY <2>1, <4>1, QueueGrows
    <3>2. CASE ~(buf_cnt > 0)
      <4>1. work' = work /\ work_max' = work_max
        BY <1>4, <3>2 DEF Submit
      <4> QED
        BY <4>1 DEF TypeOK, InBounds, SlotsFilled, work_cnt
    <3> QED
      BY <3>1, <3>2
  <2>3. /\ UNCHANGED <<buffers, buf_cnt, recv, cur, held, fresh, ready>> /\ lpc' = "kernel"
        /\ kpool' = kpool \cup VecBufs(work') /\ armed' = armed \cup ReqsOf(work')
    BY <1>4 DEF Submit
  <2>4. ReqsOf(work') \subseteq Entry /\ VecBufs(work') \subseteq Buf
    BY <2>2, QueueContents
  <2>5. TypeOK'
    BY <2>2, <2>3, <2>4 DEF TypeOK
  <2>6. InBounds' /\ SlotsFilled'
    BY <2>2, <2>3 DEF InBounds, SlotsFilled, work_cnt, buf_max
  <2> QED
    BY <2>5, <2>6
<1>5. ASSUME NEW D \in SUBSET ready, SubmitReturns(D) PROVE BoundsInv'
  <2>1. /\ work' = <<>> /\ buf_cnt' = 0 /\ lpc' = "dispatch" /\ recv' = D /\ ready' = ready \ D
        /\ UNCHANGED <<work_max, buffers, cur, held, fresh, kpool, armed>>
    BY <1>5 DEF SubmitReturns, Returning
  <2>2. TypeOK'
    BY <2>1 DEF TypeOK
  <2>3. InBounds' /\ SlotsFilled'
    BY <2>1 DEF InBounds, SlotsFilled, work_cnt, buf_max, TypeOK
  <2> QED
    BY <2>2, <2>3
<1>6. ASSUME NEW e \in recv, Dispatch(e) PROVE BoundsInv'
  <2>1. /\ lpc' \in {"dispatch", "handler"} /\ cur' \in {cur, {e}}
        /\ held' \in {held, held \cup BufsOf({e})} /\ recv' = recv \ {e}
        /\ UNCHANGED <<work, work_max, buffers, buf_cnt, fresh, kpool, armed, ready>>
    BY <1>6 DEF Dispatch, Dispatching, kvars
  <2>2. BufsOf({e}) \subseteq Buf /\ e \in Event
    BY DEF BufsOf, Event, TypeOK
  <2>3. TypeOK'
    BY <2>1, <2>2 DEF TypeOK
  <2>4. InBounds' /\ SlotsFilled'
    BY <2>1 DEF InBounds, SlotsFilled, work_cnt, buf_max
  <2> QED
    BY <2>3, <2>4
<1>7. CASE BatchDone
  BY <1>7 DEF BatchDone, TypeOK, InBounds, SlotsFilled, work_cnt, buf_max, kvars
<1>8. ASSUME NEW e \in armed, NEW b \in Buf \cup {NoBuf}, Complete(e, b) PROVE BoundsInv'
  <2>1. [type |-> e.type, req |-> e.req, buf |-> b] \in Event
    BY EntryIsNotVec DEF Event, TypeOK
  <2>2. TypeOK'
    BY <1>8, <2>1 DEF Complete, TypeOK, uvars
  <2>3. InBounds' /\ SlotsFilled'
    BY <1>8 DEF Complete, uvars, InBounds, SlotsFilled, work_cnt, buf_max
  <2> QED
    BY <2>2, <2>3
<1>9. ASSUME NEW e \in armed, Closed(e) PROVE BoundsInv'
  BY <1>9 DEF Closed, uvars, TypeOK, InBounds, SlotsFilled, work_cnt, buf_max
<1>10. CASE UNCHANGED vars
  BY <1>10 DEF vars, TypeOK, InBounds, SlotsFilled, work_cnt, buf_max
<1> QED
  BY <1>1, <1>2, <1>3, <1>4, <1>5, <1>6, <1>7, <1>8, <1>9, <1>10 DEF Next, Worker

\* The variables have their types (upcall.c:150-223).
THEOREM LoopTypeCorrect == Spec => []TypeOK
<1>1. Spec => []BoundsInv
  BY BoundsInit, BoundsStep, PTL DEF Spec
<1>2. BoundsInv => TypeOK
  BY DEF BoundsInv
<1> QED
  BY <1>1, <1>2, PTL

\* work and buffers are never written past their end, and a UP_VEC never names
\* more buffers than there are: the growth in expand_queue and return_buffer is
\* enough for any batch size and queue step, return_buffer in setup_fn included.
THEOREM LoopInBounds == Spec => []InBounds
<1>1. Spec => []BoundsInv
  BY BoundsInit, BoundsStep, PTL DEF Spec
<1>2. BoundsInv => InBounds
  BY DEF BoundsInv
<1> QED
  BY <1>1, <1>2, PTL

-----------------------------------------------------------------------------
(* The requests *)

\* Submit gives the kernel the requests that were queued, and the buffers that
\* were queued or had come back.
LEMMA SubmitEffect ==
    ASSUME BoundsInv, Submit
    PROVE  /\ Unread = work /\ Unread' = <<>>
           /\ armed' = armed \cup ReqsOf(work)
           /\ kpool' = kpool \cup VecBufs(work) \cup { buffers[k] : k \in 1 .. buf_cnt }
<1> DEFINE v == [type |-> "vec", len |-> buf_cnt]
<1>1. work \in Seq(Entry \cup Vec) /\ buf_cnt \in Nat /\ v \in Vec
  BY DEF BoundsInv, TypeOK, Vec
<1>2. lpc = "submit" /\ lpc' = "kernel"
  BY DEF Submit
<1>3. CASE buf_cnt > 0
  <2>1. /\ armed' = armed \cup ReqsOf(Append(work, v))
        /\ kpool' = kpool \cup VecBufs(Append(work, v))
    BY <1>3 DEF Submit
  <2>2. /\ ReqsOf(Append(work, v)) = ReqsOf(work)
        /\ VecBufs(Append(work, v)) = VecBufs(work) \cup { buffers[k] : k \in 1 .. buf_cnt }
    BY <1>1, VecAdded
  <2> QED
    BY <1>2, <2>1, <2>2 DEF Unread
<1>4. CASE ~(buf_cnt > 0)
  <2>1. armed' = armed \cup ReqsOf(work) /\ kpool' = kpool \cup VecBufs(work)
    BY <1>4 DEF Submit
  <2>2. { buffers[k] : k \in 1 .. buf_cnt } = {}
    BY <1>1, <1>4
  <2> QED
    BY <1>2, <2>1, <2>2 DEF Unread
<1> QED
  BY <1>3, <1>4

LEMMA RequestOnceInit == Init => RequestOnce
BY DEF Init, RequestOnce, Unread, IsVec

LEMMA RequestOnceStep ==
    ASSUME BoundsInv, RequestOnce, [Next]_vars
    PROVE  RequestOnce'
<1>0. /\ work \in Seq(Entry \cup Vec) /\ armed \subseteq Entry
      /\ recv \subseteq Event /\ ready \subseteq Event
      /\ DOMAIN work = 1 .. Len(work) /\ Len(work) \in Nat
      /\ \A i \in DOMAIN work : work[i] \in Entry \cup Vec
  BY DEF BoundsInv, TypeOK
<1>1. ASSUME NEW e \in Entry, Add(e) PROVE RequestOnce'
  <2>1. /\ Unread = work /\ Unread' = Append(work, e)
        /\ UNCHANGED <<armed, ready, recv>>
    BY <1>1 DEF Add, InCallback, Unread, kvars
  <2>2. /\ \A i \in DOMAIN work : ~IsVec(work[i]) => work[i].req # e.req
        /\ \A x \in armed \cup ready \cup recv : x.req # e.req
    BY <1>1 DEF Add, Free
  <2>3. /\ DOMAIN Append(work, e) = 1 .. Len(work) + 1
        /\ \A i \in 1 .. Len(work) : Append(work, e)[i] = work[i]
        /\ Append(work, e)[Len(work) + 1] = e
    BY <1>0
  <2>4. \A i \in DOMAIN Unread' : Unread'[i] = e \/ (i \in DOMAIN work /\ Unread'[i] = work[i])
    BY <1>0, <2>1, <2>3
  <2>5. ASSUME NEW i \in DOMAIN Unread', NEW j \in DOMAIN Unread', i # j,
               ~IsVec(Unread'[i]), ~IsVec(Unread'[j])
        PROVE  Unread'[i].req # Unread'[j].req
    <3>1. CASE i = Len(work) + 1
      BY <1>0, <2>1, <2>2, <2>3, <2>5, <3>1
    <3>2. CASE j = Len(work) + 1
      BY <1>0, <2>1, <2>2, <2>3, <2>5, <3>2
    <3>3. CASE i # Len(work) + 1 /\ j # Len(work) + 1
      BY <1>0, <2>1, <2>3, <2>5, <3>3 DEF RequestOnce
    <3> QED
      BY <3>1, <3>2, <3>3
  <2>6. ASSUME NEW i \in DOMAIN Unread', NEW x \in armed \cup ready \cup recv, ~IsVec(Unread'[i])
        PROVE  Unread'[i].req # x.req
    BY <2>1, <2>2, <2>4, <2>6 DEF RequestOnce
  <2> QED
    BY <2>1, <2>5, <2>6 DEF RequestOnce
<1>2. ASSUME UNCHANGED <<work, armed, ready, recv>>, lpc # "kernel", lpc' # "kernel"
      PROVE  RequestOnce'
  BY <1>2 DEF RequestOnce, Unread
<1>3. ASSUME NEW b \in Buf, return_buffer(b) PROVE RequestOnce'
  BY <1>2, <1>3 DEF return_buffer, InCallback, kvars
<1>4. CASE CallbackReturns
  BY <1>2, <1>4 DEF CallbackReturns, InCallback, kvars
<1>5. CASE Submit
  <2> DEFINE R == ReqsOf(work)
  <2>1. /\ Unread = work /\ Unread' = <<>> /\ armed' = armed \cup R
        /\ UNCHANGED <<ready, recv>>
    BY <1>5, SubmitEffect DEF Submit
  <2>2. \A e \in R : \E i \in DOMAIN work : ~IsVec(work[i]) /\ work[i] = e
    BY DEF ReqsOf
  <2>3. \A e, f \in R : e.req = f.req => e = f
    BY <2>1, <2>2 DEF RequestOnce
  <2>4. \A e \in R, x \in armed \cup ready \cup recv : e.req # x.req
    BY <2>1, <2>2 DEF RequestOnce
  <2> HIDE DEF R
  <2>5. \A e \in R, x \in ready \cup recv : e # EntryOf(x) /\ e.req # EntryOf(x).req
    BY <2>4 DEF EntryOf
  <2>6. \A e, f \in armed' \cup { EntryOf(x) : x \in ready \cup recv } :
           e.req = f.req => e = f
    BY <2>1, <2>3, <2>4, <2>5 DEF RequestOnce
  <2>7. armed' \cap { EntryOf(x) : x \in ready \cup recv } = {}
    BY <2>1, <2>5 DEF RequestOnce
  <2> QED
    BY <2>1, <2>6, <2>7 DEF RequestOnce
<1>6. ASSUME NEW D \in SUBSET ready, SubmitReturns(D) PROVE RequestOnce'
  <2>1. Unread' = <<>> /\ armed' = armed /\ recv' = D /\ ready' = ready \ D
    BY <1>6 DEF SubmitReturns, Returning, Unread
  <2> QED
    BY <2>1 DEF RequestOnce
<1>7. ASSUME NEW e \in recv, Dispatch(e) PROVE RequestOnce'
  <2>1. Unread' = Unread /\ armed' = armed /\ ready' = ready /\ recv' = recv \ {e}
    BY <1>7 DEF Dispatch, Dispatching, Unread, kvars
  <2> QED
    BY <2>1 DEF RequestOnce
<1>8. CASE BatchDone
  BY <1>2, <1>8 DEF BatchDone, kvars
<1>9. ASSUME NEW e \in armed, NEW b \in Buf \cup {NoBuf}, Complete(e, b) PROVE RequestOnce'
  <2> DEFINE a == [type |-> e.type, req |-> e.req, buf |-> b]
  <2>1. /\ Unread' = Unread /\ armed' = armed \ {e} /\ ready' = ready \cup {a} /\ recv' = recv
    BY <1>9 DEF Complete, uvars, Unread
  <2>2. EntryOf(a) = e /\ a.req = e.req
    BY <1>0, EntryIsNotVec DEF EntryOf
  <2> HIDE DEF a
  <2>3. \A x \in ready \cup recv : EntryOf(x).req = x.req
    BY DEF EntryOf
  <2>4. \A x \in ready \cup recv : x.req # e.req
    BY <2>3 DEF RequestOnce
  <2>5. \A i \in DOMAIN Unread : ~IsVec(Unread[i]) => Unread[i].req # e.req
    BY DEF RequestOnce
  <2>6. a \notin recv /\ ready' \cap recv' = {}
    BY <2>1, <2>2, <2>4 DEF RequestOnce
  <2>7. { EntryOf(x) : x \in ready' \cup recv' } = { EntryOf(x) : x \in ready \cup recv } \cup {e}
    BY <2>1, <2>2
  <2>8. \A x, y \in ready' \cup recv' : x.req = y.req => x = y
    BY <2>1, <2>2, <2>4 DEF RequestOnce
  <2>9. armed' \cap { EntryOf(x) : x \in ready' \cup recv' } = {}
    BY <2>1, <2>7 DEF RequestOnce
  <2>10. \A x, y \in armed' \cup { EntryOf(z) : z \in ready' \cup recv' } :
            x.req = y.req => x = y
    BY <2>1, <2>7 DEF RequestOnce
  <2>11. \A i \in DOMAIN Unread, x \in armed' \cup ready' \cup recv' :
            ~IsVec(Unread[i]) => Unread[i].req # x.req
    BY <2>1, <2>2, <2>5 DEF RequestOnce
  <2> QED
    BY <2>1, <2>6, <2>8, <2>9, <2>10, <2>11 DEF RequestOnce
<1>10. ASSUME NEW e \in armed, Closed(e) PROVE RequestOnce'
  <2>1. Unread' = Unread /\ armed' = armed \ {e} /\ ready' = ready /\ recv' = recv
    BY <1>10 DEF Closed, uvars, Unread
  <2> QED
    BY <2>1 DEF RequestOnce
<1>11. CASE UNCHANGED vars
  BY <1>11 DEF vars, RequestOnce, Unread
<1> QED
  BY <1>1, <1>3, <1>4, <1>5, <1>6, <1>7, <1>8, <1>9, <1>10, <1>11 DEF Next, Worker

\* No request is done twice: it is queued once, or with the kernel, or answered,
\* as long as the callbacks do not repeat it (upcall.c:150-223).
THEOREM LoopRequestOnce == Spec => []RequestOnce
<1>1. BoundsInv /\ RequestOnce /\ [Next]_vars => BoundsInv' /\ RequestOnce'
  BY BoundsStep, RequestOnceStep
<1> QED
  BY BoundsInit, RequestOnceInit, <1>1, PTL DEF Spec

-----------------------------------------------------------------------------
(* The buffers *)

LEMMA LoopShapeInit == Init => LoopShape
<1> SUFFICES ASSUME Init PROVE LoopShape
  OBVIOUS
<1> QED
  BY DEF Init, LoopShape

LEMMA LoopShapeStep ==
    ASSUME ~SetupMayReturn, BoundsInv, LoopShape, [Next]_vars
    PROVE  LoopShape'
<1>1. ASSUME NEW e \in Entry, Add(e) PROVE LoopShape'
  <2>1. /\ lpc \in {"setup", "handler", "loopfn"}
        /\ UNCHANGED <<lpc, buf_cnt, recv, cur, ready>>
        /\ Unread = work /\ Unread' = Append(work, e)
    BY <1>1 DEF Add, InCallback, Unread, kvars
  <2>2. \A i \in DOMAIN Unread' : IsVec(Unread'[i]) => i \in DOMAIN work /\ Unread'[i] = work[i]
    BY <2>1, EntryIsNotVec DEF BoundsInv, TypeOK
  <2> QED
    BY <2>1, <2>2 DEF LoopShape
<1>2. ASSUME NEW b \in Buf, return_buffer(b) PROVE LoopShape'
  <2>1. /\ lpc \in {"handler", "loopfn"}
        /\ UNCHANGED <<lpc, work, recv, cur, ready>>
        /\ Unread = work /\ Unread' = work
    BY <1>2 DEF return_buffer, InCallback, Unread, kvars
  <2> QED
    BY <2>1 DEF LoopShape
<1>3. CASE CallbackReturns
  <2>1. /\ lpc \in {"setup", "handler", "loopfn"}
        /\ lpc' = IF lpc = "handler" THEN "dispatch" ELSE "submit"
        /\ cur' = {}
        /\ UNCHANGED <<work, buf_cnt, recv, ready>>
        /\ Unread = work /\ Unread' = work
    BY <1>3 DEF CallbackReturns, InCallback, Unread, kvars
  <2> QED
    BY <2>1 DEF LoopShape
<1>4. CASE Submit
  <2>1. /\ lpc = "submit" /\ lpc' = "kernel" /\ Unread' = <<>>
        /\ UNCHANGED <<buf_cnt, recv, cur, ready>>
    BY <1>4 DEF Submit, Unread
  <2> QED
    BY <2>1 DEF LoopShape
<1>5. ASSUME NEW D \in SUBSET ready, SubmitReturns(D) PROVE LoopShape'
  <2>1. /\ lpc = "kernel" /\ lpc' = "dispatch" /\ Unread' = <<>> /\ cur' = cur
        /\ recv' = D /\ ready' = ready \ D
    BY <1>5 DEF SubmitReturns, Returning, Unread
  <2> QED
    BY <2>1 DEF LoopShape
<1>6. ASSUME NEW e \in recv, Dispatch(e) PROVE LoopShape'
  <2>1. /\ lpc = "dispatch" /\ recv' = recv \ {e}
        /\ (lpc' = "dispatch" /\ cur' = cur) \/ lpc' = "handler"
        /\ Unread' = Unread /\ UNCHANGED <<buf_cnt, ready>>
    BY <1>6 DEF Dispatch, Dispatching, Unread, kvars
  <2> QED
    BY <2>1 DEF LoopShape
<1>7. CASE BatchDone
  <2>1. /\ lpc = "dispatch" /\ recv = {} /\ lpc' = "loopfn"
        /\ Unread' = Unread /\ UNCHANGED <<buf_cnt, recv, cur, ready>>
    BY <1>7 DEF BatchDone, Unread, kvars
  <2> QED
    BY <2>1 DEF LoopShape
<1>8. ASSUME NEW e \in armed, NEW b \in Buf \cup {NoBuf}, Complete(e, b) PROVE LoopShape'
  <2>1. /\ ready' = ready \cup {[type |-> e.type, req |-> e.req, buf |-> b]}
        /\ b # NoBuf => e.type = "read"
        /\ Unread' = Unread /\ UNCHANGED <<lpc, buf_cnt, recv, cur>>
    BY <1>8 DEF Complete, uvars, Unread
  <2> QED
    BY <2>1 DEF LoopShape
<1>9. ASSUME NEW e \in armed, Closed(e) PROVE LoopShape'
  BY <1>9 DEF Closed, uvars, LoopShape, Unread
<1>10. CASE UNCHANGED vars
  BY <1>10 DEF vars, LoopShape, Unread
<1> QED
  BY <1>1, <1>2, <1>3, <1>4, <1>5, <1>6, <1>7, <1>8, <1>9, <1>10 DEF Next, Worker

\* A buffer is in one of seven places; the other forms of BufferOnce follow.
LEMMA SevenPlaces ==
    ASSUME NEW A, NEW B, NEW C, NEW D, NEW E, NEW F, NEW G
    PROVE  LET P == <<A, B, C, D, E, F, G>>
           IN  /\ UNION { P[i] : i \in DOMAIN P } = A \cup B \cup C \cup D \cup E \cup F \cup G
               /\ (\A i, j \in DOMAIN P : i # j => P[i] \cap P[j] = {})
                    <=> /\ A \cap (B \cup C \cup D \cup E \cup F \cup G) = {}
                        /\ B \cap (C \cup D \cup E \cup F \cup G) = {}
                        /\ C \cap (D \cup E \cup F \cup G) = {}
                        /\ D \cap (E \cup F \cup G) = {}
                        /\ E \cap (F \cup G) = {}
                        /\ F \cap G = {}
<1> DEFINE P == <<A, B, C, D, E, F, G>>
<1>1. /\ DOMAIN P = 1 .. 7
      /\ P[1] = A /\ P[2] = B /\ P[3] = C /\ P[4] = D /\ P[5] = E /\ P[6] = F /\ P[7] = G
  OBVIOUS
<1> HIDE DEF P
<1>2. DOMAIN P = {1, 2, 3, 4, 5, 6, 7}
  BY <1>1
<1>3. UNION { P[i] : i \in DOMAIN P } = A \cup B \cup C \cup D \cup E \cup F \cup G
  BY <1>1, <1>2
<1>4. ASSUME /\ A \cap (B \cup C \cup D \cup E \cup F \cup G) = {}
             /\ B \cap (C \cup D \cup E \cup F \cup G) = {}
             /\ C \cap (D \cup E \cup F \cup G) = {}
             /\ D \cap (E \cup F \cup G) = {}
             /\ E \cap (F \cup G) = {}
             /\ F \cap G = {}
      PROVE  \A i, j \in DOMAIN P : i # j => P[i] \cap P[j] = {}
  BY <1>1, <1>2, <1>4
<1>5. ASSUME \A i, j \in DOMAIN P : i # j => P[i] \cap P[j] = {}
      PROVE  /\ A \cap (B \cup C \cup D \cup E \cup F \cup G) = {}
             /\ B \cap (C \cup D \cup E \cup F \cup G) = {}
             /\ C \cap (D \cup E \cup F \cup G) = {}
             /\ D \cap (E \cup F \cup G) = {}
             /\ E \cap (F \cup G) = {}
             /\ F \cap G = {}
  <2>1. \A i, j \in {1, 2, 3, 4, 5, 6, 7} : i # j => P[i] \cap P[j] = {}
    BY <1>2, <1>5
  <2>2. /\ P[1] \cap (P[2] \cup P[3] \cup P[4] \cup P[5] \cup P[6] \cup P[7]) = {}
        /\ P[2] \cap (P[3] \cup P[4] \cup P[5] \cup P[6] \cup P[7]) = {}
        /\ P[3] \cap (P[4] \cup P[5] \cup P[6] \cup P[7]) = {}
        /\ P[4] \cap (P[5] \cup P[6] \cup P[7]) = {}
        /\ P[5] \cap (P[6] \cup P[7]) = {}
        /\ P[6] \cap P[7] = {}
    BY <2>1
  <2> QED
    BY <1>1, <2>2
<1> QED
  BY <1>3, <1>4, <1>5 DEF P

Partition(A, B, C, D, E, F, G) ==
    /\ A \cup B \cup C \cup D \cup E \cup F \cup G = Buf
    /\ A \cap (B \cup C \cup D \cup E \cup F \cup G) = {}
    /\ B \cap (C \cup D \cup E \cup F \cup G) = {}
    /\ C \cap (D \cup E \cup F \cup G) = {}
    /\ D \cap (E \cup F \cup G) = {}
    /\ E \cap (F \cup G) = {}
    /\ F \cap G = {}

BuffersApart ==
    Partition(fresh, VecBufs(Unread), Returned, kpool, BufsOf(ready), BufsOf(recv), held)

\* No two of the returned buffers, and no two answers, are the same buffer.
SlotsApart   == \A i, j \in 1 .. buf_cnt : i # j => buffers[i] # buffers[j]
AnswersApart == \A x, y \in ready \cup recv : x # y /\ x.buf = y.buf => x.buf = NoBuf

LEMMA BufferOnceMeans == BufferOnce <=> BuffersApart /\ SlotsApart /\ AnswersApart
<1> DEFINE B == VecBufs(Unread)
           E == BufsOf(ready)
           F == BufsOf(recv)
<1>1. BufferPlaces = <<fresh, B, Returned, kpool, E, F, held>>
  BY DEF BufferPlaces
<1>2. BuffersApart <=> Partition(fresh, B, Returned, kpool, E, F, held)
  BY DEF BuffersApart
<1> HIDE DEF B, E, F
<1> QED
  BY <1>1, <1>2, SevenPlaces
     DEF BufferOnce, Partition, SlotsApart, AnswersApart

\* The buffers of a set of events.
LEMMA EventBuffers ==
    /\ \A S, T : BufsOf(S \cup T) = BufsOf(S) \cup BufsOf(T)
    /\ \A e : BufsOf({e}) = {e.buf} \ {NoBuf}
    /\ BufsOf({}) = {}
BY DEF BufsOf

LEMMA BufferOnceInit == Init => BufferOnce
<1> SUFFICES ASSUME Init PROVE BufferOnce
  OBVIOUS
<1>1. BatchSz \in Nat /\ BatchSz >= 1 /\ MaxBuf \in Nat /\ BatchSz <= MaxBuf
  BY LoopAssumption
<1>2. VecBufs(Unread) = 1 .. BatchSz
  <2> DEFINE v == [type |-> "vec", len |-> BatchSz]
  <2>1. Unread = <<v>> /\ IsVec(v) /\ v.len = BatchSz
    BY DEF Init, Unread, IsVec
  <2>2. { j \in DOMAIN Unread : IsVec(Unread[j]) } = {1}
    BY <2>1
  <2>3. VecBufs(Unread) = { buffers[k] : k \in 1 .. BatchSz }
    BY <2>1, <2>2 DEF VecBufs
  <2>4. \A k \in 1 .. BatchSz : buffers[k] = k
    BY DEF Init
  <2> QED
    BY <2>3, <2>4
<1>3. Returned = {} /\ BufsOf(ready) = {} /\ BufsOf(recv) = {}
  BY EventBuffers DEF Init, Returned
<1>4. /\ fresh = BatchSz + 1 .. MaxBuf /\ kpool = {} /\ held = {}
      /\ ready = {} /\ recv = {} /\ buf_cnt = 0
  BY DEF Init
<1>5. Buf = 1 .. BatchSz \cup BatchSz + 1 .. MaxBuf
      /\ (1 .. BatchSz) \cap (BatchSz + 1 .. MaxBuf) = {}
  BY <1>1 DEF Buf
<1>6. BuffersApart
  BY <1>2, <1>3, <1>4, <1>5 DEF BuffersApart, Partition
<1>7. SlotsApart /\ AnswersApart
  BY <1>4 DEF SlotsApart, AnswersApart
<1> QED
  BY <1>6, <1>7, BufferOnceMeans

LEMMA BufferOnceStep ==
    ASSUME ~SetupMayReturn, BoundsInv, LoopShape, BufferOnce, [Next]_vars
    PROVE  BufferOnce'
<1>1. BuffersApart /\ SlotsApart /\ AnswersApart
  BY BufferOnceMeans
<1>2. SUFFICES BuffersApart' /\ SlotsApart' /\ AnswersApart'
  BY BufferOnceMeans, PTL
<1>3. ASSUME NEW w, Unread' = w, buffers' = buffers PROVE VecBufs(Unread)' = VecBufs(w)
  BY <1>3 DEF VecBufs
<1>4. ASSUME UNCHANGED <<buffers, buf_cnt, fresh, ready, recv, held, kpool>>,
             VecBufs(Unread)' = VecBufs(Unread), lpc # "kernel", lpc' # "kernel"
      PROVE  BuffersApart' /\ SlotsApart' /\ AnswersApart'
  <2>1. Returned' = Returned /\ BufsOf(ready)' = BufsOf(ready) /\ BufsOf(recv)' = BufsOf(recv)
    BY <1>4 DEF Returned
  <2> QED
    BY <1>1, <1>4, <2>1 DEF BuffersApart, SlotsApart, AnswersApart
<1>5. ASSUME NEW e \in Entry, Add(e)
      PROVE  BuffersApart' /\ SlotsApart' /\ AnswersApart'
  <2>1. /\ lpc # "kernel" /\ lpc' # "kernel"
        /\ Unread = work /\ Unread' = Append(work, e)
        /\ UNCHANGED <<buffers, buf_cnt, fresh, ready, recv, held, kpool>>
    BY <1>5 DEF Add, InCallback, Unread, kvars
  <2>2. VecBufs(Unread)' = VecBufs(Unread)
    BY <1>3, <2>1, EntryAdded DEF BoundsInv, TypeOK
  <2> QED
    BY <1>4, <2>1, <2>2
<1>6. ASSUME NEW b \in Buf, return_buffer(b)
      PROVE  BuffersApart' /\ SlotsApart' /\ AnswersApart'
  <2>1. /\ lpc \in {"handler", "loopfn"} /\ lpc' = lpc
        /\ Unread = work /\ Unread' = work
        /\ buf_cnt' = buf_cnt + 1 /\ b \in held \cup fresh
        /\ held' = held \ {b} /\ fresh' = fresh \ {b}
        /\ UNCHANGED <<recv, ready, kpool>>
    BY <1>6 DEF return_buffer, InCallback, Unread, kvars
  <2>2. VecBufs(Unread) = {} /\ VecBufs(Unread)' = {}
    BY <2>1, NothingQueued DEF LoopShape, VecBufs
  <2>3. /\ \A i \in 1 .. buf_cnt : buffers'[i] = buffers[i]
        /\ buffers'[buf_cnt + 1] = b /\ buf_cnt \in Nat
    BY <1>6, StoredBuffers
       DEF return_buffer, BoundsInv, InBounds, SlotsFilled, TypeOK, buf_max
  <2>4. Returned = { buffers[i] : i \in 1 .. buf_cnt } /\ Returned' = Returned \cup {b}
    <3>1. Returned = { buffers[i] : i \in 1 .. buf_cnt }
      BY <2>1 DEF Returned
    <3>2. Returned' = { buffers'[i] : i \in 1 .. buf_cnt + 1 }
      BY <2>1 DEF Returned
    <3>3. 1 .. buf_cnt + 1 = 1 .. buf_cnt \cup {buf_cnt + 1}
      BY <2>3
    <3> QED
      BY <2>3, <3>1, <3>2, <3>3
  <2>5. b \notin Returned
    BY <1>1, <2>1 DEF BuffersApart, Partition
  <2>6. BuffersApart'
    <3>1. BufsOf(ready)' = BufsOf(ready) /\ BufsOf(recv)' = BufsOf(recv)
      BY <2>1
    <3> QED
      BY <1>1, <2>1, <2>2, <2>4, <3>1 DEF BuffersApart, Partition
  <2>7. ASSUME NEW i \in 1 .. buf_cnt + 1, NEW j \in 1 .. buf_cnt + 1, i # j
        PROVE  buffers'[i] # buffers'[j]
    <3>1. CASE i \in 1 .. buf_cnt /\ j \in 1 .. buf_cnt
      BY <1>1, <2>3, <2>7, <3>1 DEF SlotsApart
    <3>2. CASE i = buf_cnt + 1 /\ j \in 1 .. buf_cnt
      BY <2>3, <2>4, <2>5, <3>2
    <3>3. CASE j = buf_cnt + 1 /\ i \in 1 .. buf_cnt
      BY <2>3, <2>4, <2>5, <3>3
    <3> QED
      BY <2>3, <2>7, <3>1, <3>2, <3>3
  <2> QED
    BY <1>1, <2>1, <2>6, <2>7 DEF SlotsApart, AnswersApart
<1>7. CASE CallbackReturns
  <2>1. /\ lpc # "kernel" /\ lpc' # "kernel" /\ Unread = work /\ Unread' = work
        /\ UNCHANGED <<buffers, buf_cnt, fresh, ready, recv, held, kpool>>
    BY <1>7 DEF CallbackReturns, InCallback, Unread, kvars
  <2> QED
    BY <1>3, <1>4, <2>1
<1>8. CASE Submit
  <2>1. /\ Unread = work /\ Unread' = <<>>
        /\ kpool' = kpool \cup VecBufs(work) \cup { buffers[k] : k \in 1 .. buf_cnt }
        /\ lpc = "submit" /\ lpc' = "kernel"
        /\ UNCHANGED <<buffers, buf_cnt, fresh, ready, recv, held>>
    BY <1>8, SubmitEffect DEF Submit
  <2>2. VecBufs(Unread)' = {} /\ VecBufs(Unread) = VecBufs(work)
    BY <2>1, NothingQueued DEF VecBufs
  <2>3. Returned' = {} /\ Returned = { buffers[k] : k \in 1 .. buf_cnt }
    BY <2>1 DEF Returned
  <2>4. BufsOf(ready)' = BufsOf(ready) /\ BufsOf(recv)' = BufsOf(recv)
    BY <2>1
  <2>5. BuffersApart'
    BY <1>1, <2>1, <2>2, <2>3, <2>4 DEF BuffersApart, Partition
  <2> QED
    BY <1>1, <2>1, <2>5 DEF SlotsApart, AnswersApart
<1>9. ASSUME NEW D \in SUBSET ready, SubmitReturns(D)
      PROVE  BuffersApart' /\ SlotsApart' /\ AnswersApart'
  <2>1. /\ lpc = "kernel" /\ lpc' = "dispatch" /\ Unread = <<>> /\ Unread' = <<>>
        /\ buf_cnt' = 0 /\ recv = {} /\ recv' = D /\ ready' = ready \ D
        /\ UNCHANGED <<buffers, fresh, held, kpool>>
    BY <1>9 DEF SubmitReturns, Returning, Unread, LoopShape
  <2>2. VecBufs(Unread) = {} /\ VecBufs(Unread)' = {}
    BY <2>1, NothingQueued DEF VecBufs
  <2>3. Returned = {} /\ Returned' = {}
    BY <2>1 DEF Returned
  <2>4. ready = ready' \cup D
    BY <2>1
  <2>5. /\ BufsOf(ready) = BufsOf(ready') \cup BufsOf(D)
        /\ BufsOf(ready)' = BufsOf(ready')
        /\ BufsOf(recv) = {} /\ BufsOf(recv)' = BufsOf(D)
    BY <2>1, <2>4, EventBuffers DEF BufsOf
  <2>6. BufsOf(ready') \cap BufsOf(D) = {}
    BY <1>1, <2>1 DEF BufsOf, AnswersApart
  <2>7. BuffersApart'
    BY <1>1, <2>1, <2>2, <2>3, <2>5, <2>6 DEF BuffersApart, Partition
  <2>8. AnswersApart'
    BY <1>1, <2>1 DEF AnswersApart
  <2> QED
    BY <2>1, <2>7, <2>8 DEF SlotsApart
<1>10. ASSUME NEW e \in recv, Dispatch(e)
       PROVE  BuffersApart' /\ SlotsApart' /\ AnswersApart'
  <2>1. /\ lpc = "dispatch" /\ lpc' # "kernel" /\ recv' = recv \ {e}
        /\ UNCHANGED <<work, buffers, buf_cnt, fresh, ready, kpool>>
        /\ IF e.type = "close" THEN held' = held ELSE held' = held \cup BufsOf({e})
    BY <1>10 DEF Dispatch, Dispatching, kvars
  <2>2. VecBufs(Unread)' = VecBufs(Unread)
    BY <1>3, <2>1 DEF Unread
  <2>3. Returned' = Returned /\ BufsOf(ready)' = BufsOf(ready)
    BY <2>1 DEF Returned
  <2>4. recv = (recv \ {e}) \cup {e}
    OBVIOUS
  <2>5. /\ BufsOf(recv) = BufsOf(recv \ {e}) \cup BufsOf({e})
        /\ BufsOf(recv)' = BufsOf(recv \ {e})
    BY <2>1, <2>4, EventBuffers
  <2>6. BufsOf(recv \ {e}) \cap BufsOf({e}) = {}
    BY <1>1 DEF BufsOf, AnswersApart
  <2>7. e.type = "close" => BufsOf({e}) = {}
    BY DEF LoopShape, BufsOf
  <2>8. held' = held \cup BufsOf({e})
    BY <2>1, <2>7
  <2>9. BuffersApart'
    BY <1>1, <2>1, <2>2, <2>3, <2>5, <2>6, <2>8 DEF BuffersApart, Partition
  <2> QED
    BY <1>1, <2>1, <2>9 DEF SlotsApart, AnswersApart
<1>11. CASE BatchDone
  <2>1. /\ lpc # "kernel" /\ lpc' # "kernel" /\ Unread' = Unread
        /\ UNCHANGED <<buffers, buf_cnt, fresh, ready, recv, held, kpool>>
    BY <1>11 DEF BatchDone, Unread, kvars
  <2> QED
    BY <1>3, <1>4, <2>1
<1>12. ASSUME NEW e \in armed, NEW b \in Buf \cup {NoBuf}, Complete(e, b)
       PROVE  BuffersApart' /\ SlotsApart' /\ AnswersApart'
  <2> DEFINE a == [type |-> e.type, req |-> e.req, buf |-> b]
  <2>1. /\ ready' = ready \cup {a} /\ a.buf = b
        /\ b # NoBuf => b \in kpool
        /\ kpool' = kpool \ {b}
        /\ UNCHANGED <<lpc, work, buffers, buf_cnt, fresh, recv, held>>
    BY <1>12 DEF Complete, uvars
  <2> HIDE DEF a
  <2>2. VecBufs(Unread)' = VecBufs(Unread)
    BY <1>3, <2>1 DEF Unread
  <2>3. /\ Returned' = Returned /\ BufsOf(recv)' = BufsOf(recv)
        /\ BufsOf(ready)' = BufsOf(ready) \cup ({b} \ {NoBuf})
    <3>1. Returned' = Returned /\ BufsOf(recv)' = BufsOf(recv)
      BY <2>1 DEF Returned
    <3>2. BufsOf(ready \cup {a}) = BufsOf(ready) \cup BufsOf({a}) /\ BufsOf({a}) = {b} \ {NoBuf}
      BY <2>1, EventBuffers
    <3>3. BufsOf(ready)' = BufsOf(ready \cup {a})
      BY <2>1
    <3> QED
      BY <3>1, <3>2, <3>3
  <2>4. b # NoBuf => b \notin BufsOf(ready) \cup BufsOf(recv)
    BY <1>1, <2>1 DEF BuffersApart, Partition
  <2>5. \A x \in ready \cup recv : x.buf = b => b = NoBuf
    BY <2>4 DEF BufsOf
  <2>6. AnswersApart'
    BY <1>1, <2>1, <2>5 DEF AnswersApart
  <2>7. NoBuf \notin Buf
    BY LoopAssumption DEF NoBuf, Buf
  <2>8. kpool' = IF b = NoBuf THEN kpool ELSE kpool \ {b}
    BY <2>1, <2>7 DEF BoundsInv, TypeOK
  <2>9. BuffersApart'
    BY <1>1, <2>1, <2>2, <2>3, <2>8 DEF BuffersApart, Partition
  <2> QED
    BY <1>1, <2>1, <2>6, <2>9 DEF SlotsApart
<1>13. ASSUME NEW e \in armed, Closed(e)
       PROVE  BuffersApart' /\ SlotsApart' /\ AnswersApart'
  <2>1. UNCHANGED <<lpc, work, buffers, buf_cnt, fresh, ready, recv, held, kpool>>
    BY <1>13 DEF Closed, uvars
  <2> QED
    BY <1>1, <2>1 DEF BuffersApart, SlotsApart, AnswersApart, Unread, Returned, VecBufs
<1>14. CASE UNCHANGED vars
  BY <1>1, <1>14 DEF vars, BuffersApart, SlotsApart, AnswersApart, Unread, Returned, VecBufs
<1> QED
  BY <1>5, <1>6, <1>7, <1>8, <1>9, <1>10, <1>11, <1>12, <1>13, <1>14 DEF Next, Worker

LoopInv == BoundsInv /\ RequestOnce /\ LoopShape /\ BufferOnce

LEMMA LoopInvariant ==
    ASSUME ~SetupMayReturn
    PROVE  Spec => []LoopInv
<1>1. Init => LoopInv
  BY BoundsInit, RequestOnceInit, LoopShapeInit, BufferOnceInit DEF LoopInv
<1>2. LoopInv /\ [Next]_vars => LoopInv'
  <2> SUFFICES ASSUME LoopInv, [Next]_vars PROVE LoopInv'
    OBVIOUS
  <2>1. BoundsInv /\ RequestOnce /\ LoopShape /\ BufferOnce
    BY DEF LoopInv
  <2> QED
    BY <2>1, BoundsStep, RequestOnceStep, LoopShapeStep, BufferOnceStep DEF LoopInv
<1> QED
  BY <1>1, <1>2, PTL DEF Spec

\* A buffer is in exactly one place and none is lost, if setup_fn does not call
\* return_buffer: the pool moves to the kernel by one UP_VEC, a buffer comes
\* back with one answer, and the doubled array keeps it (upcall.c:159-177).
THEOREM LoopBufferOnce ==
    ASSUME ~SetupMayReturn
    PROVE  Spec => []BufferOnce
<1>1. LoopInv => BufferOnce
  BY DEF LoopInv
<1> QED
  BY <1>1, LoopInvariant, PTL

-----------------------------------------------------------------------------
(* The service *)

\* What the service sees of the loop.
Outstanding == ReqsOf(Unread) \cup armed \cup { EntryOf(e) : e \in ready \cup recv }
Answering   == { EntryOf(e) : e \in cur }
Pool        == VecBufs(Unread) \cup Returned \cup kpool \cup BufsOf(ready \cup recv)

LEMMA ServiceInitHolds == Init => Service!ServiceInit
<1> SUFFICES ASSUME Init PROVE Service!ServiceInit
  OBVIOUS
<1>1. /\ BoundsInv /\ ready = {} /\ recv = {} /\ armed = {} /\ cur = {} /\ held = {}
      /\ kpool = {} /\ Unread = << [type |-> "vec", len |-> BatchSz] >>
  BY BoundsInit DEF Init, Unread
<1>2. Outstanding = {} /\ Answering = {}
  BY <1>1 DEF Outstanding, Answering, ReqsOf, IsVec
<1>3. BuffersApart
  BY BufferOnceInit, BufferOnceMeans
<1>4. Pool \subseteq Buf
  BY <1>1, <1>3, EventBuffers DEF BuffersApart, Partition, Pool
<1> QED
  BY <1>1, <1>2, <1>4 DEF Service!ServiceInit, Outstanding, Answering, Pool

\* A step that the service does not see.
Unseen == Outstanding' = Outstanding /\ Answering' = Answering /\ Pool' = Pool /\ held' = held

LEMMA ServiceStep ==
    ASSUME ~SetupMayReturn, LoopInv, [Next]_vars
    PROVE  [Service!ServiceNext]_Service!svars
<1>1. BoundsInv /\ TypeOK /\ RequestOnce /\ LoopShape /\ BuffersApart /\ SlotsApart /\ AnswersApart
  BY BufferOnceMeans DEF LoopInv, BoundsInv
<1>2. ASSUME Unseen PROVE [Service!ServiceNext]_Service!svars
  BY <1>2 DEF Unseen, Service!svars, Outstanding, Answering, Pool
<1>3. ASSUME NEW w, Unread' = w, buffers' = buffers PROVE VecBufs(Unread)' = VecBufs(w)
  BY <1>3 DEF VecBufs
<1>4. ASSUME NEW e \in Entry, Add(e) PROVE Service!ServiceNext
  <2>1. /\ Unread = work /\ Unread' = Append(work, e) /\ lpc # "kernel" /\ lpc' = lpc
        /\ UNCHANGED <<armed, ready, recv, cur, held, kpool, buffers, buf_cnt>>
    BY <1>4 DEF Add, InCallback, Unread, kvars
  <2>2. ReqsOf(Unread') = ReqsOf(Unread) \cup {e} /\ VecBufs(Unread)' = VecBufs(Unread)
    BY <1>1, <1>3, <2>1, EntryAdded DEF TypeOK
  <2>3. Outstanding' = Outstanding \cup {e} /\ Answering' = Answering
    BY <2>1, <2>2 DEF Outstanding, Answering
  <2>4. Pool' = Pool
    BY <2>1, <2>2 DEF Pool, Returned
  <2>5. \A o \in Outstanding : o.req # e.req
    <3>1. \A o \in ReqsOf(work) : o.req # e.req
      BY <1>4 DEF Add, Free, ReqsOf
    <3>2. \A x \in armed \cup ready \cup recv : x.req # e.req
      BY <1>4 DEF Add, Free
    <3>3. \A x \in ready \cup recv : EntryOf(x).req = x.req
      BY DEF EntryOf
    <3> QED
      BY <2>1, <3>1, <3>2, <3>3 DEF Outstanding
  <2>6. Service!Request(e)
    BY <2>1, <2>3, <2>4, <2>5 DEF Service!Request, Outstanding, Answering, Pool
  <2>7. e \in Service!Entry
    BY DEF Entry, Service!Entry
  <2> QED
    BY <2>6, <2>7 DEF Service!ServiceNext
<1>5. ASSUME NEW b \in Buf, return_buffer(b) PROVE Service!ServiceNext
  <2>1. /\ lpc \in {"handler", "loopfn"} /\ lpc' = lpc
        /\ Unread = work /\ Unread' = work
        /\ buf_cnt' = buf_cnt + 1 /\ b \in held \cup fresh
        /\ held' = held \ {b}
        /\ UNCHANGED <<recv, ready, armed, kpool, cur>>
    BY <1>5 DEF return_buffer, InCallback, Unread, kvars
  <2>2. VecBufs(Unread) = {} /\ VecBufs(Unread)' = {}
    BY <1>1, <2>1, NothingQueued DEF LoopShape, VecBufs
  <2>3. /\ \A i \in 1 .. buf_cnt : buffers'[i] = buffers[i]
        /\ buffers'[buf_cnt + 1] = b /\ buf_cnt \in Nat
    BY <1>1, <1>5, StoredBuffers
       DEF return_buffer, BoundsInv, InBounds, SlotsFilled, TypeOK, buf_max
  <2>4. Returned' = Returned \cup {b}
    <3>1. Returned = { buffers[i] : i \in 1 .. buf_cnt }
          /\ Returned' = { buffers'[i] : i \in 1 .. buf_cnt + 1 }
      BY <2>1 DEF Returned
    <3>2. 1 .. buf_cnt + 1 = 1 .. buf_cnt \cup {buf_cnt + 1}
      BY <2>3
    <3> QED
      BY <2>3, <3>1, <3>2
  <2>5. b \notin Pool
    BY <1>1, <2>1, EventBuffers DEF BuffersApart, Partition, Pool
  <2>6. Outstanding' = Outstanding /\ Answering' = Answering /\ Pool' = Pool \cup {b}
    BY <2>1, <2>2, <2>4 DEF Outstanding, Answering, Pool
  <2>7. Service!Give(b)
    BY <2>1, <2>5, <2>6 DEF Service!Give, Outstanding, Answering, Pool
  <2> QED
    BY <2>7 DEF Service!ServiceNext
<1>6. CASE CallbackReturns
  <2>1. /\ lpc # "kernel" /\ lpc' # "kernel" /\ cur' = {}
        /\ Unread' = Unread
        /\ UNCHANGED <<recv, ready, armed, kpool, held, buffers, buf_cnt>>
    BY <1>6 DEF CallbackReturns, InCallback, Unread, kvars
  <2>2. Outstanding' = Outstanding /\ Answering' = {} /\ Pool' = Pool
    BY <1>3, <2>1 DEF Outstanding, Answering, Pool, Returned
  <2>3. CASE cur = {}
    BY <1>2, <2>1, <2>2, <2>3 DEF Unseen, Answering
  <2>4. CASE cur # {}
    <3>1. Answering # {}
      BY <2>4 DEF Answering
    <3>2. Service!Done
      BY <2>1, <2>2, <3>1 DEF Service!Done, Outstanding, Answering, Pool
    <3> QED
      BY <3>2 DEF Service!ServiceNext
  <2> QED
    BY <2>3, <2>4
<1>7. CASE Submit
  <2>1. /\ Unread = work /\ Unread' = <<>>
        /\ armed' = armed \cup ReqsOf(work)
        /\ kpool' = kpool \cup VecBufs(work) \cup { buffers[k] : k \in 1 .. buf_cnt }
        /\ lpc = "submit" /\ lpc' = "kernel"
        /\ UNCHANGED <<buffers, buf_cnt, cur, ready, recv, held>>
    BY <1>1, <1>7, SubmitEffect DEF Submit
  <2>2. VecBufs(Unread)' = {} /\ ReqsOf(Unread') = {}
    BY <2>1, NothingQueued DEF VecBufs
  <2>3. Returned' = {} /\ Returned = { buffers[k] : k \in 1 .. buf_cnt }
    BY <2>1 DEF Returned
  <2>4. Outstanding' = Outstanding /\ Answering' = Answering /\ Pool' = Pool
    BY <2>1, <2>2, <2>3 DEF Outstanding, Answering, Pool
  <2> QED
    BY <1>2, <2>1, <2>4 DEF Unseen
<1>8. ASSUME NEW D \in SUBSET ready, SubmitReturns(D) PROVE Unseen
  <2>1. /\ lpc = "kernel" /\ lpc' = "dispatch" /\ Unread = <<>> /\ Unread' = <<>>
        /\ buf_cnt' = 0 /\ recv = {} /\ recv' = D /\ ready' = ready \ D
        /\ UNCHANGED <<buffers, armed, cur, held, kpool>>
    BY <1>1, <1>8 DEF SubmitReturns, Returning, Unread, LoopShape
  <2>2. VecBufs(Unread) = {} /\ VecBufs(Unread)' = {}
    BY <2>1, NothingQueued DEF VecBufs
  <2>3. Returned = {} /\ Returned' = {}
    BY <2>1 DEF Returned
  <2>4. ready' \cup recv' = ready \cup recv
    BY <2>1
  <2> QED
    BY <2>1, <2>2, <2>3, <2>4 DEF Unseen, Outstanding, Answering, Pool
<1>9. ASSUME NEW e \in recv, Dispatch(e) PROVE Service!ServiceNext
  <2>1. /\ lpc = "dispatch" /\ lpc' # "kernel" /\ recv' = recv \ {e} /\ Unread' = Unread
        /\ UNCHANGED <<buffers, buf_cnt, armed, ready, kpool>>
        /\ IF e.type = "close" THEN held' = held /\ cur' = cur
                               ELSE held' = held \cup BufsOf({e}) /\ cur' = {e}
        /\ cur = {}
    BY <1>1, <1>9 DEF Dispatch, Dispatching, Unread, LoopShape, kvars
  <2>2. /\ EntryOf(e) \in Service!Entry /\ EntryOf(e) \in Outstanding
        /\ EntryOf(e).req = e.req /\ EntryOf(e).type = e.type
    BY <1>1 DEF TypeOK, Event, EntryOf, Service!Entry, Outstanding
  <2>3. Outstanding' = Outstanding \ {EntryOf(e)}
    <3>1. EntryOf(e) \notin ReqsOf(Unread)
      BY <1>1, <2>2 DEF RequestOnce, ReqsOf
    <3>2. EntryOf(e) \notin armed
      BY <1>1 DEF RequestOnce
    <3>3. \A x \in ready \cup (recv \ {e}) : EntryOf(x) # EntryOf(e)
      <4>1. \A x \in ready \cup (recv \ {e}) : x.req # e.req
        BY <1>1 DEF RequestOnce
      <4>2. \A x \in ready \cup recv : EntryOf(x).req = x.req
        BY DEF EntryOf
      <4> QED
        BY <4>1, <4>2
    <3> QED
      BY <2>1, <3>1, <3>2, <3>3 DEF Outstanding
  <2>4. VecBufs(Unread)' = VecBufs(Unread) /\ Returned' = Returned
    BY <1>3, <2>1 DEF Returned
  <2>5. recv = recv' \cup {e}
    BY <2>1
  <2>6. /\ BufsOf(ready \cup recv) = BufsOf(ready') \cup BufsOf(recv') \cup BufsOf({e})
        /\ BufsOf(ready \cup recv)' = BufsOf(ready') \cup BufsOf(recv')
    <3>1. BufsOf(recv) = BufsOf(recv') \cup BufsOf({e})
      BY <2>5, EventBuffers
    <3>2. BufsOf(ready \cup recv) = BufsOf(ready) \cup BufsOf(recv)
      BY EventBuffers
    <3>3. BufsOf(ready \cup recv)' = BufsOf(ready' \cup recv')
      OBVIOUS
    <3>4. BufsOf(ready' \cup recv') = BufsOf(ready') \cup BufsOf(recv')
      BY EventBuffers
    <3> QED
      BY <2>1, <3>1, <3>2, <3>3, <3>4
  <2>7. (BufsOf(ready) \cup BufsOf(recv')) \cap BufsOf({e}) = {}
    <3>1. \A x \in ready \cup (recv \ {e}) : x # e
      BY <1>1 DEF RequestOnce
    <3> QED
      BY <1>1, <2>1, <3>1 DEF AnswersApart, BufsOf
  <2>8. BufsOf({e}) \subseteq BufsOf(recv) /\ BufsOf({e}) = {e.buf} \ {NoBuf}
    BY <2>5, EventBuffers
  <2>9. Pool' = Pool \ BufsOf({e}) /\ BufsOf({e}) \subseteq Pool
    <3>1. (VecBufs(Unread) \cup Returned \cup kpool) \cap BufsOf({e}) = {}
      BY <1>1, <2>8 DEF BuffersApart, Partition
    <3> QED
      BY <2>1, <2>4, <2>6, <2>7, <3>1 DEF Pool
  <2>10. CASE e.type = "close"
    <3>1. BufsOf({e}) = {}
      BY <1>1, <2>8, <2>10 DEF LoopShape
    <3>2. Pool' = Pool /\ Answering' = Answering /\ held' = held
      BY <2>1, <2>9, <2>10, <3>1 DEF Answering
    <3>3. Service!Retire(EntryOf(e))
      BY <2>2, <2>3, <2>10, <3>2 DEF Service!Retire, Outstanding, Answering, Pool
    <3> QED
      BY <2>2, <3>3 DEF Service!ServiceNext
  <2>11. CASE e.type # "close"
    <3>1. Answering = {} /\ Answering' = {EntryOf(e)}
      BY <2>1, <2>11 DEF Answering
    <3>2. NoBuf \notin Pool
      <4>1. NoBuf \notin Buf
        BY LoopAssumption DEF NoBuf, Buf
      <4> QED
        BY <1>1, <4>1, EventBuffers DEF BuffersApart, Partition, Pool
    <3>3. /\ held' = held \cup ({e.buf} \ {NoBuf}) /\ Pool' = Pool \ {e.buf}
          /\ e.buf # NoBuf => e.type = "read" /\ e.buf \in Pool
      BY <1>1, <2>1, <2>8, <2>9, <2>11, <3>2 DEF LoopShape
    <3>4. Service!Answer(EntryOf(e), e.buf)
      BY <2>2, <2>3, <2>11, <3>1, <3>3 DEF Service!Answer, Outstanding, Answering, Pool
    <3>5. e.buf \in Buf \cup {NoBuf}
      BY <1>1 DEF TypeOK, Event
    <3> QED
      BY <2>2, <3>4, <3>5 DEF Service!ServiceNext
  <2> QED
    BY <2>10, <2>11
<1>10. CASE BatchDone
  <2>1. /\ lpc # "kernel" /\ lpc' # "kernel" /\ Unread' = Unread
        /\ UNCHANGED <<buffers, buf_cnt, armed, ready, recv, cur, held, kpool>>
    BY <1>10 DEF BatchDone, Unread, kvars
  <2>2. Unseen
    BY <1>3, <2>1 DEF Unseen, Outstanding, Answering, Pool, Returned
  <2> QED
    BY <1>2, <2>2
<1>11. ASSUME NEW e \in armed, NEW b \in Buf \cup {NoBuf}, Complete(e, b) PROVE Unseen
  <2> DEFINE a == [type |-> e.type, req |-> e.req, buf |-> b]
  <2>1. /\ ready' = ready \cup {a} /\ a.buf = b
        /\ b # NoBuf => b \in kpool
        /\ kpool' = kpool \ {b} /\ armed' = armed \ {e}
        /\ Unread' = Unread
        /\ UNCHANGED <<lpc, buffers, buf_cnt, recv, cur, held>>
    BY <1>11 DEF Complete, uvars, Unread
  <2>2. EntryOf(a) = e
    BY <1>1, EntryIsNotVec DEF TypeOK, EntryOf
  <2> HIDE DEF a
  <2>3. { EntryOf(x) : x \in ready' \cup recv' } = { EntryOf(x) : x \in ready \cup recv } \cup {e}
    BY <2>1, <2>2
  <2>4. Outstanding' = Outstanding /\ Answering' = Answering
    BY <2>1, <2>3 DEF Outstanding, Answering
  <2>5. /\ BufsOf(ready \cup recv)' = BufsOf((ready \cup {a}) \cup recv)
        /\ BufsOf((ready \cup {a}) \cup recv) = BufsOf(ready \cup recv) \cup BufsOf({a})
        /\ BufsOf({a}) = {b} \ {NoBuf}
    BY <2>1, EventBuffers
  <2>6. VecBufs(Unread)' = VecBufs(Unread) /\ Returned' = Returned
    BY <1>3, <2>1 DEF Returned
  <2>7. NoBuf \notin kpool
    BY <1>1, LoopAssumption DEF TypeOK, NoBuf, Buf
  <2>8. Pool' = Pool
    BY <2>1, <2>5, <2>6, <2>7 DEF Pool
  <2> QED
    BY <2>1, <2>4, <2>8 DEF Unseen
<1>12. ASSUME NEW e \in armed, Closed(e) PROVE Service!ServiceNext
  <2>1. /\ e.type = "close" /\ armed' = armed \ {e} /\ Unread' = Unread
        /\ UNCHANGED <<lpc, buffers, buf_cnt, recv, ready, cur, held, kpool>>
    BY <1>12 DEF Closed, uvars, Unread
  <2>2. e \in Service!Entry /\ e \in Outstanding
    BY <1>1 DEF TypeOK, Entry, Service!Entry, Outstanding
  <2>3. e \notin ReqsOf(Unread) /\ e \notin { EntryOf(x) : x \in ready \cup recv }
    BY <1>1 DEF RequestOnce, ReqsOf
  <2>4. Outstanding' = Outstanding \ {e} /\ Answering' = Answering
    BY <2>1, <2>3 DEF Outstanding, Answering
  <2>5. Pool' = Pool
    BY <1>3, <2>1 DEF Pool, Returned
  <2>6. Service!Retire(e)
    BY <2>1, <2>2, <2>4, <2>5 DEF Service!Retire, Outstanding, Answering, Pool
  <2> QED
    BY <2>2, <2>6 DEF Service!ServiceNext
<1>13. CASE UNCHANGED vars
  <2>1. Unseen
    BY <1>13 DEF vars, Unseen, Outstanding, Answering, Pool, Unread, Returned, VecBufs
  <2> QED
    BY <1>2, <2>1
<1> QED
  BY <1>2, <1>4, <1>5, <1>6, <1>7, <1>8, <1>9, <1>10, <1>11, <1>12, <1>13 DEF Next, Worker

\* The loop of one worker implements the service of UpcallService, if setup_fn
\* does not call return_buffer: a request is answered at most once and not
\* forgotten, and a buffer passes to the callbacks only with the answer of a
\* read (run_event_loop, upcall.c:150-223).
THEOREM LoopImplementsService ==
    ASSUME ~SetupMayReturn
    PROVE  Spec => ImplementsService
<1>1. LoopInv /\ [Next]_vars => [Service!ServiceNext]_Service!svars
  BY ServiceStep
<1>2. Spec => [][Service!ServiceNext]_Service!svars
  BY <1>1, LoopInvariant, PTL DEF Spec
<1> QED
  BY <1>2, ServiceInitHolds, PTL DEF Spec, ImplementsService, Service!ServiceSpec
=============================================================================
