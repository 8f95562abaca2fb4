----------------------------- MODULE UpcallLoop ------------------------------
(***************************************************************************)
(* The event loop of one libupcall worker, its work queue and its buffer   *)
(* pool.  All of it is __thread: workers share nothing but the kernel.     *)
(*                                                                         *)
(* The kernel's side of upcall_create/upcall_submit is external.  It is    *)
(* taken to accept every UP_VEC, to answer each request at most once (a    *)
(* close perhaps never), and to put a buffer of the pool only into the     *)
(* answer of a read.                                                       *)
(***************************************************************************)
EXTENDS Integers, Sequences, FiniteSets

CONSTANTS Req,              \* requests the callbacks have in flight at a time
          Kind,             \* the kinds each of them may be made as
          BatchSz,          \* batch_sz of upcall_init
          EVTS,             \* step by which the work queue grows
          MaxBuf,           \* BOUND: buffers that exist, the pool's included
          SetupMayReturn    \* TRUE: setup_fn may call return_buffer too

Type == {"read", "write", "accept", "close"}

ASSUME LoopAssumption ==
    /\ Kind \in [Req -> SUBSET Type]
    /\ BatchSz \in Nat \ {0} /\ EVTS \in Nat \ {0}
    /\ MaxBuf \in Nat /\ BatchSz <= MaxBuf
    /\ SetupMayReturn \in BOOLEAN

Buf     == 1 .. MaxBuf
NoBuf   == 0
Entry   == { e \in [type : Type, req : Req] : e.type \in Kind[e.req] } \* up_event, queued
Event   == [type : Type, req : Req, buf : Buf \cup {NoBuf}]  \* up_event, answered
Vec     == [type : {"vec"}, len : Nat]                       \* UP_VEC of buffers[]

VARIABLES
    lpc,        \* where the worker is
    work,       \* work[0 .. work_cnt-1]
    work_max,   \* slots allocated to work
    buffers,    \* buffers[0 .. buf_max-1]
    buf_cnt,    \* entries of buffers to give to the kernel
    recv,       \* events of receive[] not dispatched yet
    cur,        \* {e} while work_fn runs for the event e, else {}
    held,       \* buffers the callbacks own
    fresh,      \* buffers not malloc'd yet
    kpool,      \* kernel: buffers it may fill
    armed,      \* kernel: requests it works on
    ready       \* kernel: answers it has not delivered

uvars == <<lpc, work, work_max, buffers, buf_cnt, recv, cur, held, fresh>>
kvars == <<kpool, armed, ready>>
vars  == <<lpc, work, work_max, buffers, buf_cnt, recv, cur, held, fresh,
           kpool, armed, ready>>

work_cnt == Len(work)
buf_max  == Len(buffers)

EntryOf(e)     == [type |-> e.type, req |-> e.req]
IsVec(w)       == w.type = "vec"
ReqsOf(w)      == { w[i] : i \in { j \in DOMAIN w : ~IsVec(w[j]) } }
BufsOf(events) == { e.buf : e \in events } \ {NoBuf}
VecBufs(w)     == { buffers[k] : k \in UNION { 1 .. w[i].len :
                                      i \in { j \in DOMAIN w : IsVec(w[j]) } } }

\* upcall_worker_setup: the pool is handed over by the first UP_VEC, so
\* buf_cnt is 0; the worker then runs setup_fn.
Init ==
    /\ lpc = "setup"
    /\ work = << [type |-> "vec", len |-> BatchSz] >>
    /\ work_max = BatchSz
    /\ buffers = [i \in 1 .. BatchSz |-> i]
    /\ buf_cnt = 0
    /\ recv = {} /\ cur = {}
    /\ held = {} /\ fresh = BatchSz + 1 .. MaxBuf
    /\ kpool = {} /\ armed = {} /\ ready = {}

-----------------------------------------------------------------------------
(* The calls that setup_fn, work_fn and loop_fn make *)

InCallback == lpc \in {"setup", "handler", "loopfn"}

\* The callbacks' discipline: a request is not repeated while it is in flight.
Free(r) == /\ \A i \in DOMAIN work : ~IsVec(work[i]) => work[i].req # r
           /\ \A e \in armed \cup ready \cup recv : e.req # r

\* if (work_cnt == work_max) expand_queue(); and a variant that tests too late.
Expanded_Late == IF work_cnt > work_max THEN work_max + EVTS ELSE work_max
Expanded == IF work_cnt = work_max THEN work_max + EVTS ELSE work_max

\* add_read, add_write, add_accept and add_close
Add(e) ==
    /\ InCallback
    /\ Free(e.req)
    /\ work' = Append(work, e)
    /\ work_max' = Expanded
    /\ UNCHANGED <<lpc, buffers, buf_cnt, recv, cur, held, fresh, kvars>>

\* buffers after return_buffer(b): it doubles when it is full.
Stored(b) ==
    IF buf_cnt = buf_max
    THEN [i \in 1 .. 2 * buf_max |->
            IF i <= buf_cnt THEN buffers[i] ELSE IF i = buf_cnt + 1 THEN b ELSE NoBuf]
    ELSE [buffers EXCEPT ![buf_cnt + 1] = b]

return_buffer(b) ==
    /\ InCallback
    /\ lpc = "setup" => SetupMayReturn
    /\ b \in held \cup fresh
    /\ buffers' = Stored(b)
    /\ buf_cnt' = buf_cnt + 1
    /\ held' = held \ {b} /\ fresh' = fresh \ {b}
    /\ UNCHANGED <<lpc, work, work_max, recv, cur, kvars>>

\* setup_fn returns and the worker passes the barriers of UpcallStart, a
\* work_fn returns, or the loop_fn between two batches does.
CallbackReturns ==
    /\ InCallback
    /\ lpc' = IF lpc = "handler" THEN "dispatch" ELSE "submit"
    /\ cur' = {}
    /\ UNCHANGED <<work, work_max, buffers, buf_cnt, recv, held, fresh, kvars>>

-----------------------------------------------------------------------------
(* run_event_loop *)

\* The head of the loop up to the entry of upcall_submit: buffers that came
\* back are queued as one UP_VEC, and the kernel reads the queue.
Submit ==
    LET batch == IF buf_cnt > 0
                 THEN Append(work, [type |-> "vec", len |-> buf_cnt]) ELSE work
    IN /\ lpc = "submit"
       /\ work' = batch
       /\ work_max' = IF buf_cnt > 0 THEN Expanded ELSE work_max
       /\ kpool' = kpool \cup VecBufs(batch)
       /\ armed' = armed \cup ReqsOf(batch)
       /\ lpc' = "kernel"
       /\ UNCHANGED <<buffers, buf_cnt, recv, cur, held, fresh, ready>>

\* upcall_submit returns the events D, at most recv_cnt of them; the entries w
\* of the work queue and b buffers of the pool stay to be submitted again.
Returning(D, w, b) ==
    /\ lpc = "kernel"
    /\ D \subseteq ready /\ Cardinality(D) <= BatchSz
    /\ recv' = D /\ ready' = ready \ D
    /\ work' = w /\ buf_cnt' = b
    /\ lpc' = "dispatch"
    /\ UNCHANGED <<work_max, buffers, cur, held, fresh, kpool, armed>>

\* buf_cnt and work_cnt are reset before the first work_fn runs.  The variants
\* forget one of them.
SubmitReturns_KeepWork(D) == Returning(D, work, 0)
SubmitReturns_KeepBufs(D) == Returning(D, <<>>, buf_cnt)
SubmitReturns(D)          == Returning(D, <<>>, 0)

\* The event e of receive[] is taken and those of rest are left; work_fn runs
\* if there is one.
Dispatching(e, rest) ==
    /\ lpc = "dispatch"
    /\ e \in recv
    /\ recv' = rest
    /\ IF e.type = "close"
       THEN UNCHANGED <<lpc, cur, held>>
       ELSE lpc' = "handler" /\ cur' = {e} /\ held' = held \cup BufsOf({e})
    /\ UNCHANGED <<work, work_max, buffers, buf_cnt, fresh, kvars>>

\* The loop goes on after an event without work_fn; the variant breaks there,
\* and the memset wipes the rest of the batch.
Dispatch_BreakAtNull(e) == Dispatching(e, IF e.type = "close" THEN {} ELSE recv \ {e})
Dispatch(e)             == Dispatching(e, recv \ {e})

\* The batch is done: receive is cleared, loop_fn runs, if there is one, and
\* the worker goes round its for (;;).
BatchDone ==
    /\ lpc = "dispatch"
    /\ recv = {}
    /\ lpc' = "loopfn"
    /\ UNCHANGED <<work, work_max, buffers, buf_cnt, recv, cur, held, fresh, kvars>>

-----------------------------------------------------------------------------
(* The kernel *)

\* A request is answered; a read that succeeded carries a buffer.
Complete(e, b) ==
    /\ e \in armed
    /\ b # NoBuf => e.type = "read" /\ b \in kpool
    /\ armed' = armed \ {e}
    /\ ready' = ready \cup {[type |-> e.type, req |-> e.req, buf |-> b]}
    /\ kpool' = kpool \ {b}
    /\ UNCHANGED uvars

\* A close that succeeded need not be reported.
Closed(e) ==
    /\ e \in armed
    /\ e.type = "close"
    /\ armed' = armed \ {e}
    /\ UNCHANGED <<uvars, kpool, ready>>

Worker ==
    \/ Submit \/ BatchDone \/ CallbackReturns
    \/ \E D \in SUBSET ready : SubmitReturns(D)
    \/ \E e \in recv : Dispatch(e)

Next ==
    \/ Worker
    \/ \E e \in Entry : Add(e)
    \/ \E b \in Buf : return_buffer(b)
    \/ \E e \in armed, b \in Buf \cup {NoBuf} : Complete(e, b)
    \/ \E e \in armed : Closed(e)

Spec == Init /\ [][Next]_vars

\* The worker is scheduled and its callbacks return; upcall_submit returns, and
\* does not pass over an answer for ever.
Delivers(r) == \E D \in SUBSET ready : (\E e \in D : e.req = r) /\ SubmitReturns(D)
FairSpec == Spec /\ WF_vars(Worker) /\ \A r \in Req : SF_vars(Delivers(r))

-----------------------------------------------------------------------------
(* Properties *)

TypeOK ==
    /\ lpc \in {"setup", "handler", "loopfn", "submit", "kernel", "dispatch"}
    /\ work \in Seq(Entry \cup Vec)
    /\ work_max \in Nat
    /\ buffers \in Seq(Buf \cup {NoBuf})
    /\ buf_cnt \in Nat
    /\ recv \subseteq Event /\ ready \subseteq Event
    /\ cur \subseteq Event
    /\ armed \subseteq Entry
    /\ held \subseteq Buf /\ fresh \subseteq Buf /\ kpool \subseteq Buf

\* expand_queue and the doubling in return_buffer keep every index in its array.
InBounds ==
    /\ work_cnt <= work_max
    /\ buf_cnt <= buf_max
    /\ \A i \in DOMAIN work : IsVec(work[i]) => work[i].len <= buf_max

\* The entries the kernel has not read yet.
Unread == IF lpc = "kernel" THEN <<>> ELSE work

\* A request is in one place: queued once, armed, answered, or in receive[].
\* (Queued twice, or still queued when the kernel has it, it is done twice.)
RequestOnce ==
    /\ \A i, j \in DOMAIN Unread :
         i # j /\ ~IsVec(Unread[i]) /\ ~IsVec(Unread[j])
           => Unread[i].req # Unread[j].req
    /\ \A i \in DOMAIN Unread, e \in armed \cup ready \cup recv :
         ~IsVec(Unread[i]) => Unread[i].req # e.req
    /\ \A e, f \in armed \cup { EntryOf(x) : x \in ready \cup recv } :
         e.req = f.req => e = f
    /\ armed \cap { EntryOf(x) : x \in ready \cup recv } = {}
    /\ \A x, y \in ready \cup recv : x.req = y.req => x = y
    /\ ready \cap recv = {}

\* The buffers that came back and are not handed to the kernel yet.
Returned == IF lpc = "kernel" THEN {} ELSE { buffers[i] : i \in 1 .. buf_cnt }

\* A buffer is in one place: not malloc'd, queued by one UP_VEC, returned and
\* not queued, the kernel's, in one undelivered or undispatched event, or the
\* callbacks'; and none of them is ever lost (upcall.c:159-162).
BufferPlaces == << fresh, VecBufs(Unread), Returned, kpool,
                   BufsOf(ready), BufsOf(recv), held >>
BufferOnce ==
    /\ UNION { BufferPlaces[i] : i \in DOMAIN BufferPlaces } = Buf
    /\ \A i, j \in DOMAIN BufferPlaces :
         i # j => BufferPlaces[i] \cap BufferPlaces[j] = {}
    /\ \A i, j \in 1 .. buf_cnt : i # j => buffers[i] # buffers[j]
    /\ \A x, y \in ready \cup recv : x # y /\ x.buf = y.buf => x.buf = NoBuf

\* An answer to a request with a work_fn is what that work_fn runs with in the
\* end, however many events are before it in the batch, events without a work_fn
\* among them (upcall.c:284-291).
AnswerIsHandled == \A r \in Req :
    (\E e \in ready : e.req = r /\ e.type # "close") ~> (\E e \in cur : e.req = r)

\* Each worker's loop implements the service of requests and buffers.
Service == INSTANCE UpcallService WITH
    outstanding <- ReqsOf(Unread) \cup armed \cup { EntryOf(e) : e \in ready \cup recv },
    answering   <- { EntryOf(e) : e \in cur },
    pool        <- VecBufs(Unread) \cup Returned \cup kpool \cup BufsOf(ready \cup recv),
    owned       <- held

ImplementsService == Service!ServiceSpec

=============================================================================
