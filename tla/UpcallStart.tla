----------------------------- MODULE UpcallStart -----------------------------
(***************************************************************************)
(* The start-up protocol of libupcall: upcall_init spawns one thread per   *)
(* online CPU and waits until each of them has run its setup_fn;           *)
(* upcall_workers_go then releases them into the event loop.               *)
(*                                                                         *)
(* Every critical section of g_init_lock touches only what that mutex      *)
(* protects and waits only in pthread_cond_wait, so each one is a single   *)
(* step here.  pthread_cond_wait may return without a signal.              *)
(***************************************************************************)
EXTENDS Integers, FiniteSets

CONSTANTS N,           \* get_nprocs(): the number of workers
          MaxInits     \* BOUND: calls of upcall_init the caller makes; it calls
                       \* again only after a call that failed

ASSUME StartAssumption == N \in Nat \ {0} /\ MaxInits \in Nat \ {0}

Id     == 0 .. N - 1
Thread == (1 .. MaxInits) \X Id      \* worker i spawned by the a-th call

NoSlots == 0                         \* g_batch_stats = NULL

VARIABLES
    attempt,        \* calls of upcall_init so far
    mpc,            \* where the main thread is
    spawned,        \* i of the creation loop
    g_init_count,
    g_go,
    g_batch_stats,  \* NoSlots, or the attempt that allocated the slots
    wpc,            \* where each worker is
    slot            \* my_batch_slot of each worker: the array it points into

vars == <<attempt, mpc, spawned, g_init_count, g_go, g_batch_stats, wpc, slot>>

Current == { t \in Thread : t[1] = attempt }

\* Workers that have left setup_fn and counted themselves in.
Arrived == { t \in Thread : wpc[t] \in {"gowait", "recheck", "loop"} }

Init ==
    /\ attempt = 0
    /\ mpc = "idle"
    /\ spawned = 0
    /\ g_init_count = 0
    /\ g_go = FALSE
    /\ g_batch_stats = NoSlots
    /\ wpc = [t \in Thread |-> "none"]
    /\ slot = [t \in Thread |-> NoSlots]

-----------------------------------------------------------------------------
(* The main thread *)

\* upcall_init is entered; upcall_create succeeds and the g_ globals are set,
\* or it fails and the call returns -errno.
CallInit ==
    /\ mpc = "idle"
    /\ attempt < MaxInits
    /\ attempt' = attempt + 1
    /\ mpc' \in {"stats", "idle"}
    /\ spawned' = 0
    /\ UNCHANGED <<g_init_count, g_go, g_batch_stats, wpc, slot>>

\* $UPCALL_BATCH_STATS is unset (nothing changes), or the padded slots are
\* allocated, or aligned_alloc fails; then pthread_attr_init, which may fail too.
AllocStats ==
    /\ mpc = "stats"
    /\ g_batch_stats' \in {g_batch_stats, NoSlots, attempt}
    /\ mpc' \in {"spawn", "idle"}
    /\ UNCHANGED <<attempt, spawned, g_init_count, g_go, wpc, slot>>

\* One turn of the creation loop.  If the affinity cannot be set or the thread
\* cannot be created the call returns, and the threads it created stay.
SpawnWorker ==
    /\ mpc = "spawn"
    /\ \/ /\ wpc' = [wpc EXCEPT ![<<attempt, spawned>>] = "pool"]
          /\ spawned' = spawned + 1
          /\ mpc' = IF spawned + 1 = N THEN "barrier" ELSE "spawn"
       \/ /\ mpc' = "idle"
          /\ UNCHANGED <<wpc, spawned>>
    /\ UNCHANGED <<attempt, g_init_count, g_go, g_batch_stats, slot>>

\* The condition main waits for, and a variant that waits for one worker fewer.
InitDone_OffByOne == g_init_count >= N - 1
InitDone == g_init_count >= N

\* while (g_init_count < nr) pthread_cond_wait(&g_init_cond, &g_init_lock)
InitBarrier ==
    /\ mpc = "barrier"
    /\ mpc' = IF InitDone THEN "window" ELSE "waiting"
    /\ UNCHANGED <<attempt, spawned, g_init_count, g_go, g_batch_stats, wpc, slot>>

\* pthread_cond_wait(&g_init_cond) returns without a signal.
SpuriousInitWake ==
    /\ mpc = "waiting"
    /\ mpc' = "barrier"
    /\ UNCHANGED <<attempt, spawned, g_init_count, g_go, g_batch_stats, wpc, slot>>

\* pthread_cond_broadcast(&g_go_cond) wakes every waiter; a variant that uses
\* pthread_cond_signal wakes one.
WakeWorkers_SignalOne ==
    \/ ~ (\E t \in Thread : wpc[t] = "gowait") /\ UNCHANGED wpc
    \/ \E t \in Thread : wpc[t] = "gowait" /\ wpc' = [wpc EXCEPT ![t] = "recheck"]
WakeWorkers ==
    wpc' = [t \in Thread |-> IF wpc[t] = "gowait" THEN "recheck" ELSE wpc[t]]

\* upcall_workers_go, which must be called after upcall_init returned 0.
WorkersGo ==
    /\ mpc = "window"
    /\ g_go' = TRUE
    /\ WakeWorkers
    /\ mpc' = "gone"
    /\ UNCHANGED <<attempt, spawned, g_init_count, g_batch_stats, slot>>

-----------------------------------------------------------------------------
(* A worker: upcall_worker_fn up to its event loop *)

\* upcall_worker_setup: the pool, the work queue and the stats slot; the
\* variant takes its slot before g_batch_stats is known.
PoolSetup_NoSlot(t) ==
    /\ wpc[t] = "pool"
    /\ wpc' = [wpc EXCEPT ![t] = "setup_fn"]
    /\ UNCHANGED <<attempt, mpc, spawned, g_init_count, g_go, g_batch_stats, slot>>
PoolSetup(t) ==
    /\ wpc[t] = "pool"
    /\ wpc' = [wpc EXCEPT ![t] = "setup_fn"]
    /\ slot' = [slot EXCEPT ![t] = g_batch_stats]
    /\ UNCHANGED <<attempt, mpc, spawned, g_init_count, g_go, g_batch_stats>>

\* The application's setup_fn returns.
SetupFn(t) ==
    /\ wpc[t] = "setup_fn"
    /\ wpc' = [wpc EXCEPT ![t] = "arrive"]
    /\ UNCHANGED <<attempt, mpc, spawned, g_init_count, g_go, g_batch_stats, slot>>

\* pthread_cond_signal(&g_init_cond); the variant forgets it.
SignalInit_Forgotten == UNCHANGED mpc
SignalInit == mpc' = IF mpc = "waiting" THEN "barrier" ELSE mpc

\* Lock, count, signal, and look at g_go for the first time.
Arrive(t) ==
    /\ wpc[t] = "arrive"
    /\ g_init_count' = g_init_count + 1
    /\ SignalInit
    /\ wpc' = [wpc EXCEPT ![t] = IF g_go THEN "loop" ELSE "gowait"]
    /\ UNCHANGED <<attempt, spawned, g_go, g_batch_stats, slot>>

\* while (!g_go): a woken worker looks again; the variant does not.
GoRecheck_If(t) ==
    /\ wpc[t] = "recheck"
    /\ wpc' = [wpc EXCEPT ![t] = "loop"]
    /\ UNCHANGED <<attempt, mpc, spawned, g_init_count, g_go, g_batch_stats, slot>>
GoRecheck(t) ==
    /\ wpc[t] = "recheck"
    /\ wpc' = [wpc EXCEPT ![t] = IF g_go THEN "loop" ELSE "gowait"]
    /\ UNCHANGED <<attempt, mpc, spawned, g_init_count, g_go, g_batch_stats, slot>>

\* pthread_cond_wait(&g_go_cond) returns without a signal.
SpuriousGoWake(t) ==
    /\ wpc[t] = "gowait"
    /\ wpc' = [wpc EXCEPT ![t] = "recheck"]
    /\ UNCHANGED <<attempt, mpc, spawned, g_init_count, g_go, g_batch_stats, slot>>

Worker(t) == PoolSetup(t) \/ SetupFn(t) \/ Arrive(t) \/ GoRecheck(t)

Next ==
    \/ CallInit \/ AllocStats \/ SpawnWorker \/ InitBarrier
    \/ SpuriousInitWake \/ WorkersGo
    \/ \E t \in Thread : Worker(t) \/ SpuriousGoWake(t)

Spec == Init /\ [][Next]_vars

\* The scheduler runs every thread that can run; main calls upcall_workers_go
\* after upcall_init returned; setup_fn returns.
Fairness ==
    /\ WF_vars(AllocStats) /\ WF_vars(SpawnWorker)
    /\ WF_vars(InitBarrier) /\ WF_vars(WorkersGo)
    /\ \A t \in Thread : WF_vars(Worker(t))

FairSpec == Spec /\ Fairness

-----------------------------------------------------------------------------
(* Properties *)

TypeOK ==
    /\ attempt \in 0 .. MaxInits
    /\ mpc \in {"idle", "stats", "spawn", "barrier", "waiting", "window", "gone"}
    /\ spawned \in 0 .. N
    /\ g_init_count \in Nat
    /\ g_go \in BOOLEAN
    /\ g_batch_stats \in 0 .. MaxInits
    /\ wpc \in [Thread -> {"none", "pool", "setup_fn", "arrive",
                           "gowait", "recheck", "loop"}]
    /\ slot \in [Thread -> 0 .. MaxInits]

\* "Blocks until every worker has completed setup_fn" (upcall.h:61-62): once
\* upcall_init has returned 0, each worker of that call has left its setup_fn.
InitReturnsAfterSetup == mpc \in {"window", "gone"} => Current \subseteq Arrived

\* No worker runs the event loop, and so no callback runs, while another worker
\* is still registering its first events or was not even created.
LoopAfterSetup ==
    (\E t \in Thread : wpc[t] = "loop") => g_go /\ Current \subseteq Arrived

\* Every worker of the call in progress that passed upcall_worker_setup counts
\* in the slots that the monitor reads (upcall.c:542-547).
SlotsAgree ==
    \A t \in Current : wpc[t] \notin {"none", "pool"} => slot[t] = g_batch_stats

\* Once all workers were created, upcall_init returns, is followed by
\* upcall_workers_go, and every worker reaches its event loop: no wake-up of
\* either condition variable is lost.
StartCompletes ==
    mpc = "barrier" ~> \A t \in Current : wpc[t] = "loop"

-----------------------------------------------------------------------------
(* The barrier that the first call of upcall_init implements *)

PhaseOf(pc) ==
    CASE pc = "loop"                   -> "running"
      [] pc \in {"gowait", "recheck"}  -> "ready"
      [] OTHER                         -> "starting"

Barrier == INSTANCE StartBarrier WITH
    Party <- Id,
    phase <- [i \in Id |-> PhaseOf(wpc[<<1, i>>])],
    open  <- g_go

\* libupcall's two condition variables implement the start barrier.
ImplementsBarrier == Barrier!FairBarrierSpec

=============================================================================
