---------------------------- MODULE HangLockStart ----------------------------
(***************************************************************************)
(* The start-up of the epoll, io_uring and thread-per-connection servers   *)
(* and of the client: main holds worker_hang_lock while it creates the     *)
(* threads and waits on init_cond until all have counted themselves; each  *)
(* thread then takes and drops worker_hang_lock before it goes to work.    *)
(*                                                                         *)
(* A critical section of init_lock waits only in pthread_cond_wait and is  *)
(* one step.  main and the workers exit the process on any failure.        *)
(***************************************************************************)
EXTENDS Integers, FiniteSets

CONSTANT N          \* nr_cpus, or nr_threads of the client

ASSUME HangAssumption == N \in Nat \ {0}

Id   == 0 .. N - 1
Main == N           \* the main thread, as an owner of the lock
Free == -1          \* the lock has no owner

VARIABLES mpc,              \* where main is
          spawned,          \* i of the creation loop
          init_count,
          hang,             \* owner of worker_hang_lock
          wpc               \* where each worker is

vars == <<mpc, spawned, init_count, hang, wpc>>

Init ==
    /\ mpc = "lock"
    /\ spawned = 0
    /\ init_count = 0
    /\ hang = Free
    /\ wpc = [i \in Id |-> "none"]

-----------------------------------------------------------------------------
(* main: init_threads, or the same lines in the client's main *)

\* The variant creates the threads without holding the lock.
TakeHang_Not ==
    /\ mpc = "lock"
    /\ mpc' = "spawn"
    /\ UNCHANGED <<spawned, init_count, hang, wpc>>
TakeHang ==
    /\ mpc = "lock" /\ hang = Free
    /\ hang' = Main
    /\ mpc' = "spawn"
    /\ UNCHANGED <<spawned, init_count, wpc>>

Spawn ==
    /\ mpc = "spawn"
    /\ wpc' = [wpc EXCEPT ![spawned] = "setup"]
    /\ spawned' = spawned + 1
    /\ mpc' = IF spawned + 1 = N THEN "barrier" ELSE "spawn"
    /\ UNCHANGED <<init_count, hang>>

\* while (init_count < nr) pthread_cond_wait(&init_cond, &init_lock)
WaitInit ==
    /\ mpc = "barrier"
    /\ mpc' = IF init_count >= N THEN "unlock" ELSE "waiting"
    /\ UNCHANGED <<spawned, init_count, hang, wpc>>

SpuriousWake ==
    /\ mpc = "waiting"
    /\ mpc' = "barrier"
    /\ UNCHANGED <<spawned, init_count, hang, wpc>>

\* The variant returns without dropping the lock.
DropHang_Not ==
    /\ mpc = "unlock"
    /\ mpc' = "released"
    /\ UNCHANGED <<spawned, init_count, hang, wpc>>
DropHang ==
    /\ mpc = "unlock"
    /\ hang' = Free
    /\ mpc' = "released"
    /\ UNCHANGED <<spawned, init_count, wpc>>

-----------------------------------------------------------------------------
(* A worker: worker_func up to its own loop *)

\* Its set-up is done: init_count++ and pthread_cond_signal, under init_lock.
CountIn(i) ==
    /\ wpc[i] = "setup"
    /\ init_count' = init_count + 1
    /\ mpc' = IF mpc = "waiting" THEN "barrier" ELSE mpc
    /\ wpc' = [wpc EXCEPT ![i] = "hang"]
    /\ UNCHANGED <<spawned, hang>>

LockHang(i) ==
    /\ wpc[i] = "hang" /\ hang = Free
    /\ hang' = i
    /\ wpc' = [wpc EXCEPT ![i] = "drop"]
    /\ UNCHANGED <<mpc, spawned, init_count>>

UnlockHang(i) ==
    /\ wpc[i] = "drop"
    /\ hang' = Free
    /\ wpc' = [wpc EXCEPT ![i] = "loop"]
    /\ UNCHANGED <<mpc, spawned, init_count>>

Worker(i) == CountIn(i) \/ LockHang(i) \/ UnlockHang(i)

\* All threads are in their own loops: the start-up is over.
Started == mpc = "released" /\ (\A i \in Id : wpc[i] = "loop") /\ UNCHANGED vars

Next ==
    \/ TakeHang \/ Spawn \/ WaitInit \/ SpuriousWake \/ DropHang
    \/ \E i \in Id : Worker(i)
    \/ Started

Spec == Init /\ [][Next]_vars

\* Threads are scheduled, and the mutex, which the others hold only briefly, is
\* not refused to one of them for ever.
Fairness ==
    /\ WF_vars(TakeHang) /\ WF_vars(Spawn) /\ WF_vars(WaitInit) /\ WF_vars(DropHang)
    /\ \A i \in Id : WF_vars(CountIn(i)) /\ SF_vars(LockHang(i)) /\ WF_vars(UnlockHang(i))

FairSpec == Spec /\ Fairness

-----------------------------------------------------------------------------
(* Properties *)

TypeOK ==
    /\ mpc \in {"lock", "spawn", "barrier", "waiting", "unlock", "released"}
    /\ spawned \in 0 .. N
    /\ init_count \in 0 .. N
    /\ hang \in Id \cup {Main, Free}
    /\ wpc \in [Id -> {"none", "setup", "hang", "drop", "loop"}]

PhaseOf(pc) ==
    CASE pc = "loop"            -> "running"
      [] pc \in {"hang", "drop"} -> "ready"
      [] OTHER                  -> "starting"

Barrier == INSTANCE StartBarrier WITH
    Party <- Id,
    phase <- [i \in Id |-> PhaseOf(wpc[i])],
    open  <- mpc = "released"

\* A mutex and a counter implement the start barrier too: no worker goes to its
\* loop before all are set up.
ImplementsBarrier == Barrier!BarrierSpec

=============================================================================
