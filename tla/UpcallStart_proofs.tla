------------------------- MODULE UpcallStart_proofs -------------------------
(***************************************************************************)
(* What holds of UpcallStart for every number of workers: the types and    *)
(* the agreement on the statistics slots for any number of calls of        *)
(* upcall_init; the start barrier for a single call.  (With a second call  *)
(* the barrier fails, which the run of UpcallStartRetry.cfg shows.)        *)
(***************************************************************************)
EXTENDS UpcallStart, FiniteSetTheorems, TLAPS

-----------------------------------------------------------------------------
(* Types and slots *)

\* What a call of upcall_init in progress knows of the threads: those of later
\* calls do not exist, and its own do not until the creation loop runs.
SpawnInv ==
    /\ mpc = "stats" => spawned = 0 /\ \A t \in Current : wpc[t] = "none"
    /\ mpc = "spawn" => /\ spawned < N
                        /\ \A i \in Id : i >= spawned => wpc[<<attempt, i>>] = "none"
    /\ attempt = 0 => mpc = "idle"
    /\ \A t \in Thread : t[1] > attempt => wpc[t] = "none"

StartInv == TypeOK /\ SpawnInv /\ SlotsAgree

\* The start-up protocol begins with no worker and no slots.
LEMMA StartInvInit == Init => StartInv
<1> SUFFICES ASSUME Init PROVE StartInv
  OBVIOUS
<1>1. TypeOK
  <2>1. 0 \in 0 .. MaxInits /\ 0 \in 0 .. N
    BY StartAssumption
  <2> QED
    BY <2>1 DEF Init, TypeOK, NoSlots
<1>2. SpawnInv
  BY DEF Init, SpawnInv
<1>3. SlotsAgree
  BY DEF Init, SlotsAgree, Current
<1> QED
  BY <1>1, <1>2, <1>3 DEF StartInv

\* Every action of the start-up protocol preserves StartInv.
LEMMA StartInvStep == StartInv /\ [Next]_vars => StartInv'
<1> SUFFICES ASSUME StartInv, [Next]_vars PROVE StartInv'
  OBVIOUS
<1> USE StartAssumption DEF StartInv, TypeOK, SpawnInv, SlotsAgree, Current
<1>1. CASE CallInit
  <2>1. TypeOK'
    BY <1>1 DEF CallInit
  <2>2. SpawnInv'
    BY <1>1 DEF CallInit, Thread
  <2>3. SlotsAgree'
    BY <1>1 DEF CallInit, Thread
  <2> QED
    BY <2>1, <2>2, <2>3
<1>2. CASE AllocStats
  BY <1>2 DEF AllocStats, NoSlots, Thread
<1>3. CASE SpawnWorker
  <2>1. TypeOK'
    BY <1>3 DEF SpawnWorker
  <2>2. SpawnInv'
    <3>1. CASE mpc' = "idle" /\ UNCHANGED wpc
      BY <1>3, <3>1 DEF SpawnWorker
    <3>2. CASE wpc' = [wpc EXCEPT ![<<attempt, spawned>>] = "pool"]
      BY <1>3, <3>2 DEF SpawnWorker, Thread, Id
    <3> QED
      BY <1>3, <3>1, <3>2 DEF SpawnWorker
  <2>3. SlotsAgree'
    BY <1>3 DEF SpawnWorker
  <2> QED
    BY <2>1, <2>2, <2>3
<1>4. CASE InitBarrier
  BY <1>4 DEF InitBarrier
<1>5. CASE SpuriousInitWake
  BY <1>5 DEF SpuriousInitWake
<1>6. CASE WorkersGo
  BY <1>6 DEF WorkersGo, WakeWorkers
<1>7. ASSUME NEW t \in Thread, Worker(t) \/ SpuriousGoWake(t) PROVE StartInv'
  <2>1. CASE PoolSetup(t)
    BY <2>1 DEF PoolSetup
  <2>2. CASE SetupFn(t)
    BY <2>2 DEF SetupFn
  <2>3. CASE Arrive(t)
    BY <2>3 DEF Arrive, SignalInit
  <2>4. CASE GoRecheck(t)
    BY <2>4 DEF GoRecheck
  <2>5. CASE SpuriousGoWake(t)
    BY <2>5 DEF SpuriousGoWake
  <2> QED
    BY <1>7, <2>1, <2>2, <2>3, <2>4, <2>5 DEF Worker
<1>8. CASE UNCHANGED vars
  BY <1>8 DEF vars
<1> QED
  BY <1>1, <1>2, <1>3, <1>4, <1>5, <1>6, <1>7, <1>8 DEF Next

\* Every reachable state has its variables in their types.
THEOREM TypeCorrect == Spec => []TypeOK
<1>1. StartInv => TypeOK
  BY DEF StartInv
<1> QED
  BY <1>1, StartInvInit, StartInvStep, PTL DEF Spec

\* Whatever upcall_init fails with and however often it is called again, a
\* worker of the call in progress counts in the slots the monitor reads.
THEOREM SlotsCorrect == Spec => []SlotsAgree
<1>1. StartInv => SlotsAgree
  BY DEF StartInv
<1> QED
  BY <1>1, StartInvInit, StartInvStep, PTL DEF Spec

-----------------------------------------------------------------------------
(* The barrier of one call *)

\* The inductive invariant: the counter counts exactly the workers that left
\* setup_fn, the gate is open exactly after upcall_workers_go, only an open gate
\* lets workers through, and upcall_init has returned only with all counted.
BarrierInv ==
    /\ g_init_count = Cardinality(Arrived)
    /\ g_go <=> mpc = "gone"
    /\ \A t \in Thread : wpc[t] = "loop" => g_go
    /\ mpc \in {"window", "gone"} => g_init_count >= N

LEMMA ThreadCount ==
    ASSUME MaxInits = 1
    PROVE  IsFiniteSet(Thread) /\ Cardinality(Thread) = N
<1>1. IsFiniteSet(1 .. 1) /\ Cardinality(1 .. 1) = 1
  <2>1. 1 .. 1 = {1}
    OBVIOUS
  <2> QED
    BY <2>1, FS_Singleton
<1>2. IsFiniteSet(Id) /\ Cardinality(Id) = N
  BY StartAssumption, FS_Interval DEF Id
<1>3. /\ IsFiniteSet((1 .. 1) \X Id)
      /\ Cardinality((1 .. 1) \X Id) = Cardinality(1 .. 1) * Cardinality(Id)
  BY <1>1, <1>2, FS_Product
<1> QED
  BY <1>1, <1>2, <1>3, StartAssumption DEF Thread

\* When the counter has reached N, nobody is missing.
LEMMA AllArrived ==
    ASSUME MaxInits = 1, BarrierInv, g_init_count >= N
    PROVE  Arrived = Thread
<1>1. Arrived \in SUBSET Thread
  BY DEF Arrived
<1>2. /\ Cardinality(Arrived) <= Cardinality(Thread)
      /\ Cardinality(Thread) = Cardinality(Arrived) => Thread = Arrived
  BY <1>1, ThreadCount, FS_Subset
<1>3. Cardinality(Arrived) \in Nat
  BY <1>1, ThreadCount, FS_Subset, FS_CardinalityType
<1> QED
  BY <1>2, <1>3, ThreadCount, StartAssumption DEF BarrierInv

\* Nobody has arrived, and the gate is shut.
LEMMA BarrierInvInit == Init => BarrierInv
<1> SUFFICES ASSUME Init PROVE BarrierInv
  OBVIOUS
<1>1. Arrived = {}
  BY DEF Init, Arrived
<1> QED
  BY <1>1, FS_EmptySet DEF Init, BarrierInv

\* Every action preserves BarrierInv when upcall_init is called once.
LEMMA BarrierInvStep ==
    ASSUME MaxInits = 1, StartInv, BarrierInv, [Next]_vars
    PROVE  BarrierInv'
<1> USE StartAssumption DEF StartInv, TypeOK, BarrierInv
<1>1. CASE CallInit
  BY <1>1 DEF CallInit, Arrived
<1>2. CASE AllocStats
  BY <1>2 DEF AllocStats, Arrived
<1>3. CASE SpawnWorker
  <2>1. Arrived' = Arrived
    BY <1>3 DEF SpawnWorker, SpawnInv, Arrived, Thread, Id
  <2>2. (\A t \in Thread : wpc[t] = "loop" => g_go)'
    BY <1>3 DEF SpawnWorker
  <2> QED
    BY <1>3, <2>1, <2>2 DEF SpawnWorker
<1>4. CASE InitBarrier
  BY <1>4 DEF InitBarrier, InitDone, Arrived
<1>5. CASE SpuriousInitWake
  BY <1>5 DEF SpuriousInitWake, Arrived
<1>6. CASE WorkersGo
  <2>1. Arrived' = Arrived
    BY <1>6 DEF WorkersGo, WakeWorkers, Arrived
  <2> QED
    BY <1>6, <2>1 DEF WorkersGo, WakeWorkers
<1>7. ASSUME NEW t \in Thread, Worker(t) \/ SpuriousGoWake(t) PROVE BarrierInv'
  <2>1. CASE PoolSetup(t)
    <3>1. Arrived' = Arrived
      BY <2>1 DEF PoolSetup, Arrived
    <3> QED
      BY <2>1, <3>1 DEF PoolSetup
  <2>2. CASE SetupFn(t)
    <3>1. Arrived' = Arrived
      BY <2>2 DEF SetupFn, Arrived
    <3> QED
      BY <2>2, <3>1 DEF SetupFn
  <2>3. CASE Arrive(t)
    <3>1. Arrived' = Arrived \cup {t} /\ t \notin Arrived
      BY <2>3 DEF Arrive, Arrived
    <3>2. IsFiniteSet(Arrived)
      BY ThreadCount, FS_Subset DEF Arrived
    <3>3. Cardinality(Arrived') = Cardinality(Arrived) + 1
      BY <3>1, <3>2, FS_AddElement
    <3>4. g_init_count' = Cardinality(Arrived')
      BY <2>3, <3>3 DEF Arrive
    <3>5. (g_go <=> mpc = "gone")'
      BY <2>3 DEF Arrive, SignalInit
    <3>6. (\A u \in Thread : wpc[u] = "loop" => g_go)'
      BY <2>3 DEF Arrive
    <3>7. (mpc \in {"window", "gone"} => g_init_count >= N)'
      BY <2>3 DEF Arrive, SignalInit
    <3> QED
      BY <3>4, <3>5, <3>6, <3>7
  <2>4. CASE GoRecheck(t)
    <3>1. Arrived' = Arrived
      BY <2>4 DEF GoRecheck, Arrived
    <3> QED
      BY <2>4, <3>1 DEF GoRecheck
  <2>5. CASE SpuriousGoWake(t)
    <3>1. Arrived' = Arrived
      BY <2>5 DEF SpuriousGoWake, Arrived
    <3> QED
      BY <2>5, <3>1 DEF SpuriousGoWake
  <2> QED
    BY <1>7, <2>1, <2>2, <2>3, <2>4, <2>5 DEF Worker
<1>8. CASE UNCHANGED vars
  BY <1>8 DEF vars, Arrived
<1> QED
  BY <1>1, <1>2, <1>3, <1>4, <1>5, <1>6, <1>7, <1>8 DEF Next

\* So BarrierInv holds of the only call of upcall_init.
LEMMA BarrierInvAlways ==
    ASSUME MaxInits = 1 PROVE Spec => [](StartInv /\ BarrierInv)
<1>1. StartInv /\ BarrierInv /\ [Next]_vars => BarrierInv'
  BY BarrierInvStep
<1> QED
  BY <1>1, BarrierInvInit, StartInvInit, StartInvStep, PTL DEF Spec

\* "Blocks until every worker has completed setup_fn": for any number of
\* workers, upcall_init returns 0 only when each has left its setup_fn.
THEOREM InitReturnsLate ==
    ASSUME MaxInits = 1 PROVE Spec => []InitReturnsAfterSetup
<1>1. StartInv /\ BarrierInv => InitReturnsAfterSetup
  BY AllArrived DEF InitReturnsAfterSetup, BarrierInv, Current
<1> QED
  BY <1>1, BarrierInvAlways, PTL

\* For any number of workers, none runs its event loop before all of them have
\* registered their first events and upcall_workers_go was called.
THEOREM LoopStartsLate ==
    ASSUME MaxInits = 1 PROVE Spec => []LoopAfterSetup
<1>1. StartInv /\ BarrierInv => LoopAfterSetup
  BY AllArrived DEF LoopAfterSetup, BarrierInv, Current
<1> QED
  BY <1>1, BarrierInvAlways, PTL

-----------------------------------------------------------------------------
(* The refinement *)

\* Each step of the start-up protocol is a step of the abstract barrier or
\* leaves it as it is.
LEMMA BarrierStep ==
    ASSUME MaxInits = 1, StartInv, BarrierInv, [Next]_vars
    PROVE  [Barrier!BarrierNext]_(Barrier!bvars)
<1> DEFINE ph == [i \in Id |-> PhaseOf(wpc[<<1, i>>])]
<1> USE StartAssumption DEF StartInv, TypeOK
<1>a. ASSUME UNCHANGED g_go, UNCHANGED ph
      PROVE  UNCHANGED (Barrier!bvars)
  BY <1>a DEF Barrier!bvars
<1>b. ASSUME UNCHANGED wpc
      PROVE  UNCHANGED ph
  BY <1>b DEF PhaseOf
<1>1. CASE CallInit \/ AllocStats \/ InitBarrier \/ SpuriousInitWake
  BY <1>1, <1>a, <1>b DEF CallInit, AllocStats, InitBarrier, SpuriousInitWake
<1>2. CASE SpawnWorker
  <2>1. \A i \in Id : PhaseOf(wpc[<<1, i>>])' = PhaseOf(wpc[<<1, i>>])
    BY <1>2 DEF SpawnWorker, SpawnInv, Thread, Id, PhaseOf
  <2> QED
    BY <1>2, <1>a, <2>1 DEF SpawnWorker
<1>3. CASE WorkersGo
  <2>1. Arrived = Thread
    BY <1>3, AllArrived DEF WorkersGo, BarrierInv
  <2>2. \A i \in Id : PhaseOf(wpc[<<1, i>>]) = "ready"
    BY <1>3, <2>1 DEF WorkersGo, BarrierInv, Arrived, Thread, PhaseOf
  <2>3. \A i \in Id : PhaseOf(wpc[<<1, i>>])' = PhaseOf(wpc[<<1, i>>])
    BY <1>3 DEF WorkersGo, WakeWorkers, Thread, PhaseOf
  <2>4. Barrier!Open
    BY <1>3, <2>2, <2>3 DEF Barrier!Open, WorkersGo, BarrierInv
  <2> QED
    BY <2>4 DEF Barrier!BarrierNext
<1>4. ASSUME NEW t \in Thread, Worker(t) \/ SpuriousGoWake(t)
      PROVE  [Barrier!BarrierNext]_(Barrier!bvars)
  <2>0. PICK i \in Id : t = <<1, i>>
    BY DEF Thread
  <2>1. CASE PoolSetup(t) \/ SetupFn(t) \/ SpuriousGoWake(t)
    <3>1. \A k \in Id : PhaseOf(wpc[<<1, k>>])' = PhaseOf(wpc[<<1, k>>])
      BY <2>1 DEF PoolSetup, SetupFn, SpuriousGoWake, Thread, PhaseOf
    <3> QED
      BY <2>1, <1>a, <3>1 DEF PoolSetup, SetupFn, SpuriousGoWake
  <2>2. CASE Arrive(t)
    <3>1. ~g_go
      <4> SUFFICES ASSUME g_go PROVE FALSE
        OBVIOUS
      <4>1. Arrived = Thread
        BY AllArrived DEF BarrierInv
      <4> QED
        BY <2>2, <4>1 DEF Arrive, Arrived
    <3>2. wpc' = [wpc EXCEPT ![t] = "gowait"] /\ UNCHANGED g_go /\ wpc[t] = "arrive"
      BY <2>2, <3>1 DEF Arrive
    <3>3. ph' = [ph EXCEPT ![i] = "ready"] /\ ph[i] = "starting"
      BY <2>0, <3>2 DEF PhaseOf, Thread
    <3> QED
      BY <3>2, <3>3 DEF Barrier!Ready, Barrier!BarrierNext
  <2>3. CASE GoRecheck(t)
    <3>1. CASE ~g_go
      <4>1. ph' = ph /\ UNCHANGED g_go
        BY <2>3, <3>1 DEF GoRecheck, PhaseOf, Thread
      <4> QED
        BY <4>1, <1>a
    <3>2. CASE g_go
      <4>1. wpc' = [wpc EXCEPT ![t] = "loop"] /\ UNCHANGED g_go /\ wpc[t] = "recheck"
        BY <2>3, <3>2 DEF GoRecheck
      <4>2. ph' = [ph EXCEPT ![i] = "running"] /\ ph[i] = "ready"
        BY <2>0, <4>1 DEF PhaseOf, Thread
      <4> QED
        BY <3>2, <4>1, <4>2 DEF Barrier!Run, Barrier!BarrierNext
    <3> QED
      BY <3>1, <3>2
  <2> QED
    BY <1>4, <2>1, <2>2, <2>3 DEF Worker
<1>5. CASE UNCHANGED vars
  BY <1>5, <1>a, <1>b DEF vars
<1> QED
  BY <1>1, <1>2, <1>3, <1>4, <1>5 DEF Next

\* For any number of workers the two condition variables of libupcall implement
\* the abstract start barrier (its safety; liveness is model-checked).
THEOREM BarrierImplemented ==
    ASSUME MaxInits = 1 PROVE Spec => Barrier!BarrierSpec
<1>1. Init => Barrier!BarrierInit
  BY DEF Init, Barrier!BarrierInit, PhaseOf, Thread
<1>2. StartInv /\ BarrierInv /\ [Next]_vars => [Barrier!BarrierNext]_(Barrier!bvars)
  BY BarrierStep
<1> QED
  BY <1>1, <1>2, BarrierInvAlways, PTL DEF Spec, Barrier!BarrierSpec

=============================================================================
