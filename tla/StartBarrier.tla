---------------------------- MODULE StartBarrier ----------------------------
(***************************************************************************)
(* What every start-up sequence of this repository promises: no party      *)
(* starts running before all parties are ready and the gate was opened,    *)
(* and every party runs once it was.  libupcall builds the gate from two   *)
(* condition variables (UpcallStart), the other event loops and the client *)
(* from a mutex held by the main thread.                                   *)
(***************************************************************************)
CONSTANT Party            \* the threads that meet at the barrier

VARIABLES phase,          \* [Party -> {"starting", "ready", "running"}]
          open            \* TRUE once the gate was opened

bvars == <<phase, open>>

BarrierInit ==
    /\ phase = [p \in Party |-> "starting"]
    /\ open = FALSE

\* Party p has finished its own set-up.
Ready(p) ==
    /\ phase[p] = "starting"
    /\ phase' = [phase EXCEPT ![p] = "ready"]
    /\ UNCHANGED open

\* The gate opens once, and only when everybody is ready.
Open ==
    /\ ~open
    /\ \A p \in Party : phase[p] = "ready"
    /\ open' = TRUE
    /\ UNCHANGED phase

\* Party p passes the open gate.
Run(p) ==
    /\ open
    /\ phase[p] = "ready"
    /\ phase' = [phase EXCEPT ![p] = "running"]
    /\ UNCHANGED open

BarrierNext == Open \/ \E p \in Party : Ready(p) \/ Run(p)

BarrierSpec == BarrierInit /\ [][BarrierNext]_bvars

\* The same, and an open gate holds nobody back.
FairBarrierSpec == BarrierSpec /\ \A p \in Party : WF_bvars(Run(p))

=============================================================================
