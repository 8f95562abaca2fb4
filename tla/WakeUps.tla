------------------------------- MODULE WakeUps --------------------------------
(***************************************************************************)
(* What a list under a lock and an eventfd promise the worker that is      *)
(* handed connections, when the eventfd is read by requests that have to   *)
(* be made anew: each entry put on the list is followed by one signal, one *)
(* read takes all signals there are, the worker empties the list each time *)
(* a read ends, and arms one read for each entry it takes.                 *)
(*                                                                         *)
(* Reads are armed per entry and used up per wake-up, so their numbers     *)
(* drift apart: that one is always left needs a proof (UringEcho_proofs).  *)
(***************************************************************************)
EXTENDS Naturals

VARIABLES listed,       \* entries on the list
          signals,      \* signals under way or not taken by a read yet
          armed,        \* reads of the eventfd that are asked for
          fired,        \* reads that ended and were not looked at yet
          at            \* the worker: "events", or "list" while it empties its list

wvars == <<listed, signals, armed, fired, at>>

WakeInit ==
    /\ listed = 0 /\ signals = 0
    /\ armed = 1 /\ fired = 0
    /\ at = "events"

\* Another worker puts a connection on the list, and is going to signal.
Push ==
    /\ listed' = listed + 1 /\ signals' = signals + 1
    /\ UNCHANGED <<armed, fired, at>>

\* A read ends: the signals it finds are gone.
Fire ==
    /\ armed > 0
    /\ \E n \in 1 .. signals : signals' = signals - n
    /\ armed' = armed - 1 /\ fired' = fired + 1
    /\ UNCHANGED <<listed, at>>

Wake ==
    /\ at = "events" /\ fired > 0
    /\ fired' = fired - 1 /\ at' = "list"
    /\ UNCHANGED <<listed, signals, armed>>

Take ==
    /\ at = "list" /\ listed > 0
    /\ listed' = listed - 1 /\ armed' = armed + 1
    /\ UNCHANGED <<signals, fired, at>>

Emptied ==
    /\ at = "list" /\ listed = 0
    /\ at' = "events"
    /\ UNCHANGED <<listed, signals, armed, fired>>

WakeNext == Push \/ Fire \/ Wake \/ Take \/ Emptied

WakeSpec == WakeInit /\ [][WakeNext]_wvars

WakeType ==
    /\ listed \in Nat /\ signals \in Nat /\ armed \in Nat /\ fired \in Nat
    /\ at \in {"events", "list"}

\* Whoever looks for the next event has a read of the eventfd armed or ended:
\* later connections will be noticed (iouring.c:295-319).
ReadArmed == at = "events" => armed + fired > 0

\* An entry on the list has a wake-up to come.
NoneForgotten == listed > 0 => at = "list" \/ fired > 0 \/ signals > 0

=============================================================================
