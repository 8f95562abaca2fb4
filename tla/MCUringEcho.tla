---------------------------- MODULE MCUringEcho ------------------------------
(***************************************************************************)
(* UringEcho for TLC: two workers and two clients.  Workers differ in      *)
(* nothing but their names, so the one the first client gets is called w1. *)
(***************************************************************************)
EXTENDS UringEcho, TLC

CONSTANTS w1, w2, c1, c2

MCWorker == {w1, w2}
MCClient == {c1, c2}
MCReach  == c1 :> {w1} @@ c2 :> MCWorker

=============================================================================
