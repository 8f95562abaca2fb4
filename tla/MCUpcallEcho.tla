---------------------------- MODULE MCUpcallEcho -----------------------------
(***************************************************************************)
(* UpcallEcho for TLC: two workers, and two clients of which the first one *)
(* sends two messages and the second one sends one.  They arrive at        *)
(* different workers: handlers of one worker run one after the other, and  *)
(* it is the handlers of two that interleave.                              *)
(***************************************************************************)
EXTENDS UpcallEcho, TLC

CONSTANTS w1, w2, c1, c2

MCWorker  == {w1, w2}
MCClient  == {c1, c2}
MCReach   == c1 :> {w1} @@ c2 :> {w2}
MCMaxMsgs == c1 :> 2 @@ c2 :> 1

=============================================================================
