---------------------------- MODULE MCEpollEcho ------------------------------
(***************************************************************************)
(* EpollEcho for TLC: two workers and one or two clients.  Workers differ  *)
(* in nothing but their names, so the one the first client gets is called  *)
(* w1.                                                                     *)
(***************************************************************************)
EXTENDS EpollEcho, TLC

CONSTANTS w1, w2, c1, c2

MCWorker    == {w1, w2}
MCClient    == {c1, c2}
MCOneClient == {c1}
MCReach     == c1 :> {w1} @@ c2 :> MCWorker
MCOneReach  == c1 :> {w1}

=============================================================================
