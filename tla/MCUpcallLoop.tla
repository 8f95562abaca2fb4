---------------------------- MODULE MCUpcallLoop -----------------------------
(***************************************************************************)
(* UpcallLoop for TLC.  Two kinds are enough: to the loop a write or an    *)
(* accept is a read that was answered without a buffer, and only a close   *)
(* has no work_fn.                                                         *)
(***************************************************************************)
EXTENDS UpcallLoop, TLC

CONSTANTS r1, r2

MCReq  == {r1, r2}
MCKind == r1 :> {"read"} @@ r2 :> {"read", "close"}

=============================================================================
