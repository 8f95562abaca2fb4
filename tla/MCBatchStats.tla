---------------------------- MODULE MCBatchStats -----------------------------
(***************************************************************************)
(* BatchStats for TLC: the first worker does two batches, so that it also  *)
(* counts a time in user space, the others one.                            *)
(***************************************************************************)
EXTENDS BatchStats

MCMaxBatches == [i \in Id |-> IF i = 0 THEN 2 ELSE 1]

=============================================================================
