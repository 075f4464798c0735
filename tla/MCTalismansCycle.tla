-------------------------- MODULE MCTalismansCycle --------------------------
(***************************************************************************)
(* TalismansCycle for TLC: tokens of two cores and of one.            *)
(***************************************************************************)
EXTENDS TalismansCycle

MCGenesis == <<2, 1>>

\* A single token, for the liveness run.
MCOneToken == <<3>>

=============================================================================
