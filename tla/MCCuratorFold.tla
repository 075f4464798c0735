---------------------------- MODULE MCCuratorFold ----------------------------
(* Small instances of CuratorFold for TLC. *)
EXTENDS CuratorFold

FirstTwo == {1, 2}
=============================================================================
