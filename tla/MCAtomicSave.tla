---------------------------- MODULE MCAtomicSave ----------------------------
(* Instances of AtomicSave for TLC. *)
EXTENDS AtomicSave

Both == {"thread", "loop"}
=============================================================================
