----------------------------- MODULE MCFWASweep -----------------------------
(* Small instances of FWASweep for TLC. *)
EXTENDS FWASweep

OneOrMany == {1, 3}
=============================================================================
