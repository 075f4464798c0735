----------------------------- MODULE MCFWALogs -----------------------------
(* Small instances of FWALogs for TLC. *)
EXTENDS FWALogs

\* Two draws of one listing, and a parameter change.
FourEvents == {"l", "d1", "d2", "c"}
ThreeEvents == {"l", "d1", "d2"}
NamedKinds ==
  [e \in Events |-> IF e = "l" THEN "listed" ELSE IF e = "c" THEN "config" ELSE "draw"]
NamedListings == [e \in {"d1", "d2"} |-> "l"]
=============================================================================
