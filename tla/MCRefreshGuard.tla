--------------------------- MODULE MCRefreshGuard ---------------------------
(* RefreshGuard for TLC: a screen to poll, one to leave and one to pass. *)
EXTENDS RefreshGuard

ThreeScreens == {"ttt", "talismans", "surf"}
=============================================================================
