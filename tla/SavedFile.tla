----------------------------- MODULE SavedFile -----------------------------
(***************************************************************************)
(* What the save of a cache promises to those who count on it: a save puts *)
(* the state in memory on disk as a whole, or does nothing; a start takes  *)
(* what is on disk; nothing else touches the file.  The other modules,     *)
(* whose saves are one step, rest on this.                                 *)
(***************************************************************************)
EXTENDS Naturals

VARIABLES
  held,   \* the state of the cache in memory, as a number
  stored  \* the state a start would read, 0 for none

vars == <<held, stored>>

Init == held = 0 /\ stored = 0

Change == held' = held + 1 /\ UNCHANGED stored

Save == held > 0 /\ stored' = held /\ UNCHANGED held

Restart == held' = stored /\ UNCHANGED stored

Next == Change \/ Save \/ Restart
Spec == Init /\ [][Next]_vars
=============================================================================
