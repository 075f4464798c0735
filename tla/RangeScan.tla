----------------------------- MODULE RangeScan -----------------------------
(***************************************************************************)
(* What a scan of a block range promises to those who move a watermark by  *)
(* it, whatever pages, endpoints and retries it is made of: it ends at some *)
(* block of the range, or in front of it, and has delivered every block up *)
(* to there once and nothing else.                                         *)
(***************************************************************************)
EXTENDS Integers

CONSTANT Blocks \* the blocks a scan may be asked for

VARIABLES
  pc,       \* "idle", or "rpc" while a scan is under way
  range,    \* what the scan was asked for, as <<first, last>>
  reach,    \* how far the last scan got
  delivered \* how often the last scan delivered each block

vars == <<pc, range, reach, delivered>>

Nothing == [b \in Blocks |-> 0]
UpTo(last) == [b \in Blocks |-> IF b \in range[1]..last THEN 1 ELSE 0]

Init == pc = "idle" /\ range = <<1, 0>> /\ reach = 0 /\ delivered = Nothing

Ask ==
  /\ pc = "idle" /\ pc' = "rpc"
  /\ \E first, last \in Blocks : first <= last /\ range' = <<first, last>>
  /\ delivered' = Nothing
  /\ UNCHANGED reach

\* A range without blocks has been read when it is asked for.
AskForNone ==
  /\ pc = "idle"
  /\ \E last \in Blocks : range' = <<last + 1, last>> /\ reach' = last
  /\ delivered' = Nothing
  /\ UNCHANGED pc

Report ==
  /\ pc = "rpc" /\ pc' = "idle"
  /\ reach' \in (range[1] - 1)..range[2]
  /\ delivered' = UpTo(reach')
  /\ UNCHANGED range

Next == Ask \/ AskForNone \/ Report
Spec == Init /\ [][Next]_vars
=============================================================================
