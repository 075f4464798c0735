------------------------------ MODULE FWASweep ------------------------------
(***************************************************************************)
(* The position sweep of the FWA dashboard: when it is made, which sweep   *)
(* is published and what the odds board and the EV may call current        *)
(* (src/maxpane_dashboard/data/fwa_manager.py over fwa_cache.py).          *)
(*                                                                         *)
(* In one refresh cycle the sweep is pinned to a block and read while the  *)
(* tail reads the logs; BackingUpdated in a later block invalidates it.    *)
(* The cache keeps one sweep, and its file only where that came from.      *)
(* Cycles do not overlap (RefreshGuard), so neither single-flight guard of *)
(* the sweep is ever met; the client's sweep turns what is raised in it    *)
(* into a report, as here.                                                 *)
(***************************************************************************)
EXTENDS Naturals, FiniteSets

CONSTANTS
  MaxBlock,     \* bound: blocks of the chain
  HeadLag,      \* blocks by which the head a node names may be behind
  SweepTtl,     \* TIER_TTL_SECONDS of the medium tier, in refresh intervals
  SweepBackoff, \* TIER_FAILURE_BACKOFF_SECONDS of it, likewise
  Delays,       \* the intervals that may pass from one cycle to the next
  MaxStarts     \* bound: times the dashboard is started

ASSUME SweepAssumption ==
  /\ MaxBlock \in Nat \ {0} /\ HeadLag \in Nat
  /\ SweepTtl \in Nat \ {0} /\ SweepBackoff \in Nat \ {0}
  /\ Delays \subseteq Nat \ {0} /\ Delays # {}
  /\ MaxStarts \in Nat

VARIABLES
  head,    \* chain: its last block
  updates, \* chain: the blocks with a BackingUpdated
  pc,      \* "down", "idle" or "cycle"
  sweep,   \* pool A: [step, block], step "none", "asked" or "pinned"
  tail,    \* pool B: "none" or "asked"
  seen,    \* last_seen_block of the log client
  known,   \* the blocks of the BackingUpdated it holds
  slot,    \* SLOT_SWEEP of the cache: [block, rows, stale], block 0 if empty
  ok,      \* _invariants_ok
  wait,    \* time until the medium tier is due
  shown,   \* the last payload: [block, rows, fresh]
  disk,    \* sweep_provenance in fwa_cache.json: its block, or 0
  starts,
  knew,    \* history: known when this cycle began
  since,   \* history: time since the last sweep if that failed, else SweepBackoff
  best,    \* history: the latest block whose positions were shown
  lost     \* history: a save failed or a file could not be read

chainVars == <<head, updates>>
logVars == <<tail, seen, known>>
sweepVars == <<sweep, slot, ok, wait, since>>
shownVars == <<shown, disk, best, lost>>
vars == <<chainVars, pc, logVars, sweepVars, shownVars, starts, knew>>

NoSweep == [step |-> "none", block |-> 0]

\* What the positions of a slot are: none, those of a sweep that failed its
\* checks, or all of them.
Rows == {"none", "partial", "whole"}
Empty == [block |-> 0, rows |-> "none", stale |-> TRUE]
Blank == [block |-> 0, rows |-> "none", fresh |-> FALSE]

-----------------------------------------------------------------------------
(***************************************************************************)
(* The cache.                                                              *)
(***************************************************************************)
\* Mutant: a sweep of the stored block is refused as well.
StrictlyNewer(b) == b > slot.block

\* Mutant: a sweep is never refused.
AnySweep(b) == TRUE

\* set_sweep refuses a rewind.
Accepted(b) == b >= slot.block

\* Some known BackingUpdated is later than the sweep.
Outdated(s) == s.block > 0 /\ \E u \in known : u > s.block

\* Mutant: the oldest update is compared, not the newest.
NotedByOldest(s) ==
  IF s.block > 0 /\ known # {} /\ \A u \in known : u > s.block
  THEN [s EXCEPT !.stale = TRUE] ELSE s

\* _apply_backing_updates
Noted(s) == IF Outdated(s) THEN [s EXCEPT !.stale = TRUE] ELSE s

\* The time until the next sweep, after a cycle that leaves slot s: an
\* invalidated sweep makes the tier due, whatever a failure has set.
DueAfter(w) == IF Outdated(slot) THEN 0 ELSE w

\* Mutant: what is restored is taken for current.
RestoredAsFresh(b) == IF b = 0 THEN Empty ELSE [block |-> b, rows |-> "none", stale |-> FALSE]

\* load_from_file: where the last sweep came from, without its positions.
Restored(b) == IF b = 0 THEN Empty ELSE [block |-> b, rows |-> "none", stale |-> TRUE]

-----------------------------------------------------------------------------
(***************************************************************************)
(* The chain, and the program's start and end.                             *)
(***************************************************************************)
Grow ==
  /\ head < MaxBlock /\ head' = head + 1
  /\ updates' \in {updates, updates \cup {head + 1}}
  /\ UNCHANGED <<pc, logVars, sweepVars, shownVars, starts, knew>>

\* The head a node names.
Heads == {h \in 1..head : h + HeadLag >= head}

Down ==
  /\ pc # "down" /\ pc' = "down"
  /\ sweep' = NoSweep /\ tail' = "none" /\ slot' = Empty /\ ok' = TRUE
  /\ wait' = 0 /\ since' = SweepBackoff /\ shown' = Blank /\ knew' = {}
  /\ UNCHANGED <<chainVars, seen, known, starts, best>>

Saved(s) ==
  \/ disk' = s.block /\ UNCHANGED lost
  \/ UNCHANGED disk /\ lost' = TRUE

Close == Down /\ Saved(slot)
Crash == Down /\ UNCHANGED <<disk, lost>>

\* Of the logs, the file holds a window.
Restart ==
  /\ pc = "down" /\ starts < MaxStarts
  /\ pc' = "idle" /\ starts' = starts + 1
  /\ \/ slot' = Restored(disk) /\ UNCHANGED lost
     \/ slot' = Empty /\ lost' = TRUE
  /\ known' \in SUBSET known /\ seen' \in {0, seen}
  /\ UNCHANGED <<chainVars, tail, sweep, ok, wait, since, shown, disk, best, knew>>

-----------------------------------------------------------------------------
(***************************************************************************)
(* A cycle: both pools at once, then the assembly.                         *)
(***************************************************************************)
Begin ==
  /\ pc = "idle" /\ pc' = "cycle"
  /\ \E d \in Delays :
       /\ wait' = IF wait > d THEN wait - d ELSE 0
       /\ since' = IF since + d < SweepBackoff THEN since + d ELSE SweepBackoff
  /\ sweep' = IF wait' = 0 THEN [NoSweep EXCEPT !.step = "asked"] ELSE NoSweep
  /\ tail' \in {"none", "asked"}
  /\ knew' = known
  /\ UNCHANGED <<chainVars, seen, known, slot, ok, shownVars, starts>>

PinAt(b) ==
  /\ sweep.step = "asked" /\ sweep' = [step |-> "pinned", block |-> b]
  /\ UNCHANGED <<chainVars, pc, logVars, slot, ok, wait, since, shownVars, starts, knew>>

Pin == \E b \in Heads : PinAt(b)

\* Mutant: the tier stays due.
LeftDue == 0

\* mark_failed
Backoff == SweepBackoff

Failed == wait' = Backoff /\ since' = 0

SweepDone ==
  /\ sweep' = NoSweep
  /\ UNCHANGED <<chainVars, pc, logVars, shownVars, starts, knew>>

\* All positions, and the totals agree with the chain's at the same block.
SweepGood ==
  /\ sweep.step = "pinned" /\ SweepDone
  /\ ok' = TRUE
  /\ IF Accepted(sweep.block)
     THEN /\ slot' = [block |-> sweep.block, rows |-> "whole", stale |-> FALSE]
          /\ wait' = SweepTtl /\ since' = SweepBackoff
     ELSE Failed /\ UNCHANGED slot

\* Some positions, and a total that disagrees: published, as stale; or it
\* is refused, and then the sweep that is published is marked stale.
SweepMismatched ==
  /\ sweep.step = "pinned" /\ SweepDone
  /\ ok' = FALSE /\ Failed
  /\ slot' = IF Accepted(sweep.block)
             THEN [block |-> sweep.block, rows |-> "partial", stale |-> TRUE]
             ELSE [slot EXCEPT !.stale = TRUE]

\* No block, no totals or no position could be read: reported as a mismatch.
SweepFailed ==
  /\ sweep.step \in {"asked", "pinned"} /\ SweepDone
  /\ ok' = FALSE /\ Failed /\ UNCHANGED slot

\* The pool is empty: no mismatch, but nothing to publish either.
SweepEmpty ==
  /\ sweep.step = "pinned" /\ SweepDone
  /\ ok' = TRUE /\ Failed /\ UNCHANGED slot

\* The tail reads from its watermark to the head it is told.
TailServed ==
  /\ tail = "asked" /\ tail' = "none"
  /\ \E to \in Heads :
       /\ known' = known \cup {u \in updates : u <= to /\ (u >= seen \/ u = to)}
       /\ seen' = IF seen < to THEN to ELSE seen
  /\ UNCHANGED <<chainVars, pc, sweepVars, shownVars, starts, knew>>

TailFailed ==
  /\ tail = "asked" /\ tail' = "none"
  /\ UNCHANGED <<chainVars, pc, seen, known, sweepVars, shownVars, starts, knew>>

\* Both pools have answered.  The payload shows what pool A left in the
\* cache; the updates the tail has found are noted in the cache behind it.
EndCycle ==
  /\ pc = "cycle" /\ sweep.step = "none" /\ tail = "none"
  /\ pc' = "idle"
  /\ slot' = Noted(slot) /\ wait' = DueAfter(wait)
  /\ shown' = [block |-> slot.block, rows |-> slot.rows, fresh |-> ~slot.stale /\ ok]
  /\ best' = IF slot.rows # "none" /\ slot.block > best THEN slot.block ELSE best
  /\ Saved(slot)
  /\ UNCHANGED <<chainVars, logVars, sweep, ok, since, starts, knew>>

-----------------------------------------------------------------------------
Init ==
  /\ head = 1 /\ updates \in SUBSET {1}
  /\ pc = "down" /\ sweep = NoSweep /\ tail = "none"
  /\ seen = 0 /\ known = {} /\ slot = Empty /\ ok = TRUE /\ wait = 0
  /\ shown = Blank /\ disk = 0 /\ starts = 0
  /\ knew = {} /\ since = SweepBackoff /\ best = 0 /\ lost = FALSE

Next ==
  \/ Grow
  \/ Begin \/ Pin \/ SweepGood \/ SweepMismatched \/ SweepFailed \/ SweepEmpty
  \/ TailServed \/ TailFailed \/ EndCycle
  \/ Close \/ Crash \/ Restart

Spec == Init /\ [][Next]_vars

\* Cycles go on and every call of one is answered; a node that is asked for
\* its head again and again names the last block in the end, and a sweep of
\* that block that is tried again and again succeeds in the end.
LiveSpec ==
  /\ Spec
  /\ WF_vars(Begin) /\ WF_vars(EndCycle)
  /\ WF_vars(TailServed \/ TailFailed)
  /\ WF_vars(Pin \/ SweepGood \/ SweepMismatched \/ SweepFailed \/ SweepEmpty)
  /\ SF_vars(PinAt(head)) /\ SF_vars(SweepGood /\ sweep.block = head)

-----------------------------------------------------------------------------
(***************************************************************************)
(* Properties.                                                             *)
(***************************************************************************)
\* The longest time a tier waits.
Longest == IF SweepTtl > SweepBackoff THEN SweepTtl ELSE SweepBackoff

Slots == [block : 0..head, rows : Rows, stale : BOOLEAN]

\* Every variable keeps its type: a sweep that is shown is one of a block of
\* this chain.
TypeOK ==
  /\ head \in 1..MaxBlock /\ updates \in SUBSET (1..head)
  /\ pc \in {"down", "idle", "cycle"}
  /\ sweep \in [step : {"none", "asked", "pinned"}, block : 0..head]
  /\ tail \in {"none", "asked"} /\ seen \in 0..head /\ known \in SUBSET (1..head)
  /\ slot \in Slots /\ ok \in BOOLEAN /\ wait \in 0..Longest
  /\ shown \in [block : 0..head, rows : Rows, fresh : BOOLEAN]
  /\ disk \in 0..head /\ starts \in 0..MaxStarts
  /\ knew \in SUBSET (1..head) /\ since \in 0..SweepBackoff /\ best \in 0..head
  /\ lost \in BOOLEAN

\* What is shown as current is all of a sweep that passed its checks, over
\* failures, refused sweeps and restarts ("Nothing derived from an incomplete
\* sweep may be published", sweep_positions).
FreshIsWhole == shown.fresh => shown.rows = "whole"

\* An update known when a cycle began is never missing from what the cycle
\* shows as current, but for the blocks by which the pinning node is behind
\* the node of the logs (rule 8 of the manager).
FreshWithinLag ==
  pc = "idle" /\ shown.fresh => \A u \in knew : u <= shown.block + HeadLag

\* The positions shown are never older than positions shown before, by this
\* process or an earlier one, while files are kept ("publishing it would walk
\* the odds board backwards", set_sweep).
NeverShownOlder == shown.rows # "none" /\ ~lost => shown.block = best

\* A sweep follows a failed one sooner than the backoff only if a newer
\* BackingUpdated is known (mark_failed, note_backing_updated).
BackoffUnlessUpdated ==
  [][Begin /\ sweep'.step = "asked" /\ since' < SweepBackoff => Outdated(slot)]_vars

\* The board becomes current in the end, after any failures, unless the
\* dashboard is closed for good.
StaleIsRefreshed == (pc # "down") ~> (shown.fresh \/ pc = "down")

\* Nothing that is known to be outdated is presented as current: "nothing
\* downstream may present it as current" (invalidate_sweep).  The code does,
\* for one cycle: see the README.
InvalidatedNotCurrent ==
  pc = "idle" /\ shown.fresh => \A u \in known : u <= shown.block

\* The header names a mismatch only if a sweep has met one (_run_sweep).  The
\* code does for a node that does not answer: see the README.
MismatchNamesASweep ==
  [][ok /\ ~ok' => SweepMismatched]_vars
=============================================================================
