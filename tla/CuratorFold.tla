----------------------------- MODULE CuratorFold -----------------------------
(***************************************************************************)
(* THE LIST: the deposit history of the curator dashboard, its watermark,  *)
(* the cross-check that repairs it and the latch of the settlement         *)
(* (src/maxpane_dashboard/data/curator_manager.py over curator_cache.py).  *)
(*                                                                         *)
(* A cycle reads the contract's state, sweeps the logs from the watermark  *)
(* on and starts the cross-check, which outlives the cycle: it diffs       *)
(* Blockscout's copy of the history with the fold and asks for a repair.   *)
(* A block holds one deposit at most, named by its block; the fold is a    *)
(* function of the deposits held and is not kept here.  Block 0 stands for *)
(* "no block" (None), and blocks are counted from the contract's creation. *)
(* Cycles do not overlap (RefreshGuard).                                   *)
(***************************************************************************)
EXTENDS Naturals, FiniteSets

CONSTANTS
  MaxBlock,    \* bound: blocks of the chain
  Deposits,    \* the blocks with a deposit
  SettleBlock, \* the block from which isSettled() answers True
  MaxStarts    \* bound: times the dashboard is started again

ASSUME CuratorAssumption ==
  /\ MaxBlock \in Nat \ {0} /\ SettleBlock \in Nat \ {0} /\ MaxStarts \in Nat
  /\ Deposits \subseteq 1..MaxBlock
  /\ \A b \in Deposits : b < SettleBlock  \* they revert once it is settled

VARIABLES
  head,      \* chain: its last block
  events,    \* the deposits held
  watermark, \* _last_seen_block
  dropped,   \* dropped_events is positive
  latch,     \* _settlement: the block of the observation in force, or 0
  asked,     \* _repair_from_block; _fold_stale is set and cleared with it
  degraded,  \* the logs are among the _failed_groups
  due,       \* the tiers that are due
  pc,        \* "idle", "state" or "logs": what the cycle awaits
  tiers,     \* the tiers this cycle found due
  from,      \* from_block of the sweep under way
  state,     \* _fast_state: the block it was read at, or 0
  check,     \* {} or {s}: a cross-check is under way, started with state s
  starts,
  withheld   \* history: what complete-looking answers left out, until it is held

logVars == <<events, watermark, dropped, withheld>>
cycleVars == <<pc, tiers, from, state>>
vars == <<head, logVars, latch, asked, degraded, due, cycleVars, check,
          starts>>

Blocks == 1..MaxBlock
chain == {b \in Deposits : b <= head}  \* the deposits made so far
Tiers == {"medium", "slow"}
Creation == 1

Init ==
  /\ head = 0
  /\ events = {} /\ watermark = 0 /\ dropped = FALSE /\ withheld = {}
  /\ latch = 0 /\ asked = 0 /\ degraded = FALSE /\ due = Tiers
  /\ pc = "idle" /\ tiers = {} /\ from = Creation /\ state = 0 /\ check = {}
  /\ starts = 0

-----------------------------------------------------------------------------
Mine ==
  /\ head < MaxBlock
  /\ head' = head + 1
  /\ UNCHANGED <<logVars, latch, asked, degraded, due, cycleVars, check, starts>>

(* Time: a tier's TTL or backoff runs out.                                 *)
Elapse(t) ==
  /\ t \notin due
  /\ due' = due \union {t}
  /\ UNCHANGED <<head, logVars, latch, asked, degraded, cycleVars, check, starts>>

-----------------------------------------------------------------------------
(* The cycle.                                                              *)

CycleBegins ==
  /\ pc = "idle"
  /\ pc' = "state" /\ tiers' = due
  /\ UNCHANGED <<head, logVars, latch, asked, degraded, due, from, state,
                 check, starts>>

\* Mutant: the latest observation is believed.
Believed(b) == IF b >= SettleBlock THEN b ELSE 0

\* observe_settlement: only a True latches, and only the first.
Observed(b) == IF latch = 0 /\ b >= SettleBlock THEN b ELSE latch

\* Mutant: the repair asked for is not looked at.
FromWatermark == IF dropped THEN Creation ELSE watermark + 1

\* _sweep_from_block: a marker of known loss wins, then a repair.
SweepFrom ==
  IF dropped THEN Creation
  ELSE IF asked # 0 THEN asked
  ELSE watermark + 1

\* _spawn_crosscheck, at the end of a cycle that has read state s.
Spawned(s) == IF "slow" \in tiers /\ check = {} THEN {s} ELSE check
CycleEnds(s) ==
  check' = Spawned(s) /\ pc' = "idle" /\ tiers' = {} /\ from' = Creation

\* The state, or the lack of it, was read at block b, or kept from the cycle
\* before where the fast tier is not due (that one was observed already).
StateRead(b) ==
  /\ pc = "state"
  /\ state' = b
  /\ latch' = Observed(b)
  /\ IF "medium" \in tiers
     THEN pc' = "logs" /\ from' = SweepFrom /\ UNCHANGED <<tiers, check>>
     ELSE CycleEnds(b)
  /\ UNCHANGED <<head, logVars, asked, degraded, due, starts>>

\* No head, or every filter died.
LogsRefused ==
  /\ pc = "logs"
  /\ due' = due \ {"medium"} /\ degraded' = TRUE
  /\ CycleEnds(state)
  /\ UNCHANGED <<head, logVars, latch, asked, state, starts>>

\* Mutant: the watermark passes a range a filter did not read.
AdvancedAnyway(to, covered) == IF to > watermark THEN to ELSE watermark

\* What a sweep to block `to` leaves; it has covered its range if all filters
\* lived and all rows decoded.  The marker of known loss is cleared only by a
\* sweep from the creation block that reaches the watermark, and while it is up
\* every sweep starts there.
Advanced(to, covered) == IF covered /\ to > watermark THEN to ELSE watermark

\* Mutant: any complete sweep clears the marker, however short.
ClearedBySweep(to, covered) == IF dropped THEN ~ covered ELSE FALSE
DroppedAfter(to, covered) ==
  IF dropped THEN ~ (covered /\ to >= watermark) ELSE FALSE
DegradedAfter(covered) == ~ covered

\* The rows that arrive are the deposits of from..to but those left out; the
\* spoilt ones do not decode.  Nothing arrives from a dead deposits filter.
LogsRead(to, dead, out, spoilt) ==
  LET range == {b \in chain : from <= b /\ b <= to}
      rows == IF dead = "deposits" THEN {} ELSE range \ out
      covered == dead = "none" /\ spoilt = {}
  IN
  /\ pc = "logs"
  /\ out \subseteq range /\ spoilt \subseteq rows
  /\ out # {} => covered
  /\ events' = events \union (rows \ spoilt)
  /\ watermark' = Advanced(to, covered)
  /\ dropped' = (DroppedAfter(to, covered) \/ spoilt # {})
  /\ withheld' = (withheld \union out) \ events'
  /\ degraded' = DegradedAfter(covered)
  /\ asked' = 0
  /\ due' = due \ {"medium"}
  /\ CycleEnds(state)
  /\ UNCHANGED <<head, latch, state, starts>>

-----------------------------------------------------------------------------
(* The detached cross-check.                                               *)

\* Mutant: a row above the watermark counts as missing.
AheadToo(to) == {b \in chain \ events : b <= to}

\* The rows of Blockscout, which has come as far as block `to`, that the fold
\* should hold and does not.
Missing(to) == {b \in chain \ events : b <= to /\ b <= watermark}

\* Mutant: the counter is compared whatever block it was read at.
ShortAtAnyBlock(s) == Cardinality(events) < Cardinality({b \in chain : b <= s})

\* Fewer deposits are held than the contract counted in the state of block s.
Short(s) ==
  watermark >= s /\ Cardinality(events) < Cardinality({b \in chain : b <= s})

\* gap_block, where the repair must start, 0 if there is nothing to repair.
Gap(to, s, gap) ==
  IF Short(s) THEN gap = Creation
  ELSE IF Missing(to) = {} THEN gap = 0
  ELSE gap \in Missing(to) /\ \A b \in Missing(to) : gap <= b

\* Mutant: a gap is not noted, the next sweep will note it.
LeftToTheSweep(gap) == degraded
DegradedBy(gap) == degraded \/ gap # 0

\* The answer: rows up to block `to`, where 0 is none; only an answer makes the
\* tier wait its TTL, but a failure makes it wait as well.
CheckLands(to) ==
  \E s \in check, gap \in 0..MaxBlock :
    /\ Gap(to, s, gap)
    /\ asked' = IF gap # 0 THEN gap ELSE asked
    /\ degraded' = DegradedBy(gap)
    /\ due' = (due \ {"slow"}) \union (IF gap # 0 THEN {"medium"} ELSE {})
    /\ check' = {}
    /\ UNCHANGED <<head, logVars, latch, cycleVars, starts>>

-----------------------------------------------------------------------------
(* The end of a session, which saves, and the next one.  Neither the repair *)
(* asked for nor the marks of the tiers are saved, and rows of the file may *)
(* have gone bad.  A killed session leaves the file of the last exit: the   *)
(* next starts as if the killed one had done nothing.                       *)

Restored(bad) == events \ bad

\* Mutant: bad rows of the file are skipped without a mark.
LossForgotten(bad) == dropped
DroppedIn(bad) == dropped \/ bad # {}
Latched == latch

Restart(bad) ==
  /\ starts < MaxStarts
  /\ starts' = starts + 1
  /\ bad \subseteq events
  /\ events' = Restored(bad) /\ dropped' = DroppedIn(bad)
  /\ latch' = Latched
  /\ asked' = 0 /\ degraded' = FALSE /\ due' = Tiers
  /\ pc' = "idle" /\ tiers' = {} /\ from' = Creation /\ state' = 0 /\ check' = {}
  /\ UNCHANGED <<head, watermark, withheld>>

-----------------------------------------------------------------------------
AnyState == \E b \in 0..head : StateRead(b)
KeptState == StateRead(state)
AnyLogs ==
  \E to \in 0..head, dead \in {"none", "deposits", "other"},
     out, spoilt \in SUBSET chain : LogsRead(to, dead, out, spoilt)
AnyCheck == \E to \in 0..head : CheckLands(to)

Next ==
  \/ Mine
  \/ \E t \in Tiers : Elapse(t)
  \/ CycleBegins
  \/ AnyState
  \/ KeptState
  \/ AnyLogs
  \/ LogsRefused
  \/ AnyCheck
  \/ \E bad \in SUBSET Blocks : Restart(bad)

Spec == Init /\ [][Next]_vars

\* The timer starts cycles, which do not wait for ever for the state, and tiers
\* come due.  Of the network: a range that is asked for again and again is one
\* day answered in full, and so is Blockscout's copy, at a time when no cycle
\* is under way (a check takes minutes, a cycle seconds).
WholeLogs(b) == from = b /\ LogsRead(head, "none", {}, {})
WholeCheck == pc = "idle" /\ CheckLands(head)
Fairness ==
  /\ WF_vars(CycleBegins \/ AnyState)
  /\ \A t \in Tiers : WF_vars(Elapse(t))
  /\ \A b \in 1..(MaxBlock + 1) : SF_vars(WholeLogs(b))
  /\ SF_vars(WholeCheck)
LiveSpec == Spec /\ Fairness

-----------------------------------------------------------------------------
(* Types.                                                                  *)
TypeOK ==
  /\ head \in 0..MaxBlock
  /\ events \subseteq chain /\ withheld \subseteq chain
  /\ watermark \in 0..head /\ dropped \in BOOLEAN /\ latch \in 0..head
  /\ asked \in 0..watermark
  /\ degraded \in BOOLEAN /\ due \subseteq Tiers
  /\ pc \in {"idle", "state", "logs"} /\ tiers \subseteq Tiers
  /\ from \in 1..(watermark + 1)
  /\ state \in 0..head /\ check \subseteq 0..head
  /\ starts \in 0..MaxStarts

(* Every deposit up to the watermark is held, unless an endpoint left it   *)
(* out of an answer that looked complete, or the loss marker is up: no     *)
(* dead filter, undecodable row, lagging endpoint, damaged file, kill or   *)
(* repair makes the sweep skip a block for good (_pool_logs, _refold).     *)
NothingSkipped ==
  \A b \in chain : b <= watermark => b \in events \/ b \in withheld \/ dropped

(* While the fold is known to be short the title says so: nothing clears   *)
(* the logs' degradation and leaves the repair open (_pool_crosscheck,     *)
(* "`degraded` is how the user is told").                                  *)
StaleIsDegraded == asked # 0 => degraded

(* A repair is asked for only when a deposit below the watermark really is *)
(* missing: Blockscout being ahead, or the contract's counter being newer  *)
(* or older than the fold, raises no phantom gap.                          *)
RepairHasCause ==
  [][asked' \notin {0, asked} =>
       \E b \in chain : asked' <= b /\ b <= watermark /\ b \notin events]_vars

(* The verdict is final and keeps its evidence: neither a later reading of *)
(* a lagging or failed endpoint nor a restart changes the observation that *)
(* was latched (observe_settlement, _load_settlement).                     *)
VerdictStays == [][latch # 0 => latch' = latch]_vars

(* Every deposit is held in the end, whatever was left out on the way.     *)
GapsClose == \A b \in Deposits : b \in chain ~> b \in events

(* Is a repair, once asked for, given up only after a sweep that started   *)
(* there and covered its range?  _pool_crosscheck: "the fold is stale      *)
(* until the repair sweep lands".                                          *)
RepairLands ==
  [][asked # 0 /\ asked' = 0 /\ starts' = starts =>
       from <= asked /\ ~ degraded']_vars

=============================================================================
