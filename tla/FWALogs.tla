------------------------------ MODULE FWALogs ------------------------------
(***************************************************************************)
(* The event history of the FWA dashboard: the full backfill, the tail and *)
(* the catch-up of src/maxpane_dashboard/data/fwa_manager.py over the log  *)
(* client of fwa_logs.py, and what of it survives in fwa_log_state.json.   *)
(*                                                                         *)
(* The file keeps only a window of the raw events, so all-time numbers are *)
(* a baseline, the totals up to the watermark of the file, plus the events *)
(* read beyond it.  A scan delivers all of its range or nothing.  That the *)
(* once tier has run is remembered in another file, the tiered cache.      *)
(***************************************************************************)
EXTENDS Naturals, FiniteSets

CONSTANTS
  Events,     \* all events of the history
  KindOf,     \* the type of each: "config", "draw" or "listed"
  ListingOf,  \* the NFTListed event each draw refers to
  MaxBlock,   \* bound: blocks of the chain
  StartBlock, \* the head when the dashboard is first started
  Window,     \* LOG_RAW_WINDOW_BLOCKS
  MinRows,    \* LOG_RAW_MIN_ROWS
  CatchupMax, \* LOG_CATCHUP_MAX_BLOCKS
  HeadLag,    \* blocks by which the head a node names may be behind
  LogLag,     \* blocks by which the logs of a node may be behind
  MaxStarts   \* bound: times the dashboard is started

Kinds == {"config", "draw", "listed"}

ASSUME LogsAssumption ==
  /\ IsFiniteSet(Events)
  /\ KindOf \in [Events -> Kinds]
  /\ ListingOf \in [{e \in Events : KindOf[e] = "draw"} -> {e \in Events : KindOf[e] = "listed"}]
  /\ MaxBlock \in Nat \ {0} /\ StartBlock \in 1..MaxBlock
  /\ Window \in Nat /\ MinRows \in Nat /\ CatchupMax \in Nat
  /\ HeadLag \in Nat /\ LogLag \in Nat /\ MaxStarts \in Nat

VARIABLES
  head,   \* chain: its last block
  at,     \* chain: the block of each event, 0 while it has not happened
  pc,     \* "down", "idle", "scan" or "end" (of a refresh cycle)
  scan,   \* the scan of this cycle: [full, from, to]
  onceDue,\* whether this cycle found the once tier due
  mem,    \* the log client and the manager's view of it
  once,   \* the once tier is marked fetched
  disk,   \* fwa_log_state.json
  mark,   \* fwa_cache.json holds the mark of the once tier
  starts

vars == <<head, at, pc, scan, onceDue, mem, once, disk, mark, starts>>

DeployBlock == 1  \* FWA_DEPLOY_BLOCK

NoScan == [full |-> FALSE, from |-> 0, to |-> 0]

\* Events of type k in a set, and those in the blocks beyond a floor.
OfKind(S, k) == {e \in S : KindOf[e] = k}
Beyond(S, floor) == {e \in S : at[e] > floor}

\* A client and a manager that have read nothing: the store and its
\* last_seen_block, _log_backfill_done, _catchup_done, _restored_last_seen,
\* _event_baseline (based if there is one) and its block, _wei_baseline.
Blank ==
  [store |-> {}, seen |-> 0, backfilled |-> FALSE, caughtUp |-> FALSE, restored |-> 0,
   based |-> FALSE, base |-> [k \in Kinds |-> 0], baseBlock |-> 0, wei |-> 0]

NoFile == [present |-> FALSE, store |-> {}, seen |-> 0, base |-> [k \in Kinds |-> 0], wei |-> 0]

-----------------------------------------------------------------------------
(***************************************************************************)
(* All-time numbers.                                                       *)
(***************************************************************************)
\* Mutant: the boundary block, which the tail reads again, is counted again.
FreshFromBase(m, k) ==
  OfKind(IF m.based THEN Beyond(m.store, m.baseBlock - 1) ELSE m.store, k)

\* What the baseline does not hold: strictly beyond its block.
Fresh(m, k) == OfKind(IF m.based THEN Beyond(m.store, m.baseBlock) ELSE m.store, k)

\* _all_time_event_counts
AllTimeCount(m, k) == (IF m.based THEN m.base[k] ELSE 0) + Cardinality(Fresh(m, k))

\* _all_time_event_wei, with one wei for every draw; 0 is "unknown" as well.
AllTimeWei(m) ==
  IF m.based /\ m.wei = 0 THEN 0 ELSE m.wei + Cardinality(Fresh(m, "draw"))

-----------------------------------------------------------------------------
(***************************************************************************)
(* The file (_windowed_log_state, _save_log_state, _load_state).           *)
(***************************************************************************)
Quarter(w) == IF w < 4 THEN 1 ELSE w \div 4

\* The windows a save may end with: shrunk three times, and then 0.
Windows == {Window, Quarter(Window), Quarter(Quarter(Window)),
            Quarter(Quarter(Quarter(Window))), 0}

\* The rows in the window, or the newest rows if those are too few.
Newest(rows, n) ==
  {K \in SUBSET rows :
     /\ Cardinality(K) = IF Cardinality(rows) < n THEN Cardinality(rows) ELSE n
     /\ \A x \in K, y \in rows \ K : at[x] >= at[y]}
Windowed(rows, floor, n) ==
  LET in == {e \in rows : at[e] >= floor} IN
  IF Cardinality(in) >= n THEN {in} ELSE Newest(rows, n)

\* Mutant: a listing is kept for its own block only.
ListedInWindow(S, floor, draws) == {e \in OfKind(S, "listed") : at[e] >= floor}

\* A listing is kept for its block or for a draw that is kept.
ListedKept(S, floor, draws) ==
  {e \in OfKind(S, "listed") : at[e] >= floor \/ e \in {ListingOf[d] : d \in draws}}

Retained(m) ==
  IF m.seen = 0 THEN {m.store}
  ELSE UNION {LET floor == IF m.seen > w THEN m.seen - w ELSE 0
              IN  {OfKind(m.store, "config") \cup draws \cup ListedKept(m.store, floor, draws) :
                     draws \in Windowed(OfKind(m.store, "draw"), floor, IF w > 0 THEN MinRows ELSE 0)} :
              w \in Windows}

\* Mutant: the baseline of the file is the one this run was started with.
SavedBaseAsLoaded(m) == m.base

\* The baseline of the file is what has been counted by now.
SavedBase(m) == [k \in Kinds |-> AllTimeCount(m, k)]

\* The files a save of m may leave.
Saved(m) ==
  {[present |-> TRUE, store |-> kept, seen |-> m.seen, base |-> SavedBase(m), wei |-> AllTimeWei(m)] :
     kept \in Retained(m)}

\* A restored history needs no backfill; its watermark may be far behind.
Loaded ==
  [Blank EXCEPT !.store = disk.store, !.seen = disk.seen, !.restored = disk.seen,
                !.backfilled = TRUE, !.based = TRUE, !.base = disk.base,
                !.baseBlock = disk.seen, !.wei = disk.wei]

-----------------------------------------------------------------------------
(***************************************************************************)
(* The chain.                                                              *)
(***************************************************************************)
\* A block with events; a draw is of something listed by then.
Grow ==
  /\ head < MaxBlock /\ head' = head + 1
  /\ \E mined \in SUBSET {e \in Events : at[e] = 0} :
       /\ \A d \in OfKind(mined, "draw") : at[ListingOf[d]] > 0 \/ ListingOf[d] \in mined
       /\ at' = [e \in Events |-> IF e \in mined THEN head + 1 ELSE at[e]]
  /\ UNCHANGED <<pc, scan, onceDue, mem, once, disk, mark, starts>>

\* The head a node names; 0 if none answers.
Heads == {0} \cup {h \in 1..head : h + HeadLag >= head}

-----------------------------------------------------------------------------
(***************************************************************************)
(* A cycle: which scan it makes (_scan_logs), if any.                      *)
(***************************************************************************)
chainVars == <<head, at>>

Begin(due, s) ==
  /\ pc = "idle" /\ pc' = IF s.to > 0 THEN "scan" ELSE "end"
  /\ onceDue' = due /\ scan' = s
  /\ UNCHANGED <<chainVars, once, disk, mark, starts>>

Full(to) == [full |-> TRUE, from |-> DeployBlock, to |-> to]

\* The tail begins at the watermark, or at the head if that is behind it.
Tail(to) == [full |-> FALSE, from |-> IF mem.seen < to THEN mem.seen ELSE to, to |-> to]

\* Nothing restored: the whole history.
BeginBackfill ==
  /\ ~once /\ ~mem.backfilled
  /\ \E to \in Heads : Begin(TRUE, IF to > 0 THEN Full(to) ELSE NoScan)
  /\ UNCHANGED mem

\* Restored: once per run, a watermark too far behind means the whole history.
BeginCatchUp ==
  /\ ~once /\ mem.backfilled /\ ~mem.caughtUp
  /\ mem' = [mem EXCEPT !.caughtUp = TRUE]
  /\ \E h \in Heads :
       IF h > mem.restored + CatchupMax THEN Begin(TRUE, Full(h))
       ELSE \E to \in Heads : Begin(TRUE, Tail(to))

\* The tail tier is due, the once tier is not, or has nothing left to do.
BeginTailAt(to) ==
  /\ \E due \in BOOLEAN :
       /\ due => ~once /\ mem.backfilled /\ mem.caughtUp
       /\ Begin(due, Tail(to))
  /\ UNCHANGED mem

BeginTail == \E to \in Heads : BeginTailAt(to)

BeginNothing ==
  /\ \E due \in BOOLEAN :
       /\ due => ~once /\ mem.backfilled /\ mem.caughtUp
       /\ Begin(due, NoScan)
  /\ UNCHANGED mem

-----------------------------------------------------------------------------
(***************************************************************************)
(* The scan, the end of the cycle, the end of the program.                 *)
(***************************************************************************)
\* The events of the scan that a node which is at block n has.
Delivered(n) == {e \in Events : at[e] > 0 /\ at[e] \in scan.from..scan.to /\ at[e] <= n}

\* backfill, in memory: what was delivered, and the watermark never falls.
Ingested(got) ==
  [mem EXCEPT !.store = @ \cup got,
              !.seen = IF @ < scan.to THEN scan.to ELSE @]

\* _full_backfill: the store is all-time now, so the baseline of counts goes.
Rebased(m) ==
  [m EXCEPT !.backfilled = TRUE, !.caughtUp = TRUE, !.based = FALSE,
            !.base = [k \in Kinds |-> 0], !.baseBlock = 0]

ScanServed ==
  /\ pc = "scan" /\ pc' = "end"
  /\ \E n \in {b \in 0..head : b + LogLag >= head} :
       LET read == Ingested(Delivered(n)) IN
       IF scan.full THEN /\ mem' = Rebased(read)
                         /\ disk' \in Saved(Rebased(read)) \cup {disk}
       ELSE mem' = read /\ UNCHANGED disk
  /\ UNCHANGED <<chainVars, scan, onceDue, once, mark, starts>>

\* No endpoint served all of the range: nothing of it is kept.
ScanFailed ==
  /\ pc = "scan" /\ pc' = "end"
  /\ UNCHANGED <<chainVars, scan, onceDue, mem, once, disk, mark, starts>>

\* The cycle marks the once tier if it was due, there is a history and the
\* hot batch has answered; the tiered cache is saved, if the disk lets it.
EndCycle ==
  /\ pc = "end" /\ pc' = "idle"
  /\ \E hot \in BOOLEAN : once' = (once \/ (onceDue /\ mem.backfilled /\ hot))
  /\ mark' \in {mark, once'}
  /\ scan' = NoScan /\ onceDue' = FALSE
  /\ UNCHANGED <<chainVars, mem, disk, starts>>

Down ==
  /\ pc # "down" /\ pc' = "down"
  /\ mem' = Blank /\ once' = FALSE /\ scan' = NoScan /\ onceDue' = FALSE
  /\ UNCHANGED <<chainVars, starts>>

\* close(), at any moment: both files are written, if the disk lets them.
Close ==
  /\ Down
  /\ mark' \in {mark, once}
  /\ disk' \in Saved(mem) \cup {disk}

Crash == Down /\ UNCHANGED <<disk, mark>>

\* Each file may have become unreadable; loading goes on without it.
Restart ==
  /\ pc = "down" /\ starts < MaxStarts
  /\ pc' = "idle" /\ starts' = starts + 1
  /\ once' \in {mark, FALSE}
  /\ mem' \in (IF disk.present THEN {Loaded} ELSE {}) \cup {Blank}
  /\ UNCHANGED <<chainVars, scan, onceDue, disk, mark>>

-----------------------------------------------------------------------------
Init ==
  /\ head = StartBlock
  /\ at \in [Events -> 0..StartBlock]
  /\ \A d \in OfKind(Events, "draw") :
       at[d] > 0 => at[ListingOf[d]] > 0 /\ at[ListingOf[d]] <= at[d]
  /\ pc = "down" /\ scan = NoScan /\ onceDue = FALSE
  /\ mem = Blank /\ once = FALSE
  /\ disk = NoFile /\ mark = FALSE /\ starts = 0

Next ==
  \/ Grow
  \/ BeginBackfill \/ BeginCatchUp \/ BeginTail \/ BeginNothing
  \/ ScanServed \/ ScanFailed \/ EndCycle
  \/ Close \/ Crash \/ Restart

Spec == Init /\ [][Next]_vars

\* Cycles go on; the tail tier comes due and the head is read, again and
\* again; a scan that is asked for again and again is served in the end.
LiveSpec ==
  /\ Spec
  /\ WF_vars(EndCycle) /\ WF_vars(ScanServed \/ ScanFailed)
  /\ SF_vars(BeginTailAt(head)) /\ SF_vars(ScanServed)

-----------------------------------------------------------------------------
(***************************************************************************)
(* Properties.                                                             *)
(***************************************************************************)
\* What a client and manager may hold, and what a file may.
Memory ==
  [store : SUBSET Events, seen : 0..head, backfilled : BOOLEAN, caughtUp : BOOLEAN,
   restored : 0..head, based : BOOLEAN, base : [Kinds -> Nat], baseBlock : 0..head, wei : Nat]
File ==
  [present : BOOLEAN, store : SUBSET Events, seen : 0..head, base : [Kinds -> Nat], wei : Nat]

\* Every variable keeps its type: no watermark is ahead of the chain.
TypeOK ==
  /\ head \in 1..MaxBlock /\ at \in [Events -> 0..head]
  /\ pc \in {"down", "idle", "scan", "end"}
  /\ scan \in [full : BOOLEAN, from : 0..head, to : 0..head]
  /\ onceDue \in BOOLEAN /\ once \in BOOLEAN /\ mark \in BOOLEAN
  /\ mem \in Memory /\ disk \in File
  /\ starts \in 0..MaxStarts

\* Events of type k in the blocks from..to.
Between(k, from, to) == {e \in Events : KindOf[e] = k /\ at[e] \in from..to}

\* With the window, the failures, the restarts and the lost files, an
\* all-time count is the number of events up to the watermark, of every type:
\* "correct across a windowed restore" (_all_time_event_counts).
CountsExact ==
  \A k \in Kinds : AllTimeCount(mem, k) = Cardinality(Between(k, 1, mem.seen))

\* A draw the feed can name stays named as long as it is kept: no save trims
\* its listing and not the draw, so no number of trims and restarts tells the
\* feed of a draw of nothing (retention rule 3 of _windowed_log_state).
NamedStaysNamed ==
  [][disk' # disk =>
       \A d \in OfKind(disk'.store, "draw") :
         ListingOf[d] \in mem.store \cup mem'.store => ListingOf[d] \in disk'.store]_vars

\* The totals are those of a prefix of the chain, and a restart resumes the
\* prefix of the last save: the history implements EventLedger.
Ledger == INSTANCE EventLedger WITH
  upto <- mem.seen,
  saved <- IF disk.present THEN disk.seen ELSE 0,
  total <- [k \in Kinds |-> AllTimeCount(mem, k)]
IsALedger == Ledger!Spec

\* Every event is counted in the end, however scans fail before, unless the
\* dashboard is closed for good.
EventuallyCounted ==
  \A e \in Events : at[e] > 0 ~> (at[e] > 0 /\ at[e] <= mem.seen) \/ pc = "down"

\* The ETH total agrees with the row count, or is unknown: "any divergence
\* between them would show up as an ETH total that disagrees with its own row
\* count" (_all_time_event_wei).  The code breaks it: see the README.
WeiMatchesCount == AllTimeWei(mem) \in {0, AllTimeCount(mem, "draw")}

\* A watermark too far behind is never tailed from (_scan_logs).  The code
\* does once the tiered cache remembers the once tier.
FarBehindIsRebuilt ==
  pc = "scan" /\ ~scan.full /\ mem.restored > 0 => scan.to <= mem.seen + CatchupMax

\* What is re-read in the boundary block is counted, with logs that lag.
BoundaryCounted ==
  \A k \in Kinds : AllTimeCount(mem, k) >= Cardinality(OfKind(mem.store, k))
=============================================================================
