# MaxPane in TLA+

MaxPane is a set of read-only terminal dashboards for games that live on
chains. It reads public RPC endpoints and web APIs that lag, refuse, time out
and contradict each other, counts what it reads in caches that outlive the
process, and draws. What can go wrong is seldom in one line: an event is lost
because a watermark passed it, or counted twice because it did not; a sum is
compared with a number read at another moment; a refresh kills the one before.
These modules model that part of the program, TLC checks them on small
instances, and TLAPS proves the main theorems for all instances.

Paths below are relative to `src/maxpane_dashboard/` unless they begin with `src/`.

## The system

```
  app.py ──push/switch──> screens (DashboardScreen + RefreshGuard)
    │ prefetch                 │ fetch_and_compute, one at a time
    └──────────────┬───────────┘
                   v
        *_manager  ──>  *_client ──> endpoints (rotation, retry, log paging)
            │                │
            v                └─ rpc_classify: what a refusal means
        *_cache <──load/save──> ~/.maxpane/*.json  (temporary file + rename)
            │
            └──> analytics ──> payload dict ──> widgets
```

Everything runs in one asyncio loop. Concurrency is what happens at an
`await`: another screen's refresh, a timer tick, a key, the prefetch, a
detached task of a manager, `close()` at quit. The one exception is a save in a
thread (`asyncio.to_thread`).

| Component | State | Operations | What is hard | What makes it correct |
| --- | --- | --- | --- | --- |
| Application shell (`app.py`) | screen stack, 14 managers, prefetch worker | prefetch, select, switch, menu, quit | the prefetch and a screen want the same manager; quit while work runs | a manager is fetched from once at a time; nothing starts after the exit |
| Refresh guard, screens (`screens/refresh_guard.py`, `dashboard_screen.py`) | `_refresh_in_flight`, `_refresh_timer`, a worker | resume, suspend, tick, key, refresh | overruns of the interval, cancellation at each await, fast navigation | no wedge, no livelock, no leaked timer |
| TTT scan (`data/ttt_*.py`) | three watermarks, ring of event keys, totals, tokens | scan by topic, apply, advance, close, load, migrate | refused pages, reorganisations, lagging nodes, crash, a bounded ring | no event behind a watermark is lost or counted twice |
| Talismans log paging (`data/talismans_client.py`, `rpc_classify.py`) | learned window, page cursor, endpoint, attempt | ask, retry, rotate, shrink, grow, stop | wording of refusals, suggestions, nested retries | what is reported was delivered; the window never collapses for good |
| Talismans cycle (`data/talismans_manager.py`, `talismans_cache.py`) | known ids, registry, watermark, counters, baseline | read, seed, scan, sweep, judge, save | reads of different moments are compared; partial failure; restart | baseline and alarm are right; counters agree with the watermark |
| Persistence (every `*_cache.save_to_file`) | file, temporary file, a save in a thread | save, load | crash or disk error in the middle, two writers | the file is always the last whole save |
| FWA (`data/fwa_*.py`) | tiers with backoff, a sweep pinned to a block, event store, two files | refresh, sweep, backfill, tail, trim, load | nodes at different blocks, refused sweeps, two files saved apart, trims of trims | all-time counts are those of the chain; the board never goes back and what it calls current is whole |
| THE LIST (`data/curator_*.py`) | deposit history, watermark, loss marker, repair request, settlement latch | observe, sweep, cross-check, save, load | a check that outlives its cycle, answers that leave rows out, damaged files | no deposit is skipped unnoticed; gaps close; settled stays settled |
| Surf (`data/surf_*.py`) | one task per slow read, tiers, the picked seat and its marks | spawn, replace, publish, mark, close | a read outlives its cycle and its question | every task is held, stopped at the end, and speaks of its own question |
| FrenPet (`data/frenpet_*.py`) | four managers, one cache | refresh, save | four writers of one file | the last writer has the newest state |
| Base, Cat Town, OCM, DOTA, bakery | a snapshot, hourly samples | refresh | little | samples only of what was read |
| Rust launcher (`src/maxpane/src`) | phase of the intro, terminal mode | keys, resize, exec | the terminal is restored on every exit | – |
| sybilkit (`src/sybilkit`) | none, offline | read, cluster, report | – | clusters are the components of the signal graph |
| Analytics, widgets, ABI helpers, scripts | none that lasts | – | – | unit tests |

`PROJECT.json` has the same list with what is modelled of each, and the hazards
line by line.

## The modules

Each component module has a `MC...` module with the constants that a `.cfg`
cannot hold, and configurations named after it. Operators marked `Mutant:` are
plausible bugs, defined next to the code's operator of the same parameters;
putting one in its place must break a property, which is how we know that the
property speaks of the code.

### TTTScan – the incremental event scan

`mem` is `TTTCache` (watermarks `mark`, the ring `ring`, the `tokens`, and per
event key how often it was counted), `disk` the file, `scan` the locals of
`_advance`/`_get_logs` for the topic at hand, `pc` where the coroutine waits.
Actions are what runs between two awaits: `BeginCycle`, `PageOk`, `PageRefused`,
`ScanRaised` (`ttt_client._get_logs` and its callers), `ApplyEvent`,
`AdvanceMark`, `Close`, `Crash`, `Restart`. `Grow` and `Reorg` are the chain: a
page may be answered by a node up to `LogLag` blocks behind, the head by one up
to `HeadLag` behind, the last `ReorgDepth` blocks may be replaced. `Loaded`
includes the migration of a version 1 file; `Saved` cuts the ring.

Promise, and theorem: an event `Margin` blocks behind its topic's watermark, at
no block given up on purpose, is counted, in memory and in what the file would
restore (`EventsCovered`). With it: no sighting counts twice while the ring reaches
far enough (`CountedAtMostOnce`), blocks are given up only beyond the look-backs
(`SkippedOnlyBeyondLookback`), the watermark falls back by less than the margin
(`BoundedRegress`), and every settled event is counted in the end
(`EventuallyCounted`).

### LogPager – one log scan of the Talismans client

The page (`cursor`, `end`, `shrinks`), the walk of `_rpc` over endpoints and
attempts (`ep`, `attempt`, `chosen`), and what outlives a scan (`window`,
`okPages`). An endpoint answers, refuses in one of the classified kinds, or does
not answer; `Style` and `Cap` say how it refuses. Each answer is one action that
includes all that follows from it without another request: classification, the
choice of the failure to raise, shrinking, growing, the next page or the end.
`LimitsNeverStop` and `WindowKeepsHalf` are about refusals that name a limit and
suggest nothing (`Hints = {}`); with suggestions the endpoint may name any block.
Requests may also go unanswered; `silent` remembers that one did in this scan,
which then may stop.

`RangeScan` is the abstract specification: a scan is one question and one report,
the report names a block of the range or the one in front of it, and every block up to
there was delivered once. `LogPager` implements it (`IsAScan`), with what is delivered
while pages are under way hidden: only the report counts for the caller.

### RefreshGuard – when a dashboard fetches

Per screen: the worker's place, `_refresh_in_flight`, the number of live timers
and whether `_refresh_timer` names one, and the lifecycle messages Textual has
posted and the screen has not handled. The app: which screen is on top, the
prefetch, the shutdown. Textual is external: messages are handled in order,
workers are cancelled at exit, the message queue is cut at `MaxMail`. The
screen stack is reduced to its top, so a dialog that is popped in place of a
screen is not covered.

### AtomicSave – from a cache to its file

Inodes, names and descriptors, a text written block by block, `os.replace`. The
writers are the throttled save in its thread and the save of `close()`.
`Overlap` says whether they may run at the same time. The model is written from
the Talismans cache; the other caches use the same three calls.

`SavedFile` is the abstract specification that the other modules take for granted,
whose saves are one step: a save puts the state in memory on disk as a whole or does
nothing, and a start takes what is on disk. `AtomicSave` implements it when saves take
turns (`SavesAreWhole`), with `OnDisk`, what a start would read, for the file.

### TalismansCycle – counting tokens and judging conservation

The chain does operations (`Bond`, `Cleave`) while a cycle reads head and flags
in any order, seeds ids from the allocator, scans operations up to whatever
block the pager reached, sweeps the known tokens in chunks and settles: baseline,
verdict, perhaps a save. The pager is used by its promise, `RangeScan`, which
`TalismansIOProofs` proves of it: it reports exactly as far as it delivered. An individual read
that reverts inside a multicall that succeeded is left out, and so are
reorganisations; an operation already known is not counted again, so the counted
operations are a set. History variables: `moved` counts operations in the cycle
(to 2), `cache.first` the first block ever scanned, `cache.movedThen` what
`moved` was when the baseline was set.

### FWALogs and EventLedger – the event history of the FWA dashboard

`mem` is the log client's store and watermark with the manager's baseline of
what the store no longer holds, `disk` and `mark` the two files: the windowed
history, and the tiered cache that remembers that the backfill has run. A cycle
reads a head (`Begin...`), scans (`ScanServed`, `ScanFailed`: a scan delivers all
of its range or nothing) and ends (`EndCycle`); a backfill saves the history at
once, `Close` saves both. `Retained` is the whole of `_windowed_log_state`: the
window, the floor of rows, the listings a kept draw refers to, and the windows a
file that is too large is shrunk to.

`EventLedger` is the abstract specification: the totals are those of one prefix of
the chain, reading makes it longer, a stop forgets it, a start resumes the prefix
saved last. `FWALogs` implements it (`IsALedger`) with `upto <- mem.seen`,
`saved <- disk.seen` and the totals computed from baseline and store.

### FWASweep – the position sweep

`sweep` is pool A of a cycle (asked for, pinned to a block), `tail` pool B that
reads the logs at the same time, `slot` the cached sweep, `shown` the payload.
`Accepted` is the refusal of rewinds, `Noted` the invalidation by a later
`BackingUpdated`, `Failed` the backoff. Time passes in refresh intervals
(`wait`). A sweep that fails its checks is stored and shown, never as current.

### SurfReads – the reads Surf does not wait for

Per tier: whether it is due, whether a task is held, how many cancelled tasks have
not unwound, and whether a live task was lost (`adrift`, which must stay 0). The
selected seat's read has its token and its follow-ups (`stage`). A cycle captures
the due tiers, awaits the chain, spawns, gathers and publishes; between any two
of these the reader may pick a seat, a task may end, `close()` may begin. Sweeps
offered before and after the gather are `Early` and `Late`. The runtime task, which
is not tied to a tier, is left out.

### CuratorFold – the deposit history of THE LIST

Block 0 stands for `None`; a block holds at most one deposit; the fold is a function
of the deposits held and is not kept. `LogsRead` is one sweep with everything that
may be wrong with it: a filter that died, rows left out of an answer that looks
whole, rows that do not decode. `CheckLands` is the answer of the detached
cross-check with the state it was started with, at any later moment. A killed
session did nothing that lasts, as only `close()` saves, so `Restart` covers it.
The state may be the one kept from an earlier cycle (`KeptState`). First deposits,
the hourly series, the analysis and the names are left out.

## What is checked

| Run | Configuration | Properties | Result |
| --- | --- | --- | --- |
| ttt_any | TTTScanAny | EventsCovered, CountedAtMostOnce, SkippedOnlyBeyondLookback, BoundedRegress | pass |
| ttt_live | TTTScanLive | EventuallyCounted | pass |
| pager_any | LogPagerAny | IsAScan, ScanEnds, WindowRecovers | pass |
| pager_limits | LogPagerLimits | WindowKeepsHalf, LimitsNeverStop | pass |
| guard_screens | RefreshGuardScreens | OneFetchPerManager, NeverWedged, OneTimer, NoFetchAfterExit, KeepsRefreshing, HiddenScreenStops | pass |
| save_turns | AtomicSaveTurns | FileIsLastSave, SavesAreWhole | pass |
| cycle | TalismansCycleLive | BaselineNeedsTwo, CountedToMark, AlarmNeedsTwo, EventuallyJudged | pass |
| fwa_logs | FWALogsHistory | CountsExact, NamedStaysNamed, IsALedger | pass |
| fwa_sweep | FWASweepBoard | FreshIsWhole, FreshWithinLag, NeverShownOlder, BackoffUnlessUpdated, StaleIsRefreshed | pass |
| surf | SurfReadsSeats | NoneAdrift, MarkIsLastRead, QuietWhenClosed, PendingResolves, PickIsRead | pass |
| curator | CuratorFoldHistory | NothingSkipped, StaleIsDegraded, RepairHasCause, VerdictStays, GapsClose | pass |
| curator_repair | CuratorFoldRepair | RepairLands | violated |

The type invariants of the modules are proved (below) rather than listed in
a run; `CycleTypeOK` and `CountInv` are in `TalismansCycleCount`, `IInv` and `TypeOK` of
the scan in `TTTScanLags`.

The violated run is a disagreement between a comment and the code, listed under
`findings` with both lines:

* **curator_repair** – `_pool_logs` clears the repair request and the stale flag after
  any sweep that returned something: also one with a dead filter or rows that did
  not decode, and one that was in flight, from the watermark on, when the detached
  cross-check made the request, though "the fold is stale until the repair sweep
  lands". Until the next cross-check `full_list_rows` may export a list with a gap
  that was known. `GapsClose` shows that the gap is closed in the end all the same.

### Further configurations

Not among the runs; each takes seconds or a few minutes. Three pass and show
the properties of a run in another instance: `TTTScanLags` (one token, nodes that
serve a page without its last block, two restarts: all of `ttt_any` and `IInv`),
`TTTScanChunks` (two tokens and four events), `TalismansCycleCount` (two tokens, a
look-back of one block).

The others reproduce a limit of the code that the properties above are worded
around. TLC finds all of them violated:

* `TTTScanPartial` (`NoBlockSkipped`) – after a backfill cut short, the next scan
  starts at most `_INCREMENTAL_LOG_LOOKBACK` behind the head (`ttt_manager.py:510`), so
  the blocks between are never read, though "no block is ever skipped over" (:536).
* `TTTScanLateToken` (`EveryBuybackCounted`) – Bought has one watermark for all
  tokens; a token found late has lost its earlier buybacks.
* `TTTScanReorg` (`OneCountPerTransaction`) – an event key holds the block
  number, so a transaction that a reorganisation moves is counted twice.
* `TTTScanRing` (`OverlapRingSuffices`) – three topics share one ring; the
  backlog of one evicts the overlap of another.
* `AtomicSaveQuit` (`NeverTorn`) – `close()` (`talismans_manager.py:321`) and the
  thread's save write one temporary file at the same time and can leave a torn
  cache, with no crash and no disk error, though "there is no second writer" (:309).
* `TalismansCycleBaseline` (`BaselineIsTotal`) – a cleave between the read of the
  supply and the scan, and a bond during the sweep, make the count agree by
  coincidence; a sum that was never true becomes the baseline for good and the
  alarm stays on. Two operations within one cycle are needed: `BaselineNeedsTwo`
  shows that one operation and any failures never do it.
* `TalismansCycleLag` (`NoBlockPassed`) – the Talismans scan has no margin; an
  endpoint one block behind makes the watermark pass a block never read. The
  other configurations of the cycle have `Lag = 0`, as has `CountersMatchWatermark`;
  what a lag leaves true is `NothingCountedAhead`.
* `FWALogsWei` (`WeiMatchesCount`) – a full backfill drops the baseline of counts
  and keeps that of wei (`fwa_manager.py:1365`), so the ETH total and the row count,
  which the docstring at :713 keeps together, part after a rebuild.
* `FWASweepCurrent` (`InvalidatedNotCurrent`) – the stale flag is captured before the
  updates of the same cycle are applied and used at `fwa_manager.py:1669`; for one
  cycle the payload calls current what "nothing downstream may present" as such
  (`fwa_cache.py:520`).
* `SurfReadsSpaced` (`RetriesAreSpaced`) – the due tiers are captured at the start of a
  cycle (`surf_manager.py:6962`) and used after awaits; a sweep that ends in between,
  with a failure too, is started again at once, past the backoff.
* `SurfReadsNext` (`NextCycleReads`) – `set_seat` makes the tier due "so the next cycle
  reads it"; the end of a read of another seat puts it off again. `PickIsRead` shows
  that the pick is read all the same.
* `SurfReadsQuit` (`QuietAlways`) – a cycle that is under way while `close()` awaits one
  task after the other starts new ones, which nobody stops.

Four more statements stand in the modules with the reason why the code does not
keep them, without a configuration: `FarBehindIsRebuilt` (once the tiered cache
remembers the once tier, a far watermark is tailed from, not rebuilt),
`BoundaryCounted` (with logs one block behind the head, an event of the boundary
block is stored by the next tail and not counted; `CountsNeverExceed` is what stays
true), `MismatchNamesASweep` (an RPC that
does not answer shows as an invariant mismatch), and, the other way round,
`FWALogs!EventuallyCounted`, which holds under the fairness given there.

Other things met on the way: the seat's backoff is passed over when the roster's
favourite alternates between two seats that fail; a sweep that raises leaves its
tier due; a cancellation of the refresh worker while it waits in
`_cancel_swarm_seat` is swallowed; the FWA backoff is lost while a newer update is
known; a first backfill that fails leaves the tail to start at block 0;
`FWAManager.close()` stops `_floor_task` and not `_name_task`; a repair request of the
curator is not saved.

### Bounds

* *TTTScan*: `ttt_any` has two launches and a buyback of two tokens over four
  blocks, pages of two blocks, address chunks of one, a look-back of two, margin and
  reorganisation depth 1, a head that lags one block, one reorganisation and a
  start. That is enough for an event on both sides of a page boundary, of the
  margin and of each look-back, for two topics to differ and for one chunk to stop
  before the other. `ttt_live` has one token and two restarts: with two tokens, two
  flaky chunks must succeed in one cycle for a topic to move, which no fairness
  for a single page gives. Counts stop at 2.
* *LogPager*: four blocks for endpoints that answer anything and suggest 1 or 3
  blocks, 10 for limits, so a window can be halved three times and grow back past
  a page boundary.
* *RefreshGuard*: three screens, one manager each, and two unhandled messages
  each, two timers per screen (`MaxTimers`): a second timer is the failure, a
  third adds nothing.
* *AtomicSave*: bodies of two blocks with a time stamp of one or two in front:
  the smallest texts of which one can end inside the other. Two crashes, three
  states of the cache.
* *TalismansCycle*: two operations, as one shows nothing (`BaselineNeedsTwo`) and
  two show everything; tokens of two and one cores, chunks of two, so a sweep has
  three chunks in
  `TalismansCycleCount`; `cycle` has one token, a look-back of none, and two starts.
* *FWALogs*: a listing, two draws that refer to it, four blocks of which two are
  there at the start, a window of one block and a floor of one row so that trims
  take something, a catch-up limit of one block, three starts: a trim of a trim.
  `LogLag = 0`; the head lags by one block.
* *FWASweep*: three blocks with or without an update, heads one block behind, TTL and
  backoff of two intervals and cycles one or two intervals apart, two starts.
* *SurfReads*: two seats, one change of the reader or the roster (a second only
  repeats the first: the slot keeps one record, so one change already drops one),
  one sweep besides the seat. More sweeps behave alike and independently.
* *CuratorFold*: two deposits, the settlement in a third block, one restart; a gap
  below, at and above the watermark, and one that a restart forgets, fit in it.

`CHECK_DEADLOCK FALSE` stands where the bounds end the behaviour or where the
app has exited.

### Fairness

* *TTTScan*: the poll timer starts cycles and the loop resumes what is ready
  (weak); for every topic, a page that is asked for again and again is answered
  in the end (strong), as an endpoint that never answers cannot be caught up with.
* *LogPager*: a request ends, by its timeout at the latest (weak). That nothing
  fails any more from some point on is the action `ClearUp`, which need not happen;
  the liveness properties say what follows if it does.
* *RefreshGuard*: a worker's steps, the handling of messages, ticks of a live
  timer and the prefetch (all weak: requests have timeouts, the loop is fair).
  No fairness for any key.
* *FWASweep*: a cycle goes on and its calls are answered (weak); asked again and
  again, a node one day names the last block and a sweep of that block succeeds
  (strong): without the first a lagging node could be the only one for ever.
* *SurfReads*: cycles, the reads of a task, the unwinding of a cancelled one and the
  time of the seat's tier (all weak). None for the reader or for the sweeps.
* *CuratorFold*: cycles and time (weak); a range asked for again and again from the
  same block is one day answered in full, and so is Blockscout's copy at a moment
  when no cycle runs (strong: a check takes minutes, a cycle seconds).
* *TalismansCycle*: the steps of a cycle and the start (weak). Operations end
  with `MaxOps`: the verdict is for a chain that comes to rest, which a busy one
  need not have.

## What is proved

Proved by TLAPS for all values of the constants under the modules' assumptions:

| Theorem | Module | Says |
| --- | --- | --- |
| IInvariant, TypeCorrect, NoEventLost, OnlyTheOldIsSkipped, RegressIsBounded | TTTScanProofs | `Spec => []IInv`, `[]TypeOK`, `[]EventsCovered`, `[]SkippedOnlyBeyondLookback`, `BoundedRegress` |
| NoneCountedTwice, TotalsCountOnce | TTTScanProofs | `[]RingReaches => []CountedAtMostOnce` and `[]RingReaches => []TotalsAreExact`, if a page is no shorter than the margin |
| PagerInvariant, PagerTypes, ReportedIsDelivered, PagerIsAScan, ScansAreBounded | TalismansIOProofs | `[]IInv`, `[]TypeOK`, `[]ReachIsDelivered`, the refinement `IsAScan`, `EveryAnswerCounts` |
| HalfIsKept, WindowNeverCollapses, ScansNarrow, LimitsStopNoScan | TalismansIOProofs | `[]HalfInv`, `[]WindowKeepsHalf` if refusals name limits, `[]NarrowInv`, `[]LimitsNeverStop` |
| SaveInvariant, FileHoldsLastSave, SaveIsAtomic | TalismansIOProofs | of AtomicSave, if saves take turns (`Overlap = FALSE`): `[]SaveInv`, `[]FileIsLastSave`, the refinement `SavesAreWhole` |
| GuardInvariant, SingleFlight, NoScreenWedged, ExitIsFinal, TimersAreSingle | RefreshGuardProofs | `[]GuardInv`, `[]OneFetchPerManager`, `[]NeverWedged`, `NoFetchAfterExit`, `[]OneTimer` |
| CycleInvariant, NothingCountedAhead, CycleTypes | TalismansCycleProofs | `[]CountInv`, `[]NothingAhead`, `[]CycleTypeOK`, for every lag |
| CountersMatchWatermark | TalismansCycleProofs | `[]CountedToMark`, if no endpoint lags behind the head it named (`Lag = 0`) |
| ConserveInvariant, BaselineIsTrusted, AlarmIsMeant | TalismansCycleProofs | `[]ConserveInv`, `[]BaselineNeedsTwo`, `AlarmNeedsTwo`, whether nodes lag or not |
| HistoryInvariant, HistoryTypes, DrawsStayNamed, CountsNeverExceed | FWALogsProofs | `[]IInv`, `[]TypeOK`, `NamedStaysNamed`, `[]CountsBounded`, for every lag of the logs |
| CountsAreExact, HistoryIsALedger | FWALogsProofs | `[]CountsExact` and the refinement `IsALedger`, if logs do not lag behind the head (`LogLag = 0`) |
| SweepInvariant, SweepTypes, CurrentIsWhole, CurrentWithinLag, BoardNeverOlder, FailuresBackOff | FWASweepProofs | `[]IInv`, `[]TypeOK`, `[]FreshIsWhole`, `[]FreshWithinLag`, `[]NeverShownOlder`, `BackoffUnlessUpdated` |
| SurfInvariant, SurfTypes, NoTaskIsLost, MarksAreTrue, CloseIsQuiet | SurfReadsProofs | `[]IInv`, `[]TypeOK`, `[](NoneAdrift /\ OneSeatAsked)`, `[]MarkIsLastRead`, `[]QuietWhenClosed` |
| FoldInvariant, FoldTypes, NoDepositSkipped, ShortfallIsShown, NoPhantomRepair, VerdictIsFinal | CuratorFoldProofs | `[]IInv`, `[]TypeOK`, `[]NothingSkipped`, `[]StaleIsDegraded`, `RepairHasCause`, `VerdictStays` |

*TTTScan.* `EventsCovered` speaks of the watermark only, and is not inductive: a
watermark moves at the end of a scan because of pages read at its beginning.
`IInv` adds what holds inside a scan: while pages are fetched, every settled event
of the blocks passed is in the batch (`FetchInv`); while they are applied, it is
in the rest of the batch or counted (`ApplyInv`); and a key in the ring is
counted (`RingIsCounted`), so suppressing it loses nothing. "Settled" means deep
enough that neither a reorganisation nor a lagging node can hide it, which is
where `MarginAssumption` (the margin is at least as deep as both) comes in.
Lemmas state what each helper keeps: `CountOnce`, `Apply`, `Saved`, `Advanced`, the
chain's steps. What is given up and how far a watermark falls back need one fact
more (`LossInv`): until a topic's scan ends, its start is the one the cache's own
watermark and the head read give, so nothing moved either in between.

`CountedAtMostOnce` rests on the ring, and on more of it than the comment at
`ttt_cache.py:77` asks ("Only has to cover the overlap between two consecutive
scans"): `TTTScanRing` shows that to be too little. What suffices is `RingReaches`:
a key is dropped, from the ring or from its saved tail, only when it is out of
reach, that is a margin behind its own topic's watermark, a margin and `HeadLag`
behind the head, and, during a scan, a margin behind the page. The theorem has it
as a hypothesis on the behaviour and not on the constants, as how many events a
margin of blocks holds is up to the chain; with 5000 keys held, 2000 saved and a
margin of 12 blocks it is what the code relies on. `OnceInv` says of each copy of
the cache (memory, and the file as it would be loaded) that a counted key is in
the ring or out of reach, and of the scan under way that its pages reach back no
further. A watermark that falls back does so to a head that was read, which is where
`HeadLag` comes in. A page has to be no shorter than the margin because a refused
page puts the watermark at the page before it; it is 10,000 blocks in the code
(`ttt_client.py:192`).

`TotalsAreExact` joins the three: an event at a block that is `Due` is counted exactly
once, in memory and in what the file would restore. `Due` speaks of the watermark, the
look-backs and the head only, so the statement does not lean on the history variable
for what was given up: `OnlyTheOldIsSkipped` shows that no such block was.

*LogPager.* The invariant says that the pages tile the scan: what is delivered is
exactly the blocks below the cursor, once each. `IsAScan` follows, step by step: what
happens between the question and the report is a stutter of `RangeScan`. That a scan
ends is liveness, but its safety part is proved: `EveryAnswerCounts` says that an answer
which does not end the scan leaves `RequestsLeft`, a natural number, smaller. It counts
the blocks left, then the shrinks of the page, the endpoints and the attempts, like the
digits of a number. `ClearUp` is not an answer and leaves it alone. `WindowKeepsHalf`
needs that the page asked for is the window unless the end of the range cuts it, and that a
limit is believed only by a page wider than it. `LimitsNeverStop` needs a measure
across pages and endpoints: after n narrowings of a page it is no wider than the
window halved n times (`NarrowInv`), and once the walk is past an endpoint whose limit
the last of these halvings meets, the page is over a limit and a failure that
narrows is kept, so it is that one that is raised and the page that shrinks.

*RefreshGuard.* `GuardInv` joins the type, the timers, the two properties and
`AllAsked`: after the exit every worker left has been asked to stop. Without the
last, a worker that waits for the prefetch could go on to fetch. `OneTimer` says nothing
while messages are unread; `TimerInv` says what the unread ones tell: they alternate,
the first contradicts the timer, the last agrees with what is on top.

*TalismansCycle.* `CountInv` adds to `CountedToMark` that no watermark, read head
or first block is past the head, so an operation that comes later is never in
the range already counted. It has two halves: what is counted lies within the range
scanned, for every lag (`NothingAhead`), and everything in the range is counted,
if none lags. `RegistryInv` says that outside a sweep nothing is half read, which the
types need. `ConserveInv` is about the verdict. The chain's books
balance (`ChainInv`): cores of live tokens and cores spent add up to what was
bonded. The ids one operation makes become known together (`KnownInv`). With at
most one operation in a cycle, a count that is complete is that of the chain as it is
or as it was before that operation (`ReadsInv`); one that mixes both reads strictly
less than either, so it cannot pass for a total. The sums are over sets of any size.
Induction on a set is out of reach, so each fact about a sum is proved from a
counterexample of least size, which well-foundedness of the naturals provides.

*AtomicSave.* `SaveInv`: the file's name never points at an inode that is being
written; the temporary one holds the text as far as its writer has come, and whole
when it is renamed. So `os.replace` is the one step of a save that `SavedFile` sees, and
a write or an error before it is a stutter, and a crash is a restart. Taking turns is needed:
`AtomicSaveQuit` is the counterexample without it.

*FWALogs.* The invariant describes three copies of the history alike: `MemInv` says
that beyond the block of the baseline the store has no hole up to the watermark
and that the baseline is the count up to its block, `DiskInv` that a file is such a
memory cut to a window, `ScanInv` that a scan begins no later than the watermark.
Each comparison of a count with the chain is `Agrees`: at most, and equal if no logs lag.
Counting needs cardinalities of disjoint unions, from FiniteSetTheorems. The
refinement follows: every step leaves the totals those of the prefix `mem.seen`.
With `LogLag > 0` that theorem is false (`BoundaryCounted`), and what is left of it is
that a count is never too high (`CountsNeverExceed`), however often the same blocks are
read again. `NamedStaysNamed` needs of
the invariant only that the store holds events.

*FWASweep.* What the payload may call current depends on what the cache held when
the cycle began (`CycleInv`), at the pin (`PinInv`) and after the tail; `AgeInv` ties
`wait` to the time since the last failure, from which the backoff follows.

*SurfReads.* `LeavingIsAwaited`: a cancelled seat read that has not unwound means that a
cycle is waiting for it, or that `close()` has begun. `ClosingStops`: every tier
before the place `close()` has reached is quiet, if no cycle crossed it. `TypeOK`
needs what `Kept` does to the slot of the seats read: no seat twice, no more than
the cap.

*CuratorFold.* `LossIsReread`: while the loss marker is up, a sweep under way started
at the creation block, so the sweep that takes it down has read everything.

Every safety invariant and action property of the passing runs is stated by a
theorem, some under the hypotheses above. Only model-checked is liveness, as fairness
is beyond the prover: `EventuallyCounted`, `ScanEnds`, `WindowRecovers`,
`KeepsRefreshing`, `HiddenScreenStops`, `EventuallyJudged`, `StaleIsRefreshed`,
`PendingResolves`, `PickIsRead`, `GapsClose`. The runs check the properties without the
hypothesis `RingReaches` on instances whose ring is large enough.

## Plan

Done: the TTT scan, the log paging, the refresh guard, persistence, the Talismans
cycle, the FWA history and sweep, the detached reads of Surf, the curator's history.
Left, in order:

1. Whether what TTTScan counts is a ledger after its first look-back; EventLedger as it
   stands has no blocks left out, so it is not one from the start.
2. Surf's adoption of a new pool and the baselines of its detectors; the runtime task.
3. The paging of one endpoint's logs in `fwa_logs.py` and `curator_client.py`, compared
   with LogPager.
4. The hourly series (`series_cache.py`), the screen stack with dialogs, the
   phases of the Rust intro, sybilkit's clustering and allocation curve as operators
   against a reference definition.

## Not modelled

Analytics, widgets, themes, ABI decoding and the scripts: functions of data, with no
state that outlives a payload. Base, Cat Town, OCM, DOTA and bakery: a snapshot per
cycle. FrenPet: four managers that share one cache object and its save, which is
that of AtomicSave without a second writer. Of the modelled parts, `PROJECT.json`
says under `components` what is left out of each.
