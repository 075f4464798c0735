------------------------------ MODULE TTTScan ------------------------------
(***************************************************************************)
(* The incremental event scan of the Ten Thousand Tokens dashboard         *)
(* (src/maxpane_dashboard/data/ttt_manager.py, ttt_cache.py,               *)
(* ttt_client.py).                                                         *)
(*                                                                         *)
(* Every poll reads the chain head and then scans three event topics, one  *)
(* after the other, in pages of blocks.  A topic has a watermark, the last *)
(* block scanned; a scan starts Margin blocks before it, so events are   *)
(* delivered again on purpose and a bounded ring of event keys suppresses  *)
(* the second delivery.  The cache reaches the disk only when the manager  *)
(* is closed.                                                              *)
(*                                                                         *)
(* Around it: a chain that grows and reorganises its last blocks, nodes    *)
(* that lag, refuse a page or fail, and a process that may be closed at    *)
(* any await, or killed.                                                   *)
(***************************************************************************)
EXTENDS Integers, Sequences, FiniteSets

CONSTANTS
  Logs,          \* the transactions that may emit an event on this chain
  Tokens,        \* ERC20 token addresses
  TopicOf,       \* Logs -> Topics, the event a transaction emits
  TokenOf,       \* Logs -> Tokens, the token it is about
  MaxBlock,      \* bound: the chain stops growing here
  StartBlock,    \* height of the chain when the model starts
  DeployBlock,   \* _FACTORY_DEPLOY_BLOCK
  FirstLookback, \* _DEFAULT_LOG_LOOKBACK_BLOCKS, of a first run
  Lookback,      \* _INCREMENTAL_LOG_LOOKBACK, of every later run
  Margin,        \* _REORG_MARGIN_BLOCKS
  PageSize,      \* _LOG_RANGE_PER_CALL
  ChunkSize,     \* _BOUGHT_ADDRESS_CHUNK
  RingSize,      \* _SEEN_EVENT_RING
  PersistSize,   \* _SEEN_EVENT_PERSIST
  ReorgDepth,    \* a reorganisation replaces at most this many blocks
  LogLag,        \* a node serving logs may be this many blocks behind
  HeadLag,       \* a node serving the head may be this many blocks behind
  MaxReorgs,     \* bound: reorganisations in a behaviour
  MaxStarts      \* bound: times the process is started

Topics == {"Launched", "Deposited", "Bought"}

ASSUME ConfigAssumption ==
  /\ IsFiniteSet(Logs) /\ IsFiniteSet(Tokens)
  /\ TopicOf \in [Logs -> Topics]
  /\ TokenOf \in [Logs -> Tokens]
  /\ MaxBlock \in Nat /\ StartBlock \in 0..MaxBlock
  /\ DeployBlock \in Nat /\ FirstLookback \in Nat /\ Lookback \in Nat
  /\ Margin \in Nat /\ PageSize \in Nat \ {0} /\ ChunkSize \in Nat \ {0}
  /\ RingSize \in Nat /\ PersistSize \in Nat
  /\ ReorgDepth \in Nat /\ LogLag \in Nat /\ HeadLag \in Nat
  /\ MaxReorgs \in Nat /\ MaxStarts \in Nat

\* The margin is the design's answer to reorganisations and to lagging nodes.
ASSUME MarginAssumption == ReorgDepth <= Margin /\ LogLag <= Margin

VARIABLES
  head,      \* height of the chain
  minedAt,   \* the block a transaction is in, 0 while it is in none
  reorgs,    \* reorganisations so far
  pc,        \* where the manager is: "off", "idle", "fetch" or "apply"
  cur,       \* current_block, the head this cycle has read
  scan,      \* the locals of the topic being scanned
  mem,       \* the TTTCache in memory
  disk,      \* the cache file
  starts     \* times the process has been started

chainVars == <<head, minedAt, reorgs>>
vars == <<head, minedAt, reorgs, pc, cur, scan, mem, disk, starts>>

Blocks == 1..MaxBlock

\* _event_key: what identifies an event holds the block it was mined in.
Keys == Logs \X Blocks

Larger(a, b) == IF a >= b THEN a ELSE b
Smaller(a, b) == IF a <= b THEN a ELSE b
Members(s) == {s[i] : i \in DOMAIN s}

-----------------------------------------------------------------------------
(***************************************************************************)
(* The cache.  counted holds what an application of an event adds (the fee *)
(* totals, the feed row): how often each key has been counted, saturating  *)
(* at CountCap.  skipped and since are history: the blocks a topic's start *)
(* has been moved over, and the watermark of Bought when a token became    *)
(* known.                                                                  *)
(***************************************************************************)
CountCap == 2
Bump(n) == IF n < CountCap THEN n + 1 ELSE n

EmptyCache ==
  [mark    |-> [t \in Topics |-> 0],
   tokens  |-> <<>>,
   ring    |-> <<>>,
   counted |-> [k \in Keys |-> 0],
   skipped |-> [t \in Topics |-> {}],
   since   |-> [a \in Tokens |-> 0]]

\* register_token: insert if absent.
RegisterToken(m, a) ==
  IF a \in Members(m.tokens)
    THEN m
    ELSE [m EXCEPT !.tokens = Append(@, a), !.since[a] = m.mark["Bought"]]

\* The oldest keys leave a full ring first.
LastOf(s, n) == SubSeq(s, Larger(1, Len(s) - n + 1), Len(s))

\* Mutant: the applications are not idempotent.
CountAlways(m, k) ==
  [m EXCEPT !.ring = LastOf(Append(@, k), RingSize), !.counted[k] = Bump(@)]

\* mark_event_seen, and what an apply_* method adds on a first sighting.
CountOnce(m, k) ==
  IF k \in Members(m.ring)
    THEN m
    ELSE [m EXCEPT !.ring = LastOf(Append(@, k), RingSize),
                   !.counted[k] = Bump(@)]

\* apply_launch, apply_deposit, apply_buyback.
Apply(m, k) ==
  IF TopicOf[k[1]] = "Launched"
    THEN CountOnce(RegisterToken(m, TokenOf[k[1]]), k)
    ELSE CountOnce(m, k)

\* save_to_file keeps only the tail of the ring.
Saved(m) ==
  [version |-> 2, cache |-> [m EXCEPT !.ring = LastOf(@, PersistSize)]]

\* Mutant: the migration keeps the watermarks of what it drops.
LoadedWithMarks(d) ==
  IF d.version >= 2
    THEN d.cache
    ELSE [EmptyCache EXCEPT !.tokens = d.cache.tokens, !.mark = d.cache.mark]

\* load_from_file; a version 1 file goes through _migrate_legacy_payload.
Loaded(d) ==
  IF d.version >= 2
    THEN d.cache
    ELSE [EmptyCache EXCEPT !.tokens = d.cache.tokens]

-----------------------------------------------------------------------------
(***************************************************************************)
(* The scan of one topic.                                                  *)
(***************************************************************************)
\* Mutant: a scan starts right behind the watermark.
FromBlockWithoutMargin(m, t, c) ==
  IF m.mark[t] = 0
    THEN Larger(DeployBlock, c - FirstLookback)
    ELSE Larger(0, Larger(m.mark[t] + 1, c - Lookback))

\* _from
FromBlock(m, t, c) ==
  IF m.mark[t] = 0
    THEN Larger(DeployBlock, c - FirstLookback)
    ELSE Larger(0, Larger(m.mark[t] + 1 - Margin, c - Lookback))

NoScan ==
  [topic |-> "Launched", from |-> 0, cursor |-> 0, done |-> 0, reach |-> 0,
   batch |-> <<>>]

\* An empty range needs no page and counts as scanned up to c.
StartScan(m, t, c) ==
  LET from == FromBlock(m, t, c)
  IN  /\ scan' = [topic |-> t, from |-> from, cursor |-> from, done |-> 0,
                  reach |-> c, batch |-> <<>>]
      /\ pc' = IF from > c THEN "apply" ELSE "fetch"

EndCycle == pc' = "idle" /\ scan' = NoScan /\ cur' = 0

\* The topics follow each other; Bought only when a token is known.
AfterTopic(m, t) ==
  \/ /\ t = "Launched"
     /\ StartScan(m, "Deposited", cur) /\ UNCHANGED cur
  \/ /\ t = "Deposited" /\ m.tokens # <<>>
     /\ StartScan(m, "Bought", cur) /\ UNCHANGED cur
  \/ /\ t = "Deposited" /\ m.tokens = <<>>
     /\ EndCycle
  \/ /\ t = "Bought"
     /\ EndCycle

\* The address filter of the request: a chunk of the known tokens for Bought.
Chunk ==
  {mem.tokens[i] : i \in {j \in DOMAIN mem.tokens :
                            scan.done < j /\ j <= scan.done + ChunkSize}}

Wanted(l) ==
  /\ TopicOf[l] = scan.topic
  /\ scan.topic = "Bought" => TokenOf[l] \in Chunk

PageEnd == Smaller(scan.cursor + PageSize - 1, cur)

\* What a node whose chain ends at block v answers for the current page.
PageKeys(v) ==
  {<<l, minedAt[l]>> : l \in {x \in Logs : /\ Wanted(x)
                                           /\ minedAt[x] \in Blocks
                                           /\ minedAt[x] >= scan.cursor
                                           /\ minedAt[x] <= PageEnd
                                           /\ minedAt[x] <= v}}

\* The orders a page may list its keys in: by block, any order within one.
BlockOrders(S) ==
  {s \in [1..Cardinality(S) -> S] :
     /\ Members(s) = S
     /\ \A i, j \in DOMAIN s : i < j => s[i][2] <= s[j][2] /\ s[i] # s[j]}

LastChunk ==
  scan.topic = "Bought" => scan.done + ChunkSize >= Len(mem.tokens)

\* Mutant: the last chunk alone decides how far the topic got.
EndChunkByLast(reached, batch) ==
  LET s == [scan EXCEPT !.reach = reached, !.batch = batch]
  IN  \/ /\ LastChunk
         /\ scan' = s
         /\ pc' = "apply"
      \/ /\ ~LastChunk
         /\ scan' = [s EXCEPT !.cursor = scan.from, !.done = @ + ChunkSize]
         /\ UNCHANGED pc

\* One request is done with its range, having reached block `reached`.
EndChunk(reached, batch) ==
  LET s == [scan EXCEPT !.reach = Smaller(@, reached), !.batch = batch]
  IN  \/ /\ LastChunk
         /\ scan' = s
         /\ pc' = "apply"
      \/ /\ ~LastChunk
         /\ scan' = [s EXCEPT !.cursor = scan.from, !.done = @ + ChunkSize]
         /\ UNCHANGED pc

\* Mutants of _advance: to the head, also without any progress, and only when
\* the whole range was read.
AdvancedToHead(m, t, from, reached) ==
  IF reached < from THEN m ELSE [m EXCEPT !.mark[t] = cur]

AdvancedAlways(m, t, from, reached) ==
  [m EXCEPT !.mark[t] = Larger(0, reached)]

AdvancedWhenWhole(m, t, from, reached) ==
  IF reached < cur THEN m ELSE [m EXCEPT !.mark[t] = reached]

\* _advance, with the blocks it leaves behind noted in skipped.
Advanced(m, t, from, reached) ==
  IF reached < from
    THEN m
    ELSE [m EXCEPT !.mark[t] = reached,
                   !.skipped[t] = @ \cup {b \in Blocks : /\ b < from
                                            /\ b > m.mark[t] - Margin}]

-----------------------------------------------------------------------------
(***************************************************************************)
(* The chain.  Its actions are disabled while events are applied: that     *)
(* loop neither awaits nor reads the chain, so they commute with it.       *)
(***************************************************************************)
\* A token is launched before anything else happens to it.
ValidChain(at) ==
  \A l \in Logs :
    (at[l] # 0 /\ TopicOf[l] # "Launched") =>
      \E x \in Logs : /\ TopicOf[x] = "Launched" /\ TokenOf[x] = TokenOf[l]
                      /\ at[x] # 0 /\ at[x] <= at[l]

Grow ==
  /\ pc # "apply" /\ head < MaxBlock
  /\ head' = head + 1
  /\ \E S \in SUBSET {l \in Logs : minedAt[l] = 0} :
       minedAt' = [l \in Logs |-> IF l \in S THEN head + 1 ELSE minedAt[l]]
  /\ ValidChain(minedAt')
  /\ UNCHANGED <<reorgs, pc, cur, scan, mem, disk, starts>>

Replaceable == {b \in Blocks : head - ReorgDepth < b /\ b <= head}

\* The last blocks are replaced by as many others with the events moved.
Reorg ==
  /\ pc # "apply" /\ reorgs < MaxReorgs
  /\ \E at \in [Logs -> {0} \cup Replaceable] :
       minedAt' = [l \in Logs |->
                     IF minedAt[l] \in {0} \cup Replaceable
                       THEN at[l] ELSE minedAt[l]]
  /\ minedAt' # minedAt
  /\ ValidChain(minedAt')
  /\ reorgs' = reorgs + 1
  /\ UNCHANGED <<head, pc, cur, scan, mem, disk, starts>>

-----------------------------------------------------------------------------
(***************************************************************************)
(* The manager.                                                            *)
(***************************************************************************)
\* fetch_block_number answered; a failed read is 0 and scans nothing.
BeginCycle ==
  /\ pc = "idle"
  /\ \E c \in {b \in Blocks : head - HeadLag <= b /\ b <= head} :
       /\ cur' = c
       /\ StartScan(mem, "Launched", c)
  /\ UNCHANGED <<head, minedAt, reorgs, mem, disk, starts>>

\* eth_getLogs answered the page [cursor, PageEnd].
PageOk ==
  /\ pc = "fetch"
  /\ \E v \in (head - LogLag)..head : \E s \in BlockOrders(PageKeys(v)) :
       \/ /\ PageEnd = cur
          /\ EndChunk(cur, scan.batch \o s)
       \/ /\ PageEnd < cur
          /\ scan' = [scan EXCEPT !.cursor = PageEnd + 1,
                                  !.batch = @ \o s]
          /\ UNCHANGED pc
  /\ UNCHANGED <<head, minedAt, reorgs, cur, mem, disk, starts>>

\* Mutant: a refused page reads like an empty one.
PageRefusedUnnoticed ==
  /\ pc = "fetch"
  /\ \/ /\ PageEnd = cur /\ EndChunk(cur, scan.batch)
     \/ /\ PageEnd < cur
        /\ scan' = [scan EXCEPT !.cursor = PageEnd + 1] /\ UNCHANGED pc
  /\ UNCHANGED <<head, minedAt, reorgs, cur, mem, disk, starts>>

\* Every endpoint refused the page: the request stops in front of it.
PageRefused ==
  /\ pc = "fetch"
  /\ EndChunk(scan.cursor - 1, scan.batch)
  /\ UNCHANGED <<head, minedAt, reorgs, cur, mem, disk, starts>>

\* The scan raised (a reply that cannot be decoded): on to the next topic.
ScanRaised ==
  /\ pc = "fetch"
  /\ AfterTopic(mem, scan.topic)
  /\ UNCHANGED <<head, minedAt, reorgs, mem, disk, starts>>

\* One turn of the loop over the events; the loop has no suspension point.
ApplyEvent ==
  /\ pc = "apply" /\ scan.batch # <<>>
  /\ mem' = Apply(mem, Head(scan.batch))
  /\ scan' = [scan EXCEPT !.batch = Tail(@)]
  /\ UNCHANGED <<head, minedAt, reorgs, pc, cur, disk, starts>>

AdvanceMark ==
  /\ pc = "apply" /\ scan.batch = <<>>
  /\ LET m == Advanced(mem, scan.topic, scan.from, scan.reach)
     IN  mem' = m /\ AfterTopic(m, scan.topic)
  /\ UNCHANGED <<head, minedAt, reorgs, disk, starts>>

\* close(): the cache is saved wherever the cycle is waiting.
Close ==
  /\ pc \in {"idle", "fetch"} /\ starts < MaxStarts
  /\ disk' = Saved(mem)
  /\ pc' = "off" /\ cur' = 0 /\ scan' = NoScan /\ mem' = EmptyCache
  /\ UNCHANGED <<head, minedAt, reorgs, starts>>

\* The process is killed, or the save fails: the old file stays.
Crash ==
  /\ pc \in {"idle", "fetch"} /\ starts < MaxStarts
  /\ pc' = "off" /\ cur' = 0 /\ scan' = NoScan /\ mem' = EmptyCache
  /\ UNCHANGED <<head, minedAt, reorgs, disk, starts>>

\* __init__ loads the file.
Restart ==
  /\ pc = "off" /\ starts < MaxStarts
  /\ starts' = starts + 1
  /\ mem' = Loaded(disk)
  /\ pc' = "idle"
  /\ UNCHANGED <<head, minedAt, reorgs, cur, scan, disk>>

-----------------------------------------------------------------------------
\* The tokens launched so far, in any order.
LaunchedTokens ==
  {TokenOf[l] : l \in {x \in Logs : TopicOf[x] = "Launched" /\ minedAt[x] # 0}}

TokenLists ==
  {s \in [1..Cardinality(LaunchedTokens) -> LaunchedTokens] :
     Members(s) = LaunchedTokens}

\* A version 1 file: every event on the chain counted more than once.
LegacyFile(known) ==
  [version |-> 1,
   cache   |-> [EmptyCache EXCEPT
                  !.mark = [t \in Topics |-> head],
                  !.tokens = known,
                  !.counted = [k \in Keys |->
                                 IF minedAt[k[1]] = k[2] THEN CountCap ELSE 0]]]

NewFile == [version |-> 2, cache |-> EmptyCache]

Init ==
  /\ head = StartBlock
  /\ minedAt \in [Logs -> 0..StartBlock]
  /\ ValidChain(minedAt)
  /\ reorgs = 0
  /\ pc = "off" /\ cur = 0 /\ scan = NoScan
  /\ mem = EmptyCache
  /\ disk \in {NewFile} \cup {LegacyFile(s) : s \in TokenLists}
  /\ starts = 0

Next ==
  \/ Grow \/ Reorg
  \/ BeginCycle \/ PageOk \/ PageRefused \/ ScanRaised \/ ApplyEvent \/ AdvanceMark
  \/ Close \/ Crash \/ Restart

Spec == Init /\ [][Next]_vars

(***************************************************************************)
(* Fairness.  The poll timer keeps starting cycles, the event loop resumes *)
(* what is ready, and the user starts the program again.  A node refuses   *)
(* pages as often as it likes, but a topic that keeps asking is answered   *)
(* again and again; a reply that can never be decoded is left out, for it  *)
(* would hold its topic for ever.                                          *)
(***************************************************************************)
AnsweringNext ==
  \/ Grow \/ Reorg
  \/ BeginCycle \/ PageOk \/ PageRefused \/ ApplyEvent \/ AdvanceMark
  \/ Close \/ Crash \/ Restart

Fairness ==
  /\ WF_vars(Restart) /\ WF_vars(BeginCycle)
  /\ WF_vars(ApplyEvent) /\ WF_vars(AdvanceMark)
  /\ \A t \in Topics : SF_vars(PageOk /\ scan.topic = t)

LiveSpec == Init /\ [][AnsweringNext]_vars /\ Fairness

-----------------------------------------------------------------------------
(***************************************************************************)
(* Correctness.                                                            *)
(***************************************************************************)
CacheType ==
  [mark    : [Topics -> 0..MaxBlock],
   tokens  : Seq(Tokens),
   ring    : Seq(Keys),
   counted : [Keys -> 0..CountCap],
   skipped : [Topics -> SUBSET Blocks],
   since   : [Tokens -> 0..MaxBlock]]

ScanType ==
  [topic : Topics, from : Nat, cursor : Nat, done : Nat, reach : Int,
   batch : Seq(Keys)]

\* Every variable has its type; in particular no watermark, range or page
\* leaves the chain.
TypeOK ==
  /\ head \in StartBlock..MaxBlock
  /\ minedAt \in [Logs -> 0..MaxBlock]
  /\ reorgs \in 0..MaxReorgs
  /\ pc \in {"off", "idle", "fetch", "apply"}
  /\ cur \in 0..MaxBlock
  /\ scan \in ScanType
  /\ mem \in CacheType
  /\ disk \in [version : {1, 2}, cache : CacheType]
  /\ starts \in 0..MaxStarts

\* The promise of a watermark for an event of the chain `at`: it lies Margin blocks or more
\* behind the watermark of its topic, at no block the start was moved over,
\* and, for a buyback, it is from after its token became known.
Promised(m, at, l) ==
  LET t == TopicOf[l]
      b == at[l]
  IN  /\ b \in Blocks
      /\ b <= m.mark[t] - Margin
      /\ b \notin m.skipped[t]
      /\ t = "Bought" => /\ TokenOf[l] \in Members(m.tokens)
                         /\ b > m.since[TokenOf[l]] - Margin

CoveredIn(m, at) ==
  \A l \in Logs : Promised(m, at, l) => m.counted[<<l, at[l]>>] > 0

\* No event of the chain is lost: whatever pages were refused, nodes lagged,
\* blocks were replaced or restarts happened, an event the watermark has left
\* behind by the margin is counted, in memory and in what the file restores.
EventsCovered == CoveredIn(mem, minedAt) /\ CoveredIn(Loaded(disk), minedAt)

\* No sighting of an event is counted twice, although every scan delivers the
\* margin again, across restarts and after the migration of an old file.
CountedAtMostOnce ==
  \A k \in Keys : mem.counted[k] <= 1 /\ Loaded(disk).counted[k] <= 1

\* A block is given up only where the code says so: before the first run's
\* start, or further behind the head than the look-back of a later run.
SkippedOnlyBeyondLookback ==
  \A t \in Topics : \A b \in mem.skipped[t] :
    b < Larger(DeployBlock, head - FirstLookback) \/ b < head - Lookback

\* While the process runs a watermark falls back by less than the margin,
\* even when a scan stops early or the head is read from a lagging node.
BoundedRegress ==
  [][(pc # "off" /\ pc' # "off") =>
       \A t \in Topics : \/ mem'.mark[t] = mem.mark[t]
                         \/ mem'.mark[t] > mem.mark[t] - Margin]_vars

\* While no backlog exceeds the look-backs, an event deep enough for every
\* node to serve it is eventually counted, whatever pages are refused and
\* however often the process dies; but for a buyback found before its token.
EventuallyCounted ==
  \A l \in Logs :
    <>[]( ( /\ minedAt[l] \in Blocks
            /\ minedAt[l] <= head - HeadLag - LogLag
            /\ TopicOf[l] = "Bought" =>
                 minedAt[l] > mem.since[TokenOf[l]] - Margin )
          => mem.counted[<<l, minedAt[l]>>] > 0 )

(***************************************************************************)
(* What the comments of the code claim, and the code does not keep.        *)
(***************************************************************************)
\* ttt_manager.py, _advance: "Partial progress is persisted and the remainder
\* retried next cycle, so no block is ever skipped over."
NoBlockSkipped ==
  \A t \in Topics : \A b \in mem.skipped[t] : b < DeployBlock

\* ttt_manager.py, the Bought scan: picking some tokens "would only move the
\* blind spot, so we cover the whole set instead": no buyback the watermark
\* has left behind is missing from the feed.
EveryBuybackCounted ==
  \A l \in Logs :
    ( /\ TopicOf[l] = "Bought" /\ minedAt[l] \in Blocks
      /\ minedAt[l] <= mem.mark["Bought"] - Margin
      /\ minedAt[l] \notin mem.skipped["Bought"] )
    => mem.counted[<<l, minedAt[l]>>] > 0

\* ttt_cache.py: the ring makes sure that "re-scanning a block range (which
\* the reorg margin does on purpose, every cycle) can never double-count":
\* one transaction is counted once, also when a reorganisation moves it.
OneCountPerTransaction ==
  \A l \in Logs : \A b, c \in Blocks :
    mem.counted[<<l, b>>] > 0 /\ mem.counted[<<l, c>>] > 0 => b = c

\* ttt_cache.py, _SEEN_EVENT_RING: "Only has to cover the overlap between two
\* consecutive scans (the reorg margin, ~12 blocks)": a ring that holds the
\* events of any Margin blocks is enough.
RingCoversOverlap ==
  \A h \in Blocks :
    Cardinality({l \in Logs : minedAt[l] \in (h - Margin + 1)..h}) <= RingSize

OverlapRingSuffices == RingCoversOverlap => CountedAtMostOnce

-----------------------------------------------------------------------------
(***************************************************************************)
(* The invariant that makes EventsCovered inductive.                       *)
(***************************************************************************)
BelowHead(m, h) == \A t \in Topics : m.mark[t] <= h

RingIsCounted(m) == \A k \in Members(m.ring) : m.counted[k] > 0

\* Settled: no reorganisation and no lagging node hides this event from the
\* scan in progress, which is responsible for it.
Settled(l) ==
  /\ TopicOf[l] = scan.topic
  /\ minedAt[l] \in Blocks
  /\ scan.from <= minedAt[l] /\ minedAt[l] <= cur - Margin

Batched(l) == <<l, minedAt[l]>> \in Members(scan.batch)

\* Pages already read have put their settled events in the batch.
FetchInv ==
  pc = "fetch" =>
    /\ scan.from <= scan.cursor /\ scan.cursor <= cur
    /\ \A l \in Logs :
         Settled(l) =>
           /\ Wanted(l) /\ minedAt[l] < scan.cursor => Batched(l)
           /\ \A j \in DOMAIN mem.tokens :
                ( /\ scan.topic = "Bought" /\ j <= scan.done
                  /\ mem.tokens[j] = TokenOf[l] /\ minedAt[l] <= scan.reach )
                => Batched(l)

\* Up to the block reached, a settled event waits in the batch or is counted.
ApplyInv ==
  pc = "apply" =>
    \A l \in Logs :
      ( /\ Settled(l) /\ minedAt[l] <= scan.reach
        /\ scan.topic = "Bought" => TokenOf[l] \in Members(mem.tokens) )
      => Batched(l) \/ mem.counted[<<l, minedAt[l]>>] > 0

\* No event is lost, with all that has to hold between two scans and inside
\* one for it to stay so.
IInv ==
  /\ TypeOK
  /\ \A l \in Logs : minedAt[l] <= head
  /\ cur <= head
  /\ pc \in {"fetch", "apply"} => scan.reach <= cur
  /\ BelowHead(mem, head) /\ BelowHead(Loaded(disk), head)
  /\ RingIsCounted(mem) /\ RingIsCounted(Loaded(disk))
  /\ \A k \in Members(scan.batch) : TopicOf[k[1]] = scan.topic
  /\ FetchInv
  /\ ApplyInv
  /\ EventsCovered
=============================================================================
