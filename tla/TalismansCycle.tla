--------------------------- MODULE TalismansCycle ---------------------------
(***************************************************************************)
(* One refresh cycle of the Talismans dashboard and its verdict on core    *)
(* conservation (src/maxpane_dashboard/data/talismans_manager.py,          *)
(* talismans_cache.py, the reads of talismans_client.py).                  *)
(*                                                                         *)
(* Tokens are bonded and cleaved on chain, which never changes the sum of  *)
(* their cores.  A cycle reads the head block, the supply and the id       *)
(* allocator, then the new operations, then every known token in chunks:   *)
(* each read at its own moment, while the chain moves on.  The sum of the  *)
(* first complete count is the baseline later sums are judged by.          *)
(***************************************************************************)
EXTENDS Integers, Sequences, FiniteSetsExt

CONSTANTS
  Genesis,   \* the cores of the genesis tokens, in order of their ids
  MaxOps,    \* bound: operations on chain
  Chunk,     \* _TOKEN_STATE_CHUNK, tokens per read
  Lookback,  \* _DEFAULT_LOG_LOOKBACK_BLOCKS of the first scan
  Lag,       \* blocks by which the node that serves logs may be behind
  MaxStarts  \* bound: times the dashboard is started

ASSUME CycleAssumption ==
  /\ Genesis \in Seq(Nat \ {0})
  /\ MaxOps \in Nat /\ Chunk \in Nat \ {0} /\ Lookback \in Nat
  /\ Lag \in Nat /\ MaxStarts \in Nat

VARIABLES
  cores,    \* chain: the cores of every id, 0 if it is not alive
  ops,      \* chain: the operations, one per block
  pc,       \* "off", "idle", "reads", "scan", "sweep" or "settle"
  got,      \* the reads of this cycle that are done
  block,    \* current_block, 0 if the read failed
  flags,    \* total_supply and next_transform_id, and whether they were read
  todo,     \* the ids the sweep has yet to read
  out,      \* what it has read
  sweptOk,  \* states_ok
  cache,    \* TalismansCache
  file,     \* what of it is on disk
  verdict,  \* cores_invariant_state of the last cycle
  moved,    \* history: operations since this cycle began, counted to 2
  starts,
  clear     \* history: from now on every read succeeds

cycleVars == <<got, block, flags, todo, out, sweptOk>>
vars == <<cores, ops, pc, cycleVars, cache, file, verdict, moved, starts, clear>>

GenesisIds == 1..Len(Genesis)
Ids == 1..(Len(Genesis) + 2 * MaxOps)
Alive == {i \in Ids : cores[i] > 0}

Sum(f, S) == MapThenSumSet(LAMBDA i : f[i], S)
Total == Sum(Genesis, GenesisIds)

\* The id allocator: an operation takes the next id or two.
Minted == [k \in DOMAIN ops |-> Cardinality(ops[k])]
NextId == Len(Genesis) + 1 + Sum(Minted, DOMAIN ops)

HeadBlock == 1 + Len(ops)
OpsIn(from, to) == {k \in DOMAIN ops : from <= k + 1 /\ k + 1 <= to}

-----------------------------------------------------------------------------
(***************************************************************************)
(* The chain.                                                              *)
(***************************************************************************)
Operate(made, after) ==
  /\ Len(ops) < MaxOps
  /\ ops' = Append(ops, made)
  /\ cores' = after
  /\ moved' = IF moved < 2 THEN moved + 1 ELSE moved
  /\ UNCHANGED <<pc, cycleVars, cache, file, verdict, starts, clear>>

Bond ==
  \E a, b \in Alive :
    /\ a < b
    /\ Operate({NextId},
         [cores EXCEPT ![a] = 0, ![b] = 0, ![NextId] = cores[a] + cores[b]])

Cleave ==
  \E a \in Alive : \E k \in 1..(cores[a] - 1) :
    Operate({NextId, NextId + 1},
      [cores EXCEPT ![a] = 0, ![NextId] = k, ![NextId + 1] = cores[a] - k])

-----------------------------------------------------------------------------
(***************************************************************************)
(* The cycle.                                                              *)
(***************************************************************************)
\* The reads start together and end in any order.
BeginCycle ==
  /\ pc = "idle" /\ pc' = "reads"
  /\ moved' = 0
  /\ UNCHANGED <<cores, ops, got, block, flags, todo, out, sweptOk, cache, file, verdict,
                 starts, clear>>

ReadBlock ==
  /\ pc = "reads" /\ "block" \notin got
  /\ got' = got \cup {"block"}
  /\ block' \in IF clear THEN {HeadBlock} ELSE {HeadBlock, 0}
  /\ UNCHANGED <<cores, ops, pc, flags, todo, out, sweptOk, cache, file, verdict,
                 moved, starts, clear>>

Flags(ok, supply, next) == [ok |-> ok, supply |-> supply, next |-> next]

ReadFlags ==
  /\ pc = "reads" /\ "flags" \notin got
  /\ got' = got \cup {"flags"}
  /\ \/ flags' = Flags(TRUE, Cardinality(Alive), NextId)
     \/ ~clear /\ flags' = Flags(FALSE, Cardinality(DOMAIN cache.tokens), 0)
  /\ UNCHANGED <<cores, ops, pc, block, todo, out, sweptOk, cache, file, verdict,
                 moved, starts, clear>>

\* Mutant: only the ids seen in logs are known.
NoIds == {}

\* _seed_transform_ids
SeededIds == (Len(Genesis) + 1)..(flags.next - 1)

Seed ==
  /\ pc = "reads" /\ got = {"block", "flags"}
  /\ pc' = "scan"
  /\ cache' = [cache EXCEPT !.known = @ \cup SeededIds]
  /\ UNCHANGED <<cores, ops, cycleVars, file, verdict, moved, starts, clear>>

From == IF cache.mark # 0 THEN cache.mark + 1 ELSE Max({0, block - Lookback})

\* Mutant: the watermark goes to the head, whatever the scan reached.
HeadMark(reached) == block

Mark(reached) == reached

\* _scan_operations: the operations up to the block the pager reached are
\* applied and the watermark follows, all without an await.  An operation the
\* dedupe keys hold is not applied again, so what is applied is a set.
Scan ==
  /\ pc = "scan" /\ pc' = "sweep"
  /\ IF block = 0 \/ From > block THEN UNCHANGED cache
     ELSE \E reached \in IF clear THEN {block} ELSE (From - 1)..block,
             served \in (HeadBlock - Lag)..HeadBlock :
            LET seen == OpsIn(From, IF reached <= served THEN reached ELSE served)
            IN  IF reached < From THEN UNCHANGED cache
                ELSE cache' = [cache EXCEPT
                       !.known = @ \cup UNION {ops[k] : k \in seen},
                       !.applied = @ \cup seen,
                       !.first = IF cache.mark = 0 THEN From ELSE @,
                       !.mark = Mark(reached)]
  /\ todo' = cache'.known /\ out' = <<>> /\ sweptOk' = TRUE
  /\ UNCHANGED <<cores, ops, got, block, flags, file, verdict, moved, starts, clear>>

FirstOf(S) == {i \in S : Cardinality({j \in S : j < i}) < Chunk}

\* One multicall of the sweep; the ids that are not alive are left out.
SweepChunk ==
  /\ pc = "sweep" /\ todo # {}
  /\ LET ids == FirstOf(todo) IN
       /\ todo' = todo \ ids
       /\ out' = [i \in DOMAIN out \cup (ids \cap Alive) |->
                    IF i \in ids THEN cores[i] ELSE out[i]]
  /\ UNCHANGED <<cores, ops, pc, got, block, flags, sweptOk, cache, file, verdict,
                 moved, starts, clear>>

\* A chunk that cannot be read: the registry of the cycle before stays.
SweepFails ==
  /\ pc = "sweep" /\ todo # {} /\ ~clear
  /\ sweptOk' = FALSE /\ pc' = "settle"
  /\ UNCHANGED <<cores, ops, got, block, flags, todo, out, cache, file, verdict, moved,
                 starts, clear>>

SweepDone ==
  /\ pc = "sweep" /\ todo = {}
  /\ pc' = "settle"
  /\ cache' = [cache EXCEPT !.tokens = out]
  /\ UNCHANGED <<cores, ops, cycleVars, file, verdict, moved, starts, clear>>

Counted == Sum(cache.tokens, DOMAIN cache.tokens)

\* Mutant: whatever has been read is taken for the collection.
CompleteByReads == flags.ok /\ sweptOk

\* enumeration_complete
Complete ==
  /\ flags.ok /\ sweptOk
  /\ flags.supply > 0 /\ Cardinality(DOMAIN cache.tokens) = flags.supply

\* set_invariant_baseline_if_unset
Baselined ==
  IF Complete /\ cache.baseline = 0 /\ Counted > 0
    THEN [cache EXCEPT !.baseline = Counted, !.movedThen = moved]
    ELSE cache

Verdict(c) ==
  IF ~Complete \/ c.baseline <= 0 THEN "syncing"
  ELSE IF Counted = c.baseline THEN "intact" ELSE "drift"

LocalsGone ==
  /\ got' = {} /\ block' = 0 /\ flags' = Flags(FALSE, 0, 0)
  /\ todo' = {} /\ out' = <<>> /\ sweptOk' = FALSE

\* The verdict, and the save if one is due.
Settle ==
  /\ pc = "settle" /\ pc' = "idle"
  /\ cache' = Baselined
  /\ verdict' = Verdict(Baselined)
  /\ file' \in {file, Baselined}
  /\ LocalsGone
  /\ UNCHANGED <<cores, ops, moved, starts, clear>>

-----------------------------------------------------------------------------
(***************************************************************************)
(* The process.                                                            *)
(***************************************************************************)
NewCache ==
  [known |-> {}, tokens |-> <<>>, mark |-> 0, applied |-> {}, first |-> 1, baseline |-> 0,
   movedThen |-> 0]

Start ==
  /\ pc = "off" /\ starts < MaxStarts
  /\ pc' = "idle" /\ starts' = starts + 1
  /\ cache' = [file EXCEPT !.known = @ \cup GenesisIds]
  /\ UNCHANGED <<cores, ops, cycleVars, file, verdict, moved, clear>>

Stopped ==
  /\ pc # "off" /\ pc' = "off" /\ ~clear
  /\ LocalsGone
  /\ cache' = NewCache /\ verdict' = "none"
  /\ UNCHANGED <<cores, ops, moved, starts, clear>>

\* close() saves, whatever the cycle is waiting for.
Close == Stopped /\ file' = cache

Crash == Stopped /\ UNCHANGED file

\* From here on nothing fails and the dashboard is left running.
ClearUp ==
  /\ ~clear /\ clear' = TRUE
  /\ pc # "off" \/ starts < MaxStarts
  /\ UNCHANGED <<cores, ops, pc, cycleVars, cache, file, verdict, moved, starts>>

Init ==
  /\ cores = [i \in Ids |-> IF i \in GenesisIds THEN Genesis[i] ELSE 0]
  /\ ops = <<>>
  /\ pc = "off" /\ got = {} /\ block = 0 /\ flags = Flags(FALSE, 0, 0)
  /\ todo = {} /\ out = <<>> /\ sweptOk = FALSE
  /\ cache = NewCache /\ file = NewCache /\ verdict = "none"
  /\ moved = 0 /\ starts = 0 /\ clear = FALSE

Cycle ==
  BeginCycle \/ ReadBlock \/ ReadFlags \/ Seed \/ Scan \/ SweepChunk \/ SweepFails
  \/ SweepDone \/ Settle

Next == Bond \/ Cleave \/ Cycle \/ Start \/ Close \/ Crash

Spec == Init /\ [][Next]_vars

\* The poll timer starts a cycle after the other, and requests end.
Fairness == WF_vars(Cycle) /\ WF_vars(Start)

LiveSpec == Init /\ [][Next \/ ClearUp]_vars /\ Fairness

-----------------------------------------------------------------------------
(***************************************************************************)
(* Properties.                                                             *)
(***************************************************************************)
\* Every variable has its type: no id is known that the contract has not
\* allocated, the registry holds known ids only, the watermark is never past
\* the head.
CycleTypeOK ==
  /\ cores \in [Ids -> Nat] /\ Len(ops) <= MaxOps
  /\ pc \in {"off", "idle", "reads", "scan", "sweep", "settle"}
  /\ got \subseteq {"block", "flags"} /\ block \in 0..HeadBlock
  /\ todo \subseteq cache.known /\ DOMAIN out \subseteq Ids
  /\ \A c \in {cache, file} :
       /\ c.known \subseteq 1..(NextId - 1) /\ DOMAIN c.tokens \subseteq c.known
       /\ c.applied \subseteq DOMAIN ops /\ c.mark <= HeadBlock
  /\ verdict \in {"none", "syncing", "intact", "drift"}
  /\ moved \in 0..2 /\ starts \in 0..MaxStarts

\* What makes it inductive: outside of a sweep nothing is half read.
RegistryInv ==
  /\ pc \in {"off", "idle", "reads", "scan", "sweep", "settle"}
  /\ got \subseteq {"block", "flags"}
  /\ pc \notin {"sweep", "settle"} => todo = {} /\ DOMAIN out = {}
  /\ todo \subseteq cache.known /\ DOMAIN out \subseteq cache.known
  /\ DOMAIN cache.tokens \subseteq cache.known /\ DOMAIN file.tokens \subseteq file.known
  /\ verdict \in {"none", "syncing", "intact", "drift"} /\ starts \in 0..MaxStarts

\* A baseline that is not the real sum of the cores was taken in a cycle
\* during which at least two operations changed the chain: one operation,
\* a failed read, a failed sweep, a stale registry or a restart can never
\* lock in a wrong baseline (fetch_and_compute's enumeration_complete).
BaselineNeedsTwo ==
  \A c \in {cache, file} : c.baseline \notin {0, Total} => c.movedThen = 2

\* The alarm about core conservation is raised only by a cycle, or against a
\* baseline, that saw two operations go by: no outage and no single operation
\* raises it (the tri-state of fetch_and_compute).
AlarmNeedsTwo ==
  [][pc = "settle" /\ pc' = "idle" /\ verdict' = "drift"
       => moved = 2 \/ cache'.movedThen = 2]_vars

\* The fields of a cache, for the invariants below.
CountFields == {"known", "tokens", "mark", "applied", "first", "baseline", "movedThen"}

\* What makes BaselineNeedsTwo inductive.  First, the chain: the cores of the
\* tokens that are alive always add up, and no id is minted twice.
AliveIn(c) == {i \in Ids : c[i] > 0}
Adds(c) == c \in [Ids -> 0..Total] /\ Sum(c, AliveIn(c)) = Total

ChainInv ==
  /\ ops \in Seq(SUBSET Nat) /\ Len(ops) <= MaxOps
  /\ NextId \in (Len(Genesis) + 1)..(Len(Genesis) + 1 + 2 * Len(ops))
  /\ Adds(cores) /\ Alive \subseteq 1..(NextId - 1)
  /\ \A k \in DOMAIN ops :
       /\ ops[k] \subseteq (Len(Genesis) + 1)..(NextId - 1)
       /\ \A j \in DOMAIN ops : j # k => ops[j] \cap ops[k] = {}

\* Second, the ids: what one operation has minted becomes known together, be it
\* from the allocator or from the logs.
Together(K) == \A k \in DOMAIN ops : ops[k] \subseteq K \/ ops[k] \cap K = {}

KnownInv ==
  /\ flags.next \in 0..NextId /\ Together(1..(flags.next - 1))
  /\ \A c \in {cache, file} :
       /\ DOMAIN c = CountFields
       /\ c.known \subseteq 1..(NextId - 1) /\ Together(c.known)
  /\ pc # "off" => GenesisIds \subseteq cache.known
  /\ pc \in {"scan", "sweep", "settle"} => 1..(flags.next - 1) \subseteq cache.known

\* Third, the reads, while no more than one operation went by.  There is a
\* chain the cycle began with, which is the present one or lacks the last
\* operation; the allocator was asked of one of the two; and the sweep has read
\* the present one, or the one before together with what they share, in which
\* case no id of the last operation is known.
OneAfter(old) ==
  LET made == ops[Len(ops)]
  IN  /\ Len(ops) > 0 /\ made # {} /\ made \subseteq Alive \ AliveIn(old)
      /\ AliveIn(old) \ Alive # {} /\ Alive \subseteq AliveIn(old) \cup made
      /\ \A i \in Alive \cap AliveIn(old) : old[i] = cores[i]

SupplyOf(c) == flags.ok => flags.supply = Cardinality(AliveIn(c))

ReadNow ==
  /\ DOMAIN out = (cache.known \ todo) \cap Alive
  /\ \A i \in DOMAIN out : out[i] = cores[i]

ReadBefore(old) ==
  /\ moved = 1 /\ ops[Len(ops)] \cap cache.known = {} /\ SupplyOf(old)
  /\ DOMAIN out \subseteq AliveIn(old) \ todo
  /\ (cache.known \ todo) \cap Alive \subseteq DOMAIN out
  /\ \A i \in DOMAIN out : out[i] = old[i]

BeganWith(old) ==
  /\ Adds(old) /\ AliveIn(old) \subseteq 1..(NextId - 1)
  /\ IF moved = 0 THEN old = cores ELSE moved = 1 /\ OneAfter(old)
  /\ flags.ok => AliveIn(old) \subseteq 1..(flags.next - 1)
  /\ SupplyOf(old) \/ SupplyOf(cores)
  /\ pc \in {"sweep", "settle"} => ReadNow \/ ReadBefore(old)

ReadsInv ==
  /\ moved \in 0..2
  /\ pc \in {"off", "idle"} => ~flags.ok
  /\ pc = "sweep" => todo \subseteq cache.known
  /\ pc = "settle" /\ sweptOk => todo = {} /\ cache.tokens = out
  /\ pc \notin {"off", "idle"} /\ moved < 2 =>
       \E old \in [Ids -> 0..Total] : BeganWith(old)

ConserveInv == ChainInv /\ KnownInv /\ ReadsInv /\ BaselineNeedsTwo

\* The operations counted are exactly those from the first block ever scanned
\* up to the watermark, in memory and on disk, whatever the log pager reached
\* and whenever the dashboard was closed or died: the counters say what the
\* watermark says (_scan_operations, apply_operation).
CountedToMark ==
  \A c \in {cache, file} : c.applied = OpsIn(c.first, c.mark)

\* Whatever lags, no operation is counted in front of the first block scanned
\* or beyond the watermark: a count may miss operations, never be ahead.
NothingAhead ==
  \A c \in {cache, file} : c.applied \subseteq OpsIn(c.first, c.mark)

\* What makes the two inductive: the cache has its fields, and no watermark,
\* head or first block is ahead of the chain.
Tally(c) ==
  /\ DOMAIN c = CountFields
  /\ c.mark \in 0..HeadBlock /\ c.first \in Nat
  /\ c.mark # 0 => c.first <= c.mark
  /\ c.applied \subseteq OpsIn(c.first, c.mark)
  /\ Lag = 0 => OpsIn(c.first, c.mark) \subseteq c.applied

CountInv ==
  /\ ops \in Seq({ops[k] : k \in DOMAIN ops})
  /\ block \in 0..HeadBlock
  /\ Tally(cache) /\ Tally(file)

\* What the comments of fetch_and_compute and set_invariant_baseline_if_unset
\* say: the baseline is a sum that was observed, that of a complete count.
BaselineIsTotal == cache.baseline \in {0, Total}

\* What a comment of _scan_operations says: no block is ever skipped over.
NoBlockPassed == OpsIn(cache.first, cache.mark) \subseteq cache.applied

\* Once nothing fails any more, the cycles come to a verdict and keep one:
\* the ids of the allocator and the logs together find every token, whatever
\* was missed before (_seed_transform_ids).  Clear weather stays, so it is the same
\* as clear ~> [](verdict ...) and cheaper to check.
EventuallyJudged == <>[](clear => verdict \in {"intact", "drift"})

=============================================================================
