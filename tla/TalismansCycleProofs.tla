------------------------ MODULE TalismansCycleProofs ------------------------
(***************************************************************************)
(* Proofs about the refresh cycle of the Talismans dashboard, for every    *)
(* collection, chunk, look-back and bound.                                 *)
(*                                                                         *)
(* The counters are never ahead of the watermark, and agree with it as     *)
(* long as no endpoint is behind the head another one has named.  The      *)
(* baseline of core conservation is the sum there is, and the alarm is     *)
(* meant, unless two operations went by in one cycle.                      *)
(***************************************************************************)
EXTENDS TalismansCycle, FiniteSetTheorems, SequenceTheorems, TLAPS

-----------------------------------------------------------------------------
(***************************************************************************)
(* The counters.                                                           *)
(***************************************************************************)
\* A chain that has grown has the blocks it had: what was counted up to a
\* watermark is still all there is up to it.
LEMMA GrownTally ==
  ASSUME CountInv, NEW made, ops' = Append(ops, made), NEW c, Tally(c), c' = c
  PROVE  /\ Tally(c)'
         /\ ops' \in Seq({ops'[k] : k \in DOMAIN ops'})
         /\ HeadBlock' = HeadBlock + 1
PROOF
  <1> DEFINE S == {ops[k] : k \in DOMAIN ops}
             T == {ops'[k] : k \in DOMAIN ops'}
  <1>1. ops \in Seq(S)
    BY DEF CountInv
  <1>2. /\ Len(ops) \in Nat /\ DOMAIN ops = 1..Len(ops)
        /\ DOMAIN ops' = 1..(Len(ops) + 1) /\ Len(ops') = Len(ops) + 1
    BY <1>1
  <1>3. ops' \in Seq(T)
    <2>1. \A i \in 1..Len(ops') : ops'[i] \in T
      BY <1>2
    <2>2. ops' \in Seq(S \cup {made})
      <3>1. ops \in Seq(S \cup {made})
        BY <1>1
      <3> QED BY <3>1
    <2> QED BY <2>1, <2>2
  <1>4. HeadBlock' = HeadBlock + 1
    BY <1>2 DEF HeadBlock
  <1>5. OpsIn(c.first, c.mark)' = OpsIn(c.first, c.mark)
    BY <1>2, c' = c DEF OpsIn, Tally, HeadBlock
  <1> QED BY <1>2, <1>3, <1>4, <1>5, c' = c DEF Tally, HeadBlock

\* A scan starts behind the watermark, or at a block of the look-back.
LEMMA FromBehindMark ==
  ASSUME CountInv, CycleAssumption
  PROVE  From \in Nat /\ (cache.mark # 0 => From = cache.mark + 1)
PROOF
  <1>1. block \in Nat /\ cache.mark \in Nat
    <2>1. Len(ops) \in Nat
      BY DEF CountInv
    <2> QED BY <2>1 DEF CountInv, Tally, HeadBlock
  <1>2. CASE cache.mark # 0
    BY <1>1, <1>2 DEF From
  <1>3. CASE cache.mark = 0
    <2> DEFINE x == block - Lookback
    <2>1. x \in Int
      BY <1>1 DEF CycleAssumption
    <2>2. \E m \in {0, x} : \A y \in {0, x} : m >= y
      BY <2>1
    <2>3. Max({0, x}) \in {0, x} /\ \A y \in {0, x} : Max({0, x}) >= y
      <3> HIDE DEF x
      <3> QED BY <2>1, <2>2 DEF Max
    <2>4. Max({0, x}) \in Nat
      BY <2>1, <2>3
    <2> QED BY <1>3, <2>4 DEF From
  <1> QED BY <1>2, <1>3

\* The blocks a scan has read join those up to the watermark without a gap
\* and without an overlap.
LEMMA ScanKeepsTally ==
  ASSUME CycleAssumption, CountInv, Scan
  PROVE  Tally(cache)'
PROOF
  <1>1. Len(ops) \in Nat /\ DOMAIN ops = 1..Len(ops) /\ ops' = ops
    <2>1. Len(ops) \in Nat /\ DOMAIN ops = 1..Len(ops)
      BY DEF CountInv
    <2>2. ops' = ops
      BY DEF Scan
    <2> QED BY <2>1, <2>2
  <1>2. From \in Nat /\ (cache.mark # 0 => From = cache.mark + 1)
    BY FromBehindMark
  <1>3. HeadBlock \in Nat /\ HeadBlock' = HeadBlock
    BY <1>1 DEF HeadBlock
  <1>4. Tally(cache) /\ block \in 0..HeadBlock
    BY DEF CountInv
  <1>5. CASE UNCHANGED cache
    BY <1>1, <1>4, <1>5 DEF Tally, OpsIn, HeadBlock
  <1>6. ASSUME NEW reached \in (From - 1)..block, reached >= From, NEW seen, NEW known,
               seen \subseteq OpsIn(From, reached),
               Lag = 0 => OpsIn(From, reached) \subseteq seen,
               cache' = [cache EXCEPT
                 !.known = known,
                 !.applied = @ \cup seen,
                 !.first = IF cache.mark = 0 THEN From ELSE @,
                 !.mark = Mark(reached)]
        PROVE  Tally(cache)'
    <2>1. /\ DOMAIN cache' = CountFields
          /\ cache'.mark = reached
          /\ cache'.first = IF cache.mark = 0 THEN From ELSE cache.first
          /\ cache'.applied = cache.applied \cup seen
      BY <1>4, <1>6 DEF Tally, CountFields, Mark
    <2>2. /\ reached \in 0..HeadBlock /\ From <= reached
          /\ cache.first \in Nat /\ cache.mark \in Nat
          /\ cache.applied \subseteq OpsIn(cache.first, cache.mark)
          /\ Lag = 0 => OpsIn(cache.first, cache.mark) \subseteq cache.applied
      BY <1>2, <1>3, <1>4, <1>6 DEF Tally
    <2>3. OpsIn(cache'.first, cache'.mark) = OpsIn(cache.first, cache.mark) \cup OpsIn(From, reached)
      <3>1. CASE cache.mark = 0
        <4>1. OpsIn(cache.first, cache.mark) = {}
          BY <1>1, <2>2, <3>1 DEF OpsIn
        <4> QED BY <2>1, <3>1, <4>1
      <3>2. CASE cache.mark # 0
        <4>1. From = cache.mark + 1 /\ cache.first <= cache.mark
          BY <1>2, <1>4, <3>2 DEF Tally
        <4>2. OpsIn(cache.first, cache.mark) \cup OpsIn(From, reached)
                = OpsIn(cache.first, reached)
          BY <1>1, <2>2, <4>1 DEF OpsIn
        <4> QED BY <2>1, <3>2, <4>2
      <3> QED BY <3>1, <3>2
    <2>4. cache'.first \in Nat /\ cache'.first <= cache'.mark
      BY <1>2, <1>4, <2>1, <2>2 DEF Tally
    <2>5. /\ cache'.applied \subseteq OpsIn(cache'.first, cache'.mark)
          /\ Lag = 0 => OpsIn(cache'.first, cache'.mark) \subseteq cache'.applied
      BY <1>6, <2>1, <2>2, <2>3
    <2> QED BY <1>1, <1>3, <2>1, <2>2, <2>4, <2>5 DEF Tally, OpsIn
  <1>7. \/ UNCHANGED cache
        \/ \E reached \in (From - 1)..block : \E seen, known :
             /\ reached >= From
             /\ seen \subseteq OpsIn(From, reached)
             /\ Lag = 0 => OpsIn(From, reached) \subseteq seen
             /\ cache' = [cache EXCEPT
                  !.known = known,
                  !.applied = @ \cup seen,
                  !.first = IF cache.mark = 0 THEN From ELSE @,
                  !.mark = Mark(reached)]
    <2>1. CASE block = 0 \/ From > block
      BY <2>1 DEF Scan
    <2>2. CASE ~(block = 0 \/ From > block)
      <3>1. block \in Int /\ From - 1 <= block /\ From <= block
        BY <1>2, <1>3, <1>4, <2>2
      <3>2. PICK reached \in IF clear THEN {block} ELSE (From - 1)..block,
                 served \in (HeadBlock - Lag)..HeadBlock :
              LET seen == OpsIn(From, IF reached <= served THEN reached ELSE served)
              IN  IF reached < From THEN UNCHANGED cache
                  ELSE cache' = [cache EXCEPT
                         !.known = @ \cup UNION {ops[k] : k \in seen},
                         !.applied = @ \cup seen,
                         !.first = IF cache.mark = 0 THEN From ELSE @,
                         !.mark = Mark(reached)]
        BY <2>2 DEF Scan
      <3> DEFINE seen == OpsIn(From, IF reached <= served THEN reached ELSE served)
      <3>3. reached \in (From - 1)..block /\ served \in Int
        BY <1>2, <1>3, <3>1, <3>2 DEF CycleAssumption
      <3>4. Lag = 0 => reached <= served
        BY <1>2, <1>3, <1>4, <3>1, <3>2, <3>3
      <3>5. CASE reached < From
        BY <3>2, <3>5
      <3>6. CASE ~(reached < From)
        <4>1. reached >= From
          BY <1>2, <3>1, <3>3, <3>6
        <4>2. seen \subseteq OpsIn(From, reached) /\ (Lag = 0 => seen = OpsIn(From, reached))
          BY <1>1, <1>2, <3>1, <3>3, <3>4 DEF OpsIn
        <4>3. cache' = [cache EXCEPT
                !.known = cache.known \cup UNION {ops[k] : k \in seen},
                !.applied = @ \cup seen,
                !.first = IF cache.mark = 0 THEN From ELSE @,
                !.mark = Mark(reached)]
          BY <3>2, <3>6
        <4> HIDE DEF seen
        <4> QED BY <3>3, <4>1, <4>2, <4>3
      <3> QED BY <3>5, <3>6
    <2> QED BY <2>1, <2>2
  <1> QED BY <1>5, <1>6, <1>7

\* Nothing is counted by an empty cache.
LEMMA NewTally ==
  ASSUME ops \in Seq({ops[k] : k \in DOMAIN ops})
  PROVE  Tally(NewCache)
PROOF
  <1>1. Len(ops) \in Nat /\ DOMAIN ops = 1..Len(ops)
    OBVIOUS
  <1>2. OpsIn(1, 0) = {}
    BY <1>1 DEF OpsIn
  <1> QED BY <1>1, <1>2 DEF Tally, NewCache, CountFields, HeadBlock

\* Every step of the chain, the cycle and the process keeps the invariant.
LEMMA StepKeepsCount ==
  ASSUME CycleAssumption, CountInv, [Next]_vars
  PROVE  CountInv'
PROOF
  <1>1. Len(ops) \in Nat /\ HeadBlock \in Nat /\ HeadBlock >= 1
    BY DEF CountInv, HeadBlock
  <1>2. ASSUME NEW made, NEW after, Operate(made, after)
        PROVE  CountInv'
    <2>1. ops' = Append(ops, made) /\ cache' = cache /\ file' = file /\ block' = block
      BY <1>2 DEF Operate, cycleVars
    <2>2. Tally(cache) /\ Tally(file)
      BY DEF CountInv
    <2>3. Tally(cache)'
      BY <2>1, <2>2, GrownTally
    <2>4. Tally(file)'
      BY <2>1, <2>2, GrownTally
    <2>5. /\ ops' \in Seq({ops'[k] : k \in DOMAIN ops'})
          /\ HeadBlock' = HeadBlock + 1
      BY <2>1, <2>2, GrownTally
    <2>6. block' \in 0..HeadBlock'
      <3>1. block \in 0..HeadBlock
        BY DEF CountInv
      <3> QED BY <1>1, <2>1, <2>5, <3>1
    <2> QED BY <2>3, <2>4, <2>5, <2>6 DEF CountInv
  <1>3. ASSUME ops' = ops, block' \in 0..HeadBlock, Tally(cache)', Tally(file)'
        PROVE  CountInv'
    <2>1. HeadBlock' = HeadBlock /\ ops' \in Seq({ops'[k] : k \in DOMAIN ops'})
      BY <1>3 DEF CountInv, HeadBlock
    <2> QED BY <1>3, <2>1 DEF CountInv
  <1>4. block \in 0..HeadBlock /\ 0 \in 0..HeadBlock /\ HeadBlock \in 0..HeadBlock
    BY <1>1 DEF CountInv
  <1>5. ASSUME ops' = ops, file' = file
        PROVE  Tally(file)'
    BY <1>5 DEF CountInv, Tally, OpsIn, HeadBlock
  <1>6. ASSUME ops' = ops,
               cache' = cache \/ (\E K : cache' = [cache EXCEPT !.known = K])
                 \/ (\E K : cache' = [cache EXCEPT !.tokens = K])
        PROVE  Tally(cache)'
    <2>1. Tally(cache)
      BY DEF CountInv
    <2>2. /\ DOMAIN cache' = CountFields /\ cache'.mark = cache.mark
          /\ cache'.first = cache.first /\ cache'.applied = cache.applied
      BY <1>6, <2>1 DEF Tally, CountFields
    <2> QED BY <1>6, <2>1, <2>2 DEF Tally, OpsIn, HeadBlock
  <1>7. CASE Bond
    BY <1>2, <1>7 DEF Bond
  <1>8. CASE Cleave
    BY <1>2, <1>8 DEF Cleave
  <1>9. CASE BeginCycle \/ ReadFlags \/ SweepChunk \/ SweepFails
    <2>1. ops' = ops /\ block' = block /\ cache' = cache /\ file' = file
      BY <1>9 DEF BeginCycle, ReadFlags, SweepChunk, SweepFails
    <2> QED BY <1>3, <1>4, <1>5, <1>6, <2>1
  <1>10. CASE ReadBlock
    <2>1. ops' = ops /\ block' \in {HeadBlock, 0} /\ cache' = cache /\ file' = file
      BY <1>10 DEF ReadBlock
    <2> QED BY <1>3, <1>4, <1>5, <1>6, <2>1
  <1>11. CASE Seed
    <2>1. /\ ops' = ops /\ block' = block /\ file' = file
          /\ \E K : cache' = [cache EXCEPT !.known = K]
      BY <1>11 DEF Seed, cycleVars
    <2> QED BY <1>3, <1>4, <1>5, <1>6, <2>1
  <1>12. CASE Scan
    <2>1. ops' = ops /\ block' = block /\ file' = file
      BY <1>12 DEF Scan
    <2>2. Tally(cache)'
      BY <1>12, ScanKeepsTally
    <2> QED BY <1>3, <1>4, <1>5, <2>1, <2>2
  <1>13. CASE SweepDone
    <2>1. /\ ops' = ops /\ block' = block /\ file' = file
          /\ \E K : cache' = [cache EXCEPT !.tokens = K]
      BY <1>13 DEF SweepDone, cycleVars
    <2> QED BY <1>3, <1>4, <1>5, <1>6, <2>1
  <1>14. CASE Settle
    <2>1. /\ ops' = ops /\ block' = 0 /\ cache' = Baselined
          /\ file' = file \/ file' = Baselined
      BY <1>14 DEF Settle, LocalsGone
    <2>2. Tally(cache)
      BY DEF CountInv
    <2>3. /\ DOMAIN cache' = CountFields /\ cache'.mark = cache.mark
          /\ cache'.first = cache.first /\ cache'.applied = cache.applied
      BY <2>1, <2>2 DEF Baselined, Tally, CountFields
    <2>4. Tally(cache)'
      BY <2>1, <2>2, <2>3 DEF Tally, OpsIn, HeadBlock
    <2>5. Tally(file)'
      <3>1. CASE file' = file
        BY <1>5, <2>1, <3>1
      <3>2. CASE file' = Baselined
        BY <2>1, <2>4, <3>2 DEF Tally
      <3> QED BY <2>1, <3>1, <3>2
    <2> QED BY <1>3, <1>4, <2>1, <2>4, <2>5
  <1>15. CASE Start
    <2>1. /\ ops' = ops /\ block' = block /\ file' = file
          /\ \E K : cache' = [file EXCEPT !.known = K]
      BY <1>15 DEF Start, cycleVars
    <2>2. Tally(file)
      BY DEF CountInv
    <2>3. /\ DOMAIN cache' = CountFields /\ cache'.mark = file.mark
          /\ cache'.first = file.first /\ cache'.applied = file.applied
      BY <2>1, <2>2 DEF Tally, CountFields
    <2>4. Tally(cache)'
      BY <2>1, <2>2, <2>3 DEF Tally, OpsIn, HeadBlock
    <2> QED BY <1>3, <1>4, <1>5, <2>1, <2>4
  <1>16. CASE Close \/ Crash
    <2>1. /\ ops' = ops /\ block' = 0 /\ cache' = NewCache
          /\ file' = file \/ file' = cache
      BY <1>16 DEF Close, Crash, Stopped, LocalsGone
    <2>2. Tally(cache)'
      <3>1. Tally(NewCache)
        BY NewTally DEF CountInv
      <3>2. NewCache' = NewCache
        BY DEF NewCache
      <3> QED BY <2>1, <3>1, <3>2 DEF Tally, OpsIn, HeadBlock
    <2>3. Tally(file)'
      <3>1. CASE file' = file
        BY <1>5, <2>1, <3>1
      <3>2. CASE file' = cache
        BY <2>1, <3>2 DEF CountInv, Tally, OpsIn, HeadBlock
      <3> QED BY <2>1, <3>1, <3>2
    <2> QED BY <1>3, <1>4, <2>1, <2>2, <2>3
  <1>17. CASE UNCHANGED vars
    <2>1. ops' = ops /\ block' = block /\ cache' = cache /\ file' = file
      BY <1>17 DEF vars, cycleVars
    <2> QED BY <1>3, <1>4, <1>5, <1>6, <2>1
  <1> QED
    BY <1>7, <1>8, <1>9, <1>10, <1>11, <1>12, <1>13, <1>14, <1>15, <1>16, <1>17
    DEF Next, Cycle

\* CountInv is invariant: what is counted lies up to the watermark, and nothing
\* is ahead of the chain (_scan_operations, save, load, close).
THEOREM CycleInvariant == Spec => []CountInv
PROOF
  <1>1. Init => CountInv
    <2> SUFFICES ASSUME Init PROVE CountInv
      OBVIOUS
    <2>1. ops = <<>> /\ block = 0 /\ cache = NewCache /\ file = NewCache
      BY DEF Init
    <2>2. ops \in Seq({ops[k] : k \in DOMAIN ops}) /\ Len(ops) = 0
      BY <2>1
    <2>3. Tally(NewCache) /\ HeadBlock = 1
      BY <2>2, NewTally DEF HeadBlock
    <2> QED BY <2>1, <2>2, <2>3 DEF CountInv
  <1>2. CountInv /\ [Next]_vars => CountInv'
    BY CycleAssumption, StepKeepsCount
  <1> QED BY <1>1, <1>2, PTL DEF Spec

\* No operation is counted that the watermark does not answer for, however far
\* the node that serves the logs is behind the one that names the head: a count
\* is never ahead of its watermark, in memory and on disk (_scan_operations).
THEOREM NothingCountedAhead == Spec => []NothingAhead
PROOF
  <1>1. CountInv => NothingAhead
    BY DEF CountInv, Tally, NothingAhead
  <1> QED BY <1>1, CycleInvariant, PTL

\* Where no node lags the operations counted are exactly those from the
\* first block ever scanned up to the watermark, whatever fails and however
\* often the dashboard is closed or dies (_scan_operations).
THEOREM CountersMatchWatermark ==
  ASSUME Lag = 0
  PROVE  Spec => []CountedToMark
PROOF
  <1>1. ASSUME CountInv
        PROVE  CountedToMark
    <2>1. ASSUME NEW c, Tally(c)
          PROVE  c.applied = OpsIn(c.first, c.mark)
      BY <2>1 DEF Tally
    <2>2. Tally(cache) /\ Tally(file)
      BY <1>1 DEF CountInv
    <2> QED BY <2>1, <2>2 DEF CountedToMark
  <1> QED BY <1>1, CycleInvariant, PTL

-----------------------------------------------------------------------------
(***************************************************************************)
(* Sums.  Sum is a recursive function of the sets it is given, so what it  *)
(* satisfies is proved from a minimal set that would not: WFMin says of a set *)
(* of finite sets that one of them is minimal.                             *)
(***************************************************************************)
\* The recursion of Sum, as a function on the subsets of T.
First(s) == CHOOSE x \in s : TRUE
SumsOver(g, f, T) ==
  g = [s \in SUBSET T |-> IF s = {} THEN 0 ELSE f[First(s)] + g[s \ {First(s)}]]

\* What SumsOver says of a function: it is Sum on the subsets of T.
LEMMA SumIs ==
  ASSUME NEW f, NEW S
  PROVE  Sum(f, S) = (CHOOSE g : SumsOver(g, f, S))[S]
BY DEF Sum, MapThenSumSet, MapThenFoldSet, First, SumsOver

\* Of the subsets of a finite set that have a property, one is minimal.
LEMMA Minimal ==
  ASSUME NEW S, IsFiniteSet(S), NEW Bad, Bad \subseteq SUBSET S, Bad # {}
  PROVE  \E T \in Bad : \A U \in Bad : U \subseteq T => U = T
PROOF
  <1>1. Bad \subseteq FiniteSubsetsOf(S)
    BY FS_FiniteSubsetsOfFinite
  <1>2. IsWellFoundedOn(StrictSubsetOrdering(S), FiniteSubsetsOf(S))
    BY FS_StrictSubsetOrderingWellFounded
  <1>3. \E T \in Bad : \A U \in Bad : ~(<<U, T>> \in StrictSubsetOrdering(S))
    BY <1>1, <1>2, WFMin
  <1> QED BY <1>3 DEF StrictSubsetOrdering

\* The first of a set that is not empty is in it.
LEMMA FirstIn ==
  ASSUME NEW s, s # {}
  PROVE  First(s) \in s
BY DEF First

\* Two functions that recur alike agree where both are defined.
LEMMA SumsAgree ==
  ASSUME NEW f, NEW S, IsFiniteSet(S), NEW T \in SUBSET S, NEW g, NEW h,
         SumsOver(g, f, S), SumsOver(h, f, T), NEW s \in SUBSET T
  PROVE  g[s] = h[s]
PROOF
  <1> DEFINE Bad == {u \in SUBSET T : g[u] # h[u]}
  <1> SUFFICES ASSUME Bad # {} PROVE FALSE
    OBVIOUS
  <1>1. Bad \subseteq SUBSET S
    OBVIOUS
  <1>2. PICK u \in Bad : \A v \in Bad : v \subseteq u => v = u
    <2> HIDE DEF Bad
    <2> QED BY <1>1, Minimal
  <1>3. g[u] = IF u = {} THEN 0 ELSE f[First(u)] + g[u \ {First(u)}]
    BY DEF SumsOver
  <1>4. h[u] = IF u = {} THEN 0 ELSE f[First(u)] + h[u \ {First(u)}]
    BY DEF SumsOver
  <1>5. u # {}
    BY <1>3, <1>4
  <1>6. u \ {First(u)} \notin Bad
    BY <1>2, <1>5, FirstIn
  <1> QED BY <1>3, <1>4, <1>6

\* There is such a function.
LEMMA SumsExist ==
  ASSUME NEW f, NEW S, IsFiniteSet(S)
  PROVE  \E g : SumsOver(g, f, S)
PROOF
  <1> DEFINE Bad == {T \in SUBSET S : ~\E g : SumsOver(g, f, T)}
             The(T) == CHOOSE h : SumsOver(h, f, T)
  <1> SUFFICES ASSUME Bad # {} PROVE FALSE
    OBVIOUS
  <1>1. PICK T \in Bad : \A U \in Bad : U \subseteq T => U = T
    <2>1. Bad \subseteq SUBSET S
      OBVIOUS
    <2> HIDE DEF Bad
    <2> QED BY <2>1, Minimal
  <1>2. \A U \in SUBSET T : U # T => SumsOver(The(U), f, U)
    <2> TAKE U \in SUBSET T
    <2>1. U # T => \E g : SumsOver(g, f, U)
      BY <1>1
    <2> QED BY <2>1
  <1> DEFINE rest(s) == s \ {First(s)}
             g == [s \in SUBSET T |->
                     IF s = {} THEN 0 ELSE f[First(s)] + The(rest(s))[rest(s)]]
  <1>3. \A s \in SUBSET T : s # {} => rest(s) \in SUBSET T /\ rest(s) # T /\ rest(s) \subseteq s
    BY FirstIn
  <1> HIDE DEF The
  <1>4. \A s \in SUBSET T : s # {} => The(rest(s))[rest(s)] = g[rest(s)]
    <2> SUFFICES ASSUME NEW s \in SUBSET T, s # {}
                 PROVE  The(rest(s))[rest(s)] = g[rest(s)]
      OBVIOUS
    <2> DEFINE u == rest(s)
    <2>1. u \in SUBSET T /\ u # T /\ SumsOver(The(u), f, u)
      BY <1>2, <1>3
    <2>2. The(u)[u] = IF u = {} THEN 0 ELSE f[First(u)] + The(u)[rest(u)]
      BY <2>1 DEF SumsOver
    <2>3. u # {} => The(u)[rest(u)] = The(rest(u))[rest(u)]
      <3> SUFFICES ASSUME u # {} PROVE The(u)[rest(u)] = The(rest(u))[rest(u)]
        OBVIOUS
      <3> HIDE DEF u
      <3>1. rest(u) \in SUBSET u /\ SumsOver(The(rest(u)), f, rest(u))
        BY <1>2, <1>3, <2>1
      <3>2. IsFiniteSet(u)
        BY <1>1, <2>1, FS_Subset
      <3> HIDE DEF rest
      <3>3. rest(u) \in SUBSET rest(u)
        OBVIOUS
      <3> QED BY <2>1, <3>1, <3>2, <3>3, SumsAgree
    <2> HIDE DEF u
    <2>4. g[u] = IF u = {} THEN 0 ELSE f[First(u)] + The(rest(u))[rest(u)]
      BY <2>1
    <2> QED BY <2>2, <2>3, <2>4 DEF u
  <1>5. SumsOver(g, f, T)
    <2>1. g = [s \in SUBSET T |-> IF s = {} THEN 0 ELSE f[First(s)] + g[rest(s)]]
      <3> HIDE DEF rest
      <3>1. \A s \in SUBSET T : g[s] = IF s = {} THEN 0 ELSE f[First(s)] + g[rest(s)]
        <4> TAKE s \in SUBSET T
        <4>1. g[s] = IF s = {} THEN 0 ELSE f[First(s)] + The(rest(s))[rest(s)]
          OBVIOUS
        <4> QED BY <1>4, <4>1
      <3>2. g = [s \in SUBSET T |-> g[s]]
        OBVIOUS
      <3> HIDE DEF g
      <3> QED BY <3>1, <3>2
    <2> HIDE DEF g
    <2> QED BY <2>1 DEF SumsOver
  <1> QED BY <1>1, <1>5

\* What is summed: the elements are counted one after the other.
LEMMA SumFirst ==
  ASSUME NEW f, NEW S, IsFiniteSet(S)
  PROVE  Sum(f, S) = IF S = {} THEN 0 ELSE f[First(S)] + Sum(f, S \ {First(S)})
PROOF
  <1> DEFINE The(T) == CHOOSE h : SumsOver(h, f, T)
             R == S \ {First(S)}
  <1>1. R \in SUBSET S /\ R \in SUBSET R /\ S \in SUBSET S
    OBVIOUS
  <1> HIDE DEF R
  <1>2. SumsOver(The(S), f, S)
    BY SumsExist
  <1>3. SumsOver(The(R), f, R)
    BY <1>1, FS_Subset, SumsExist
  <1> HIDE DEF The
  <1>4. The(S)[S] = IF S = {} THEN 0 ELSE f[First(S)] + The(S)[R]
    BY <1>1, <1>2 DEF SumsOver, R
  <1>5. The(S)[R] = The(R)[R]
    BY <1>1, <1>2, <1>3, SumsAgree
  <1>6. Sum(f, S) = The(S)[S] /\ Sum(f, R) = The(R)[R]
    BY SumIs DEF The
  <1> QED BY <1>4, <1>5, <1>6 DEF R

\* A finite sum of naturals is a natural.
LEMMA SumIsNat ==
  ASSUME NEW f, NEW S, IsFiniteSet(S), \A x \in S : f[x] \in Nat
  PROVE  Sum(f, S) \in Nat
PROOF
  <1> DEFINE Bad == {T \in SUBSET S : Sum(f, T) \notin Nat}
  <1> SUFFICES ASSUME Bad # {} PROVE FALSE
    OBVIOUS
  <1>1. PICK T \in Bad : \A U \in Bad : U \subseteq T => U = T
    <2>1. Bad \subseteq SUBSET S
      OBVIOUS
    <2> HIDE DEF Bad
    <2> QED BY <2>1, Minimal
  <1>2. Sum(f, T) = IF T = {} THEN 0 ELSE f[First(T)] + Sum(f, T \ {First(T)})
    BY FS_Subset, SumFirst
  <1>3. T # {}
    BY <1>2
  <1>4. First(T) \in S /\ T \ {First(T)} \in SUBSET S /\ T \ {First(T)} # T
    BY <1>3, FirstIn
  <1>5. Sum(f, T \ {First(T)}) \in Nat
    BY <1>1, <1>4
  <1> QED BY <1>2, <1>3, <1>4, <1>5

\* The order does not matter: any element may be counted first.
LEMMA SumRemove ==
  ASSUME NEW f, NEW S, IsFiniteSet(S), \A y \in S : f[y] \in Nat, NEW x \in S
  PROVE  Sum(f, S) = f[x] + Sum(f, S \ {x})
PROOF
  <1> DEFINE Bad == {T \in SUBSET S : \E y \in T : Sum(f, T) # f[y] + Sum(f, T \ {y})}
  <1> SUFFICES ASSUME Bad # {} PROVE FALSE
    OBVIOUS
  <1>1. PICK T \in Bad : \A U \in Bad : U \subseteq T => U = T
    <2>1. Bad \subseteq SUBSET S
      OBVIOUS
    <2> HIDE DEF Bad
    <2> QED BY <2>1, Minimal
  <1>2. PICK y \in T : Sum(f, T) # f[y] + Sum(f, T \ {y})
    OBVIOUS
  <1> DEFINE p == First(T)
  <1>3. T \in SUBSET S /\ IsFiniteSet(T) /\ T # {}
    BY FS_Subset
  <1>4. p \in T
    BY <1>3, FirstIn
  <1>5. Sum(f, T) = f[p] + Sum(f, T \ {p})
    BY <1>3, SumFirst
  <1> HIDE DEF p
  <1>6. y # p
    BY <1>2, <1>5
  <1>7. T \ {p} \notin Bad /\ T \ {y} \notin Bad
    BY <1>1, <1>4
  <1>8. Sum(f, T \ {p}) = f[y] + Sum(f, (T \ {p}) \ {y})
    BY <1>3, <1>6, <1>7
  <1>9. Sum(f, T \ {y}) = f[p] + Sum(f, (T \ {y}) \ {p})
    BY <1>3, <1>4, <1>6, <1>7
  <1> DEFINE Q == (T \ {p}) \ {y}
  <1>10. (T \ {y}) \ {p} = Q /\ Q \in SUBSET S
    BY <1>3
  <1>11. Sum(f, Q) \in Nat /\ f[y] \in Nat /\ f[p] \in Nat
    BY <1>3, <1>4, <1>10, FS_Subset, SumIsNat
  <1> HIDE DEF Q, Bad
  <1>12. Sum(f, T) = f[p] + (f[y] + Sum(f, Q)) /\ Sum(f, T \ {y}) = f[p] + Sum(f, Q)
    BY <1>5, <1>8, <1>9, <1>10 DEF Q
  <1> QED BY <1>2, <1>11, <1>12

\* One more element adds its number.
LEMMA SumAdd ==
  ASSUME NEW f, NEW S, IsFiniteSet(S), NEW x, x \notin S, \A y \in S \cup {x} : f[y] \in Nat
  PROVE  Sum(f, S \cup {x}) = f[x] + Sum(f, S)
PROOF
  <1>1. (S \cup {x}) \ {x} = S /\ IsFiniteSet(S \cup {x})
    BY FS_AddElement
  <1> QED BY <1>1, SumRemove

\* Only what is counted matters.
LEMMA SumSame ==
  ASSUME NEW f, NEW h, NEW S, IsFiniteSet(S), \A x \in S : f[x] = h[x]
  PROVE  Sum(f, S) = Sum(h, S)
PROOF
  <1> DEFINE Bad == {T \in SUBSET S : Sum(f, T) # Sum(h, T)}
  <1> SUFFICES ASSUME Bad # {} PROVE FALSE
    OBVIOUS
  <1>1. PICK T \in Bad : \A U \in Bad : U \subseteq T => U = T
    <2>1. Bad \subseteq SUBSET S
      OBVIOUS
    <2> HIDE DEF Bad
    <2> QED BY <2>1, Minimal
  <1> DEFINE p == First(T)
             R == T \ {p}
  <1>2. IsFiniteSet(T)
    BY FS_Subset
  <1>3. Sum(f, T) = (IF T = {} THEN 0 ELSE f[p] + Sum(f, R))
        /\ Sum(h, T) = (IF T = {} THEN 0 ELSE h[p] + Sum(h, R))
    BY <1>2, SumFirst
  <1>4. T # {}
    BY <1>3
  <1>5. p \in S /\ R \in SUBSET S /\ R \subseteq T /\ R # T
    BY <1>4, FirstIn
  <1> HIDE DEF p, R
  <1>6. Sum(f, R) = Sum(h, R)
    BY <1>1, <1>5
  <1> QED BY <1>1, <1>3, <1>4, <1>5, <1>6

-----------------------------------------------------------------------------
(***************************************************************************)
(* Conservation.                                                           *)
(***************************************************************************)
LEMMA SizesAreNat ==
  ASSUME CycleAssumption
  PROVE  /\ Len(Genesis) \in Nat /\ MaxOps \in Nat
         /\ Ids = 1..(Len(Genesis) + 2 * MaxOps) /\ IsFiniteSet(Ids)
         /\ \A S \in SUBSET Ids : IsFiniteSet(S)
PROOF
  <1>1. Len(Genesis) \in Nat /\ MaxOps \in Nat
    BY DEF CycleAssumption
  <1>2. IsFiniteSet(Ids)
    <2> DEFINE m == Len(Genesis) + 2 * MaxOps
    <2>1. m \in Int
      BY <1>1
    <2> HIDE DEF m
    <2>2. IsFiniteSet(1..m)
      BY <2>1, FS_Interval
    <2> QED BY <2>2 DEF Ids, m
  <1> QED BY <1>1, <1>2, FS_Subset DEF Ids

\* Of cores that add up to the total none is more than the total.
LEMMA AddsBound ==
  ASSUME CycleAssumption, NEW c \in [Ids -> Nat], Sum(c, AliveIn(c)) = Total
  PROVE  Adds(c) /\ Total \in Nat
PROOF
  <1>1. AliveIn(c) \in SUBSET Ids /\ IsFiniteSet(AliveIn(c))
    BY SizesAreNat DEF AliveIn
  <1>2. \A i \in AliveIn(c) : c[i] \in Nat
    BY DEF AliveIn
  <1>3. Total \in Nat
    BY <1>1, <1>2, SumIsNat
  <1>4. ASSUME NEW i \in Ids PROVE c[i] \in 0..Total
    <2>1. CASE c[i] = 0
      BY <1>3, <2>1
    <2>2. CASE c[i] # 0
      <3>1. i \in AliveIn(c)
        BY <2>2 DEF AliveIn
      <3>2. Total = c[i] + Sum(c, AliveIn(c) \ {i})
        BY <1>1, <1>2, <3>1, SumRemove
      <3>3. Sum(c, AliveIn(c) \ {i}) \in Nat
        BY <1>1, <1>2, SumIsNat, FS_RemoveElement
      <3> QED BY <3>2, <3>3
    <2> QED BY <2>1, <2>2
  <1> QED BY <1>3, <1>4 DEF Adds

\* The allocator moves on by what an operation mints.
LEMMA NextIdGrows ==
  ASSUME CycleAssumption, ChainInv, NEW made, IsFiniteSet(made), ops' = Append(ops, made)
  PROVE  NextId' = NextId + Cardinality(made)
PROOF
  <1> DEFINE n == Len(ops)
  <1>1. n \in Nat /\ DOMAIN ops = 1..n /\ DOMAIN ops' = 1..(n + 1)
        /\ ops'[n + 1] = made /\ \A k \in 1..n : ops'[k] = ops[k]
    BY DEF ChainInv
  <1>2. \A k \in 1..n : Cardinality(ops[k]) \in Nat
    <2> TAKE k \in 1..n
    <2>1. ops[k] \subseteq (Len(Genesis) + 1)..(NextId - 1)
      BY <1>1 DEF ChainInv
    <2>2. Len(Genesis) + 1 \in Int /\ NextId - 1 \in Int
      BY SizesAreNat DEF ChainInv
    <2>3. IsFiniteSet((Len(Genesis) + 1)..(NextId - 1))
      BY <2>2, FS_Interval
    <2> QED BY <2>1, <2>3, FS_Subset, FS_CardinalityType
  <1>3. Cardinality(made) \in Nat
    BY FS_CardinalityType
  <1>4. /\ Minted' = [k \in 1..(n + 1) |-> Cardinality(ops'[k])]
        /\ Minted = [k \in 1..n |-> Cardinality(ops[k])]
    BY <1>1 DEF Minted
  <1>5. \A k \in 1..n : Minted'[k] = Minted[k] /\ Minted'[k] \in Nat
    BY <1>1, <1>2, <1>4
  <1>6. Minted'[n + 1] = Cardinality(made)
    BY <1>1, <1>4
  <1>7. IsFiniteSet(1..n) /\ 1..(n + 1) = (1..n) \cup {n + 1} /\ n + 1 \notin 1..n
    <2>1. 1..(n + 1) = (1..n) \cup {n + 1} /\ n + 1 \notin 1..n
      BY <1>1
    <2>2. 1 \in Int /\ n \in Int
      BY <1>1
    <2> QED BY <2>1, <2>2, FS_Interval
  <1> HIDE DEF n
  <1>8. Sum(Minted', 1..n) = Sum(Minted, 1..n)
    <2> DEFINE D == 1..n
    <2>1. IsFiniteSet(D) /\ \A k \in D : Minted'[k] = Minted[k]
      BY <1>5, <1>7
    <2> HIDE DEF D
    <2>2. Sum(Minted', D) = Sum(Minted, D)
      BY <2>1, SumSame
    <2> QED BY <2>2 DEF D
  <1>9. Sum(Minted', 1..(n + 1)) = Cardinality(made) + Sum(Minted', 1..n)
    <2>1. \A k \in (1..n) \cup {n + 1} : Minted'[k] \in Nat
      BY <1>3, <1>5, <1>6
    <2>2. Sum(Minted', (1..n) \cup {n + 1}) = Minted'[n + 1] + Sum(Minted', 1..n)
      BY <1>7, <2>1, SumAdd
    <2> QED BY <1>6, <1>7, <2>2
  <1>10. Sum(Minted, 1..n) \in Nat
    BY <1>5, <1>7, <1>8, SumIsNat
  <1>11. /\ NextId = Len(Genesis) + 1 + Sum(Minted, 1..n)
         /\ NextId' = Len(Genesis) + 1 + Sum(Minted', 1..(n + 1))
    BY <1>1 DEF NextId
  <1> QED BY <1>3, <1>8, <1>9, <1>10, <1>11, SizesAreNat

\* An operation: tokens die, and the allocator's next ids take over their cores.
Takes(dead, made) ==
  /\ ops' = Append(ops, made) /\ Len(ops) < MaxOps
  /\ made = {NextId} \/ made = {NextId, NextId + 1}
  /\ dead \subseteq Alive /\ dead # {}
  /\ Alive' = (Alive \ dead) \cup made
  /\ \A i \in Alive \ dead : cores'[i] = cores[i]
  /\ Adds(cores)'
  /\ moved' = IF moved < 2 THEN moved + 1 ELSE moved
  /\ UNCHANGED <<pc, cycleVars, cache, file, verdict, starts, clear>>

\* The next ids are ids, and not alive.
LEMMA NextIsFree ==
  ASSUME CycleAssumption, ChainInv, Len(ops) < MaxOps
  PROVE  /\ NextId \in Ids \ Alive /\ NextId + 1 \in Ids \ Alive
         /\ cores \in [Ids -> Nat] /\ Alive \in SUBSET Ids /\ NextId \in Nat
         /\ Total \in Nat
PROOF
  <1>1. Len(ops) \in Nat /\ Len(Genesis) \in Nat /\ MaxOps \in Nat
    BY SizesAreNat DEF ChainInv
  <1>2. NextId \in Nat /\ NextId >= 1 /\ NextId + 1 <= Len(Genesis) + 2 * MaxOps
    BY <1>1 DEF ChainInv
  <1>3. NextId \in Ids /\ NextId + 1 \in Ids
    BY <1>1, <1>2, SizesAreNat
  <1>4. Alive \subseteq 1..(NextId - 1)
    BY DEF ChainInv
  <1>5. Adds(cores) /\ Sum(cores, AliveIn(cores)) = Total
    BY DEF ChainInv, Adds
  <1>6. cores \in [Ids -> Nat]
    <2>1. 0..Total \subseteq Nat
      OBVIOUS
    <2> QED BY <1>5, <2>1 DEF Adds
  <1> QED BY <1>2, <1>3, <1>4, <1>5, <1>6, AddsBound DEF Alive

\* A bond burns two tokens and mints one with the cores of both.
LEMMA BondTakes ==
  ASSUME CycleAssumption, ChainInv, Bond
  PROVE  \E dead, made : Takes(dead, made)
PROOF
  <1>1. PICK a, b \in Alive :
          /\ a < b
          /\ Operate({NextId},
               [cores EXCEPT ![a] = 0, ![b] = 0, ![NextId] = cores[a] + cores[b]])
    BY DEF Bond
  <1>2. /\ Len(ops) < MaxOps /\ ops' = Append(ops, {NextId})
        /\ cores' = [cores EXCEPT ![a] = 0, ![b] = 0, ![NextId] = cores[a] + cores[b]]
        /\ moved' = IF moved < 2 THEN moved + 1 ELSE moved
        /\ UNCHANGED <<pc, cycleVars, cache, file, verdict, starts, clear>>
    BY <1>1 DEF Operate
  <1> DEFINE n == NextId
             Rest == Alive \ {a, b}
  <1>3. /\ n \in Ids \ Alive /\ cores \in [Ids -> Nat] /\ Alive \in SUBSET Ids
        /\ Total \in Nat
    BY <1>2, NextIsFree
  <1> HIDE DEF n
  <1>4. a \in Ids /\ b \in Ids /\ a # b /\ a # n /\ b # n /\ cores[a] > 0 /\ cores[b] > 0
        /\ a \in Nat /\ b \in Nat
    <2>1. a \in Ids /\ b \in Ids /\ cores[a] > 0 /\ cores[b] > 0
      BY <1>1 DEF Alive
    <2>2. a \in Nat /\ b \in Nat
      BY <2>1, SizesAreNat
    <2> QED BY <1>1, <1>3, <2>1, <2>2
  <1>5. /\ cores' \in [Ids -> Nat] /\ cores'[a] = 0 /\ cores'[b] = 0
        /\ cores'[n] = cores[a] + cores[b]
        /\ \A i \in Ids : i \notin {a, b, n} => cores'[i] = cores[i]
    <2>1. cores' = [[[cores EXCEPT ![a] = 0] EXCEPT ![b] = 0]
                      EXCEPT ![n] = cores[a] + cores[b]]
      BY <1>2 DEF n
    <2>2. cores[a] + cores[b] \in Nat
      BY <1>3, <1>4
    <2> QED BY <1>3, <1>4, <2>1, <2>2
  <1>6. Alive' = (Alive \ {a, b}) \cup {n}
    <2>1. Alive' = {i \in Ids : cores'[i] > 0}
      BY DEF Alive, Ids
    <2>2. \A i \in Ids : i \in Alive <=> cores[i] > 0
      BY DEF Alive
    <2>3. cores'[n] > 0 /\ ~(0 > 0)
      BY <1>3, <1>4, <1>5
    <2> QED BY <1>3, <1>4, <1>5, <2>1, <2>2, <2>3
  <1>7. Sum(cores', Alive') = Total
    <2>1. Rest \in SUBSET Ids /\ n \notin Rest /\ IsFiniteSet(Rest) /\ IsFiniteSet(Alive)
      BY <1>3, SizesAreNat
    <2>2. \A i \in Rest : cores'[i] = cores[i] /\ cores[i] \in Nat
      BY <1>3, <1>5
    <2>3. Sum(cores', Rest \cup {n}) = cores'[n] + Sum(cores', Rest)
      <3>1. \A i \in Rest \cup {n} : cores'[i] \in Nat
        BY <1>3, <1>5
      <3> HIDE DEF Rest
      <3> QED BY <2>1, <3>1, SumAdd
    <2>4. Sum(cores', Rest) = Sum(cores, Rest)
      BY <2>1, <2>2, SumSame
    <2>5. Sum(cores, Alive) = cores[a] + Sum(cores, Alive \ {a})
      BY <1>1, <1>3, <2>1, SumRemove
    <2>6. Sum(cores, Alive \ {a}) = cores[b] + Sum(cores, Rest)
      <3>1. (Alive \ {a}) \ {b} = Rest /\ b \in Alive \ {a} /\ IsFiniteSet(Alive \ {a})
        BY <1>1, <1>4, <2>1, FS_RemoveElement
      <3>2. \A i \in Alive \ {a} : cores[i] \in Nat
        BY <1>3
      <3> QED BY <3>1, <3>2, SumRemove
    <2>7. Sum(cores, Rest) \in Nat /\ cores[a] \in Nat /\ cores[b] \in Nat
      BY <1>3, <1>4, <2>1, <2>2, SumIsNat
    <2>8. Sum(cores, Alive) = Total
      BY DEF ChainInv, Adds, AliveIn, Alive
    <2>9. Sum(cores', Alive') = (cores[a] + cores[b]) + Sum(cores, Rest)
      BY <1>5, <1>6, <2>3, <2>4
    <2> HIDE DEF Rest
    <2> QED BY <2>5, <2>6, <2>7, <2>8, <2>9
  <1>8. Adds(cores)'
    <2>1. Sum(cores', AliveIn(cores')) = Total
      BY <1>7 DEF AliveIn, Alive, Ids
    <2>2. Adds(cores')
      BY <1>5, <2>1, AddsBound
    <2>3. Ids' = Ids /\ Total' = Total /\ (AliveIn(cores))' = AliveIn(cores')
      BY DEF AliveIn, Ids, Total, GenesisIds
    <2> QED BY <2>2, <2>3 DEF Adds
  <1> HIDE DEF Rest
  <1>9. Takes({a, b}, {n})
    BY <1>1, <1>2, <1>5, <1>6, <1>3, <1>4, <1>8 DEF Takes, n
  <1> QED BY <1>9

\* A cleave burns one token and mints two with its cores.
LEMMA CleaveTakes ==
  ASSUME CycleAssumption, ChainInv, Cleave
  PROVE  \E dead, made : Takes(dead, made)
PROOF
  <1>1. PICK a \in Alive : \E k \in 1..(cores[a] - 1) :
          Operate({NextId, NextId + 1},
            [cores EXCEPT ![a] = 0, ![NextId] = k, ![NextId + 1] = cores[a] - k])
    BY DEF Cleave
  <1>2. PICK k \in 1..(cores[a] - 1) :
          Operate({NextId, NextId + 1},
            [cores EXCEPT ![a] = 0, ![NextId] = k, ![NextId + 1] = cores[a] - k])
    BY <1>1
  <1> DEFINE n == NextId
             m == NextId + 1
             Rest == Alive \ {a}
  <1>3. /\ Len(ops) < MaxOps /\ ops' = Append(ops, {n, m})
        /\ cores' = [[[cores EXCEPT ![a] = 0] EXCEPT ![n] = k] EXCEPT ![m] = cores[a] - k]
        /\ moved' = IF moved < 2 THEN moved + 1 ELSE moved
        /\ UNCHANGED <<pc, cycleVars, cache, file, verdict, starts, clear>>
    BY <1>2 DEF Operate
  <1>4. /\ n \in Ids \ Alive /\ m \in Ids \ Alive /\ n # m
        /\ cores \in [Ids -> Nat] /\ Alive \in SUBSET Ids /\ Total \in Nat
    <2>1. NextId + 1 # NextId
      BY <1>3, NextIsFree
    <2> QED BY <1>3, <2>1, NextIsFree
  <1> HIDE DEF n, m
  <1>5. /\ a \in Ids /\ a # n /\ a # m /\ cores[a] \in Nat
        /\ k \in Nat /\ cores[a] - k \in Nat /\ k > 0 /\ cores[a] - k > 0
        /\ k + (cores[a] - k) = cores[a]
    <2>1. a \in Ids /\ cores[a] \in Nat
      BY <1>4 DEF Alive
    <2> QED BY <1>4, <2>1
  <1>6. /\ cores' \in [Ids -> Nat] /\ cores'[a] = 0 /\ cores'[n] = k
        /\ cores'[m] = cores[a] - k
        /\ \A i \in Ids : i \notin {a, n, m} => cores'[i] = cores[i]
    BY <1>3, <1>4, <1>5
  <1>7. Alive' = (Alive \ {a}) \cup {n, m}
    <2>1. Alive' = {i \in Ids : cores'[i] > 0}
      BY DEF Alive, Ids
    <2>2. \A i \in Ids : i \in Alive <=> cores[i] > 0
      BY DEF Alive
    <2>3. cores'[n] > 0 /\ cores'[m] > 0 /\ ~(cores'[a] > 0)
      BY <1>5, <1>6
    <2> QED BY <1>4, <1>5, <1>6, <2>1, <2>2, <2>3
  <1>8. Sum(cores', Alive') = Total
    <2>1. /\ Rest \in SUBSET Ids /\ n \notin Rest /\ m \notin Rest \cup {n}
          /\ IsFiniteSet(Rest) /\ IsFiniteSet(Alive) /\ IsFiniteSet(Rest \cup {n})
      BY <1>4, SizesAreNat
    <2>2. \A i \in Rest : cores'[i] = cores[i] /\ cores[i] \in Nat
      BY <1>4, <1>6
    <2>3. \A i \in (Rest \cup {n}) \cup {m} : cores'[i] \in Nat
      BY <1>4, <1>6
    <2>4. Sum(cores, Alive) = cores[a] + Sum(cores, Rest)
      <3>1. a \in Alive /\ IsFiniteSet(Alive) /\ \A y \in Alive : cores[y] \in Nat
        BY <1>1, <1>4, <2>1
      <3> QED BY <3>1, SumRemove
    <2> HIDE DEF Rest
    <2>5. Sum(cores', Rest \cup {n}) = cores'[n] + Sum(cores', Rest)
      BY <2>1, <2>3, SumAdd
    <2>6. Sum(cores', (Rest \cup {n}) \cup {m}) = cores'[m] + Sum(cores', Rest \cup {n})
      BY <2>1, <2>3, SumAdd
    <2>7. Sum(cores', Rest) = Sum(cores, Rest)
      BY <2>1, <2>2, SumSame
    <2>8. Sum(cores, Rest) \in Nat
      BY <2>1, <2>2, SumIsNat
    <2>9. Sum(cores, Alive) = Total
      BY DEF ChainInv, Adds, AliveIn, Alive
    <2>10. Alive' = (Rest \cup {n}) \cup {m}
      BY <1>7 DEF Rest
    <2>11. Sum(cores', Alive') = (cores[a] - k) + (k + Sum(cores, Rest))
      BY <1>6, <2>5, <2>6, <2>7, <2>10
    <2> QED BY <1>5, <2>4, <2>8, <2>9, <2>11
  <1>9. Adds(cores)'
    <2>1. Sum(cores', AliveIn(cores')) = Total
      BY <1>8 DEF AliveIn, Alive, Ids
    <2>2. Adds(cores')
      BY <1>6, <2>1, AddsBound
    <2>3. Ids' = Ids /\ Total' = Total /\ (AliveIn(cores))' = AliveIn(cores')
      BY DEF AliveIn, Ids, Total, GenesisIds
    <2> QED BY <2>2, <2>3 DEF Adds
  <1>10. \A i \in Alive \ {a} : cores'[i] = cores[i]
    BY <1>4, <1>6
  <1> HIDE DEF Rest
  <1>11. Takes({a}, {n, m})
    BY <1>1, <1>3, <1>7, <1>9, <1>10 DEF Takes, n, m
  <1> QED BY <1>11

\* Two ids are two.
LEMMA PairSize ==
  ASSUME NEW x, NEW y, x # y
  PROVE  IsFiniteSet({x, y}) /\ Cardinality({x, y}) = 2
PROOF
  <1> DEFINE S == {x}
             T == S \cup {y}
  <1>1. IsFiniteSet(S) /\ Cardinality(S) = 1 /\ y \notin S
    BY FS_Singleton
  <1> HIDE DEF S
  <1>2. IsFiniteSet(T) /\ Cardinality(T) = Cardinality(S) + 1
    BY <1>1, FS_AddElement
  <1> HIDE DEF T
  <1>3. Cardinality(T) = 2
    BY <1>1, <1>2
  <1>4. T = {x, y}
    BY DEF S, T
  <1> QED BY <1>2, <1>3, <1>4

\* What is minted lies between two values of the allocator.
LEMMA MintedAbove ==
  ASSUME CycleAssumption, ChainInv, NEW dead, NEW made, Takes(dead, made)
  PROVE  /\ NextId \in Nat /\ NextId' \in Nat /\ NextId < NextId' /\ NextId' <= NextId + 2
         /\ made \subseteq NextId..(NextId' - 1) /\ made # {}
         /\ Len(ops) \in Nat /\ DOMAIN ops = 1..Len(ops)
         /\ DOMAIN ops' = 1..(Len(ops) + 1) /\ Len(ops') = Len(ops) + 1
         /\ ops'[Len(ops) + 1] = made /\ \A k \in DOMAIN ops : ops'[k] = ops[k]
         /\ \A k \in DOMAIN ops : ops[k] \subseteq (Len(Genesis) + 1)..(NextId - 1)
PROOF
  <1>1. /\ Len(ops) \in Nat /\ DOMAIN ops = 1..Len(ops) /\ Len(ops) < MaxOps
        /\ ops' = Append(ops, made)
    BY DEF ChainInv, Takes
  <1>2. NextId \in Nat
    BY <1>1, NextIsFree
  <1>3. CASE made = {NextId}
    <2>1. IsFiniteSet(made) /\ Cardinality(made) = 1
      BY <1>3, FS_Singleton
    <2>2. NextId' = NextId + 1
      BY <1>1, <2>1, NextIdGrows
    <2> QED BY <1>1, <1>2, <1>3, <2>2 DEF ChainInv
  <1>4. CASE made = {NextId, NextId + 1}
    <2> DEFINE x == NextId
               y == NextId + 1
    <2>1. x # y
      BY <1>2
    <2> HIDE DEF x, y
    <2>2. IsFiniteSet({x, y}) /\ Cardinality({x, y}) = 2
      BY <2>1, PairSize
    <2>3. IsFiniteSet(made) /\ Cardinality(made) = 2
      BY <1>4, <2>2 DEF x, y
    <2>4. NextId' = NextId + 2
      BY <1>1, <2>3, NextIdGrows
    <2> QED BY <1>1, <1>2, <1>4, <2>4 DEF ChainInv
  <1>5. made = {NextId} \/ made = {NextId, NextId + 1}
    BY DEF Takes
  <1> QED BY <1>3, <1>4, <1>5

\* Two intervals, one before the other, share nothing.
LEMMA Apart ==
  ASSUME NEW a \in Int, NEW b \in Int, NEW c \in Int, NEW d \in Int, b < c,
         NEW K, K \subseteq a..b, NEW M, M \subseteq c..d
  PROVE  K \cap M = {}
PROOF
  <1>1. \A i \in K : i \in Int /\ i <= b
    OBVIOUS
  <1>2. \A i \in M : i \in Int /\ ~(i <= b)
    OBVIOUS
  <1> QED BY <1>1, <1>2

\* An interval that ends later holds at least as much.
LEMMA Wider ==
  ASSUME NEW a \in Int, NEW b \in Int, NEW d \in Int, b <= d, NEW K, K \subseteq a..b
  PROVE  K \subseteq a..d
OBVIOUS

\* No id below the allocator is minted.
LEMMA NoneMinted ==
  ASSUME CycleAssumption, ChainInv, NEW dead, NEW made, Takes(dead, made),
         NEW a \in Int, NEW K, K \subseteq a..(NextId - 1)
  PROVE  made \cap K = {} /\ K \subseteq a..(NextId' - 1)
PROOF
  <1> DEFINE n == NextId
             u == NextId - 1
             v == NextId' - 1
  <1>1. n \in Int /\ u \in Int /\ v \in Int /\ u < n /\ u <= v
    BY MintedAbove
  <1>2. made \subseteq n..v /\ K \subseteq a..u
    BY MintedAbove
  <1> HIDE DEF n, u, v
  <1>3. K \cap made = {} /\ K \subseteq a..v
    BY <1>1, <1>2, Apart, Wider
  <1> QED BY <1>3 DEF v

\* An operation keeps the chain right.
LEMMA ChainGoesOn ==
  ASSUME CycleAssumption, ChainInv, NEW dead, NEW made, Takes(dead, made)
  PROVE  ChainInv'
PROOF
  <1> DEFINE n == Len(ops)
             L == Len(Genesis)
  <1>0. \A k \in DOMAIN ops' : k \in DOMAIN ops \/ k = n + 1
    <2>1. n \in Nat /\ DOMAIN ops = 1..n /\ DOMAIN ops' = 1..(n + 1)
      BY MintedAbove
    <2> HIDE DEF n
    <2> QED BY <2>1
  <1>1. /\ n \in Nat /\ L \in Nat /\ n < MaxOps /\ MaxOps \in Nat
        /\ NextId \in (L + 1)..(L + 1 + 2 * n)
    BY SizesAreNat DEF ChainInv, Takes
  <1>2. ops' \in Seq(SUBSET Nat) /\ Len(ops') <= MaxOps
    <2>1. made \in SUBSET Nat
      BY MintedAbove
    <2> QED BY <1>1, <2>1 DEF ChainInv, Takes
  <1>3. NextId' \in (L + 1)..(L + 1 + 2 * Len(ops'))
    <2>1. Len(ops') = n + 1 /\ NextId' \in Nat /\ NextId < NextId' /\ NextId' <= NextId + 2
      BY MintedAbove
    <2> HIDE DEF n, L
    <2> QED BY <1>1, <2>1
  <1>4. Adds(cores)'
    BY DEF Takes
  <1>5. Alive' \subseteq 1..(NextId' - 1)
    <2>1. Alive \subseteq 1..(NextId - 1) /\ Alive' \subseteq Alive \cup made
      BY DEF ChainInv, Takes
    <2>2. \A i \in Alive : i \in 1..(NextId' - 1)
      BY <2>1, MintedAbove
    <2>3. \A i \in made : i \in 1..(NextId' - 1)
      BY <1>1, MintedAbove
    <2> QED BY <2>1, <2>2, <2>3
  <1>6. \A k \in DOMAIN ops' : ops'[k] \subseteq (L + 1)..(NextId' - 1)
    <2>1. \A k \in DOMAIN ops' : k \in DOMAIN ops \/ k = n + 1
      BY <1>0
    <2>2. made \subseteq (L + 1)..(NextId' - 1)
      BY <1>1, MintedAbove
    <2>3. \A k \in DOMAIN ops : ops[k] \subseteq (L + 1)..(NextId' - 1)
      BY <1>1, MintedAbove
    <2> QED BY <2>1, <2>2, <2>3, MintedAbove
  <1>7. \A j, k \in DOMAIN ops' : j # k => ops'[j] \cap ops'[k] = {}
    <2>1. \A k \in DOMAIN ops' : k \in DOMAIN ops \/ k = n + 1
      BY <1>0
    <2>2. \A k \in DOMAIN ops : ops[k] \cap made = {}
      <3> TAKE k \in DOMAIN ops
      <3>1. ops[k] \subseteq (L + 1)..(NextId - 1) /\ L + 1 \in Int
        BY <1>1, MintedAbove
      <3> HIDE DEF L
      <3> QED BY <3>1, NoneMinted
    <2>3. \A j, k \in DOMAIN ops : j # k => ops[j] \cap ops[k] = {}
      BY DEF ChainInv
    <2>4. ops'[n + 1] = made /\ \A k \in DOMAIN ops : ops'[k] = ops[k]
      BY MintedAbove
    <2> QED BY <2>1, <2>2, <2>3, <2>4
  <1> QED BY <1>2, <1>3, <1>4, <1>5, <1>6, <1>7 DEF ChainInv

\* An operation mints ids that nobody knows.
LEMMA KnownGoesOn ==
  ASSUME CycleAssumption, ChainInv, KnownInv, NEW dead, NEW made, Takes(dead, made)
  PROVE  KnownInv' /\ made \cap cache.known = {}
PROOF
  <1>1. /\ NextId \in Nat /\ NextId' \in Nat /\ NextId < NextId'
        /\ made \subseteq NextId..(NextId' - 1)
        /\ \A k \in DOMAIN ops' : (k \in DOMAIN ops /\ ops'[k] = ops[k]) \/ ops'[k] = made
    BY MintedAbove
  <1>2. ASSUME NEW K, K \subseteq 1..(NextId - 1)
        PROVE  K \subseteq 1..(NextId' - 1) /\ made \cap K = {}
    BY <1>2, 1 \in Int, NoneMinted
  <1>3. ASSUME NEW K, K \subseteq 1..(NextId - 1), Together(K)
        PROVE  \A k \in DOMAIN ops' : ops'[k] \subseteq K \/ ops'[k] \cap K = {}
    BY <1>1, <1>2, <1>3 DEF Together
  <1>4. pc' = pc /\ flags' = flags /\ cache' = cache /\ file' = file
    BY DEF Takes, cycleVars
  <1>5. flags.next \in 0..NextId' /\ 1..(flags.next - 1) \subseteq 1..(NextId - 1)
    BY <1>1 DEF KnownInv
  <1>6. Together(1..(flags.next - 1))'
    <2> DEFINE K == 1..(flags.next - 1)
    <2>1. K \subseteq 1..(NextId - 1) /\ Together(K) /\ K' = K
      BY <1>4, <1>5 DEF KnownInv
    <2> HIDE DEF K
    <2>2. Together(K)'
      BY <1>3, <2>1 DEF Together
    <2> QED BY <2>2 DEF K
  <1>7. ASSUME NEW c, c \in {cache, file}
        PROVE  /\ DOMAIN c = CountFields
               /\ c.known \subseteq 1..(NextId' - 1)
               /\ \A k \in DOMAIN ops' : ops'[k] \subseteq c.known \/ ops'[k] \cap c.known = {}
    <2>1. c.known \subseteq 1..(NextId - 1) /\ Together(c.known) /\ DOMAIN c = CountFields
      BY <1>7 DEF KnownInv
    <2> QED BY <1>2, <1>3, <2>1
  <1>8. \A c \in {cache', file'} :
          /\ DOMAIN c = CountFields
          /\ c.known \subseteq 1..(NextId' - 1)
          /\ \A k \in DOMAIN ops' : ops'[k] \subseteq c.known \/ ops'[k] \cap c.known = {}
    BY <1>4, <1>7
  <1>9. made \cap cache.known = {}
    BY <1>2 DEF KnownInv
  <1>10. GenesisIds' = GenesisIds
    BY DEF GenesisIds
  <1> QED BY <1>4, <1>5, <1>6, <1>8, <1>9, <1>10 DEF KnownInv, Together

\* The operation separates what the cycle began with from what there is now:
\* whatever the sweep has read by now it has read before.
LEMMA ReadsGoOn ==
  ASSUME CycleAssumption, ChainInv, KnownInv, ReadsInv, NEW dead, NEW made,
         Takes(dead, made)
  PROVE  ReadsInv'
PROOF
  <1>1. /\ UNCHANGED <<pc, block, flags, todo, out, sweptOk, cache>>
        /\ moved' = IF moved < 2 THEN moved + 1 ELSE moved
        /\ moved \in 0..2
    BY DEF Takes, cycleVars, ReadsInv
  <1>2. moved' \in 0..2
    BY <1>1
  <1>3. /\ pc' \in {"off", "idle"} => ~flags'.ok
        /\ pc' = "sweep" => todo' \subseteq cache'.known
        /\ pc' = "settle" /\ sweptOk' => todo' = {} /\ cache'.tokens = out'
    BY <1>1 DEF ReadsInv
  <1>4. ASSUME pc \notin {"off", "idle"}, moved' < 2
        PROVE  \E old \in [Ids -> 0..Total] : BeganWith(old)'
    <2>1. moved = 0 /\ moved' = 1
      BY <1>1, <1>4
    <2>2. PICK old \in [Ids -> 0..Total] : BeganWith(old)
      BY <1>4, <2>1 DEF ReadsInv
    <2>3. old = cores /\ AliveIn(old) = Alive
      BY <2>1, <2>2 DEF BeganWith, AliveIn, Alive
    <2>4. Ids' = Ids /\ Total' = Total /\ (AliveIn(old))' = AliveIn(old)
      BY DEF AliveIn, Ids, Total, GenesisIds
    <2>5. Adds(old)'
      BY <2>2, <2>4 DEF BeganWith, Adds
    <2>6. AliveIn(old) \subseteq 1..(NextId' - 1)
      <3>1. \A i \in Alive : i \in 1..(NextId - 1)
        BY DEF ChainInv
      <3> QED BY <2>3, <3>1, MintedAbove
    <2>7. ops'[Len(ops')] = made /\ Len(ops') > 0 /\ made # {}
      BY MintedAbove
    <2>8. made \cap Alive = {}
      BY 1 \in Int, NoneMinted DEF ChainInv
    <2>9. /\ dead \subseteq Alive /\ dead # {} /\ Alive' = (Alive \ dead) \cup made
          /\ \A i \in Alive \ dead : cores'[i] = cores[i]
      BY DEF Takes
    <2>10. OneAfter(old)'
      <3>1. /\ made \subseteq Alive' \ AliveIn(old) /\ AliveIn(old) \ Alive' # {}
            /\ Alive' \subseteq AliveIn(old) \cup made
            /\ \A i \in Alive' \cap AliveIn(old) : old[i] = cores'[i]
        BY <2>3, <2>8, <2>9
      <3> QED BY <2>4, <2>7, <3>1 DEF OneAfter
    <2>11. SupplyOf(old)'
      BY <1>1, <2>2, <2>3, <2>4 DEF BeganWith, SupplyOf
    <2>12. flags'.ok => AliveIn(old) \subseteq 1..(flags'.next - 1)
      BY <1>1, <2>2 DEF BeganWith
    <2>13. pc \in {"sweep", "settle"} => ReadBefore(old)'
      <3> SUFFICES ASSUME pc \in {"sweep", "settle"} PROVE ReadBefore(old)'
        OBVIOUS
      <3>1. ReadNow
        BY <2>1, <2>2 DEF BeganWith, ReadBefore
      <3>2. made \cap cache.known = {}
        BY KnownGoesOn
      <3>3. /\ DOMAIN out \subseteq AliveIn(old) \ todo
            /\ (cache.known \ todo) \cap Alive' \subseteq DOMAIN out
            /\ \A i \in DOMAIN out : out[i] = old[i]
        BY <2>3, <2>9, <3>1, <3>2 DEF ReadNow
      <3> QED BY <1>1, <2>1, <2>4, <2>7, <2>11, <3>2, <3>3 DEF ReadBefore
    <2> QED BY <1>1, <2>1, <2>4, <2>5, <2>6, <2>10, <2>11, <2>12, <2>13 DEF BeganWith
  <1>5. Ids' = Ids /\ Total' = Total
    BY DEF Ids, Total, GenesisIds
  <1> QED BY <1>1, <1>2, <1>3, <1>4, <1>5 DEF ReadsInv

\* An operation keeps all of it.
LEMMA OperationKeeps ==
  ASSUME CycleAssumption, ConserveInv, NEW dead, NEW made, Takes(dead, made)
  PROVE  ConserveInv'
PROOF
  <1>1. ChainInv' /\ KnownInv' /\ ReadsInv'
    BY ChainGoesOn, KnownGoesOn, ReadsGoOn DEF ConserveInv
  <1>2. BaselineNeedsTwo'
    <2>1. cache' = cache /\ file' = file /\ Total' = Total
      BY DEF Takes, Total, GenesisIds
    <2> QED BY <2>1 DEF ConserveInv, BaselineNeedsTwo
  <1> QED BY <1>1, <1>2 DEF ConserveInv

\* While the chain stays as it is, so does what was said of it.
LEMMA ChainStays ==
  ASSUME ops' = ops, cores' = cores
  PROVE  /\ NextId' = NextId /\ Alive' = Alive
         /\ ChainInv => ChainInv'
         /\ Ids' = Ids /\ Total' = Total /\ GenesisIds' = GenesisIds
PROOF
  <1>1. /\ Ids' = Ids /\ Total' = Total /\ GenesisIds' = GenesisIds
        /\ (AliveIn(cores))' = AliveIn(cores)
    BY DEF Ids, Total, GenesisIds, AliveIn
  <1>2. NextId' = NextId /\ Alive' = Alive
    BY DEF NextId, Minted, Alive, Ids
  <1>3. ChainInv => ChainInv'
    <2>1. Adds(cores) => Adds(cores)'
      BY <1>1 DEF Adds
    <2> QED BY <1>2, <2>1 DEF ChainInv
  <1> QED BY <1>1, <1>2, <1>3

\* What was minted together stays so while no operation is made.
LEMMA TogetherStays ==
  ASSUME ops' = ops, NEW K, Together(K)
  PROVE  Together(K)'
BY DEF Together

\* While no operation is made, what a cycle began with stays what it was.
LEMMA OldStays ==
  ASSUME ops' = ops, cores' = cores, NEW old
  PROVE  /\ Adds(old) => Adds(old)'
         /\ (AliveIn(old))' = AliveIn(old)
         /\ OneAfter(old) => OneAfter(old)'
PROOF
  <1>1. (AliveIn(old))' = AliveIn(old) /\ Ids' = Ids /\ Total' = Total /\ Alive' = Alive
    BY DEF Ids, Total, GenesisIds, AliveIn, Alive
  <1> QED BY <1>1 DEF Adds, OneAfter

\* A step that keeps the chain and the flags keeps what the cycle began with,
\* if it keeps what the sweep has read.
LEMMA StillBegan ==
  ASSUME UNCHANGED <<ops, cores, moved, flags>>, NEW old, BeganWith(old),
         pc' \in {"sweep", "settle"} => ReadNow' \/ ReadBefore(old)'
  PROVE  BeganWith(old)'
PROOF
  <1>1. Adds(old)' /\ (AliveIn(old))' = AliveIn(old) /\ NextId' = NextId
    BY ChainStays, OldStays DEF BeganWith
  <1>2. IF moved' = 0 THEN old = cores' ELSE moved' = 1 /\ OneAfter(old)'
    BY OldStays DEF BeganWith
  <1>3. SupplyOf(old)' \/ SupplyOf(cores)'
    <2>1. (AliveIn(cores))' = AliveIn(cores)
      BY DEF AliveIn, Ids
    <2> QED BY <1>1, <2>1 DEF BeganWith, SupplyOf
  <1> QED BY <1>1, <1>2, <1>3 DEF BeganWith

\* The caches of a step that touches neither ids nor flags.
LEMMA KnownStays ==
  ASSUME KnownInv, UNCHANGED <<ops, cores, flags>>,
         DOMAIN cache' = CountFields, DOMAIN file' = CountFields,
         cache'.known = cache.known, file'.known \in {cache.known, file.known},
         pc # "off", pc' \in {"scan", "sweep", "settle"} => pc \in {"scan", "sweep", "settle"}
  PROVE  KnownInv'
PROOF
  <1>1. NextId' = NextId /\ GenesisIds' = GenesisIds
    BY ChainStays
  <1>2. Together(1..(flags.next - 1))'
    <2>1. (Together(1..(flags.next - 1)))
      BY DEF KnownInv
    <2> QED BY <2>1 DEF Together
  <1>3. ASSUME NEW K, K \in {cache.known, file.known}
        PROVE  K \subseteq 1..(NextId' - 1)
               /\ \A k \in DOMAIN ops' : ops'[k] \subseteq K \/ ops'[k] \cap K = {}
    BY <1>1, <1>3 DEF KnownInv, Together
  <1>4. \A c \in {cache', file'} : c.known \subseteq 1..(NextId' - 1)
               /\ \A k \in DOMAIN ops' : ops'[k] \subseteq c.known \/ ops'[k] \cap c.known = {}
    BY <1>3
  <1> QED BY <1>1, <1>2, <1>4 DEF KnownInv, Together

\* A cycle begins with the present chain and nothing read.
LEMMA BeginKeeps ==
  ASSUME ConserveInv, BeginCycle
  PROVE  ConserveInv'
PROOF
  <1>1. /\ pc = "idle" /\ pc' = "reads" /\ moved' = 0
        /\ UNCHANGED <<cores, ops, got, block, flags, todo, out, sweptOk, cache, file, verdict>>
    BY DEF BeginCycle
  <1>2. ChainInv /\ KnownInv /\ ReadsInv /\ ChainInv'
    BY <1>1, ChainStays DEF ConserveInv
  <1>3. KnownInv'
    BY <1>1, <1>2, KnownStays DEF KnownInv
  <1>4. PICK old \in [Ids -> 0..Total] : old = cores
    BY <1>2 DEF ChainInv, Adds
  <1>5. BeganWith(old)'
    <2>1. Adds(old)' /\ (AliveIn(old))' = Alive /\ Alive \subseteq 1..(NextId' - 1)
      <3>1. Adds(old) /\ AliveIn(old) = Alive /\ Alive \subseteq 1..(NextId - 1)
        BY <1>2, <1>4 DEF ChainInv, AliveIn, Alive
      <3> QED BY <1>1, <3>1, ChainStays, OldStays
    <2>2. ~flags'.ok
      BY <1>1, <1>2 DEF ReadsInv
    <2> QED BY <1>1, <1>4, <2>1, <2>2 DEF BeganWith, SupplyOf
  <1>6. ReadsInv'
    <2>1. \E c \in [Ids -> 0..Total]' : BeganWith(c)'
      BY <1>1, <1>4, <1>5, ChainStays
    <2> QED BY <1>1, <2>1 DEF ReadsInv
  <1>7. BaselineNeedsTwo'
    BY <1>1, ChainStays DEF ConserveInv, BaselineNeedsTwo
  <1> QED BY <1>2, <1>3, <1>6, <1>7 DEF ConserveInv

\* The head is no part of the reads.
LEMMA ReadBlockKeeps ==
  ASSUME ConserveInv, ReadBlock
  PROVE  ConserveInv'
PROOF
  <1>1. /\ pc = "reads" /\ pc' = pc
        /\ UNCHANGED <<cores, ops, flags, todo, out, sweptOk, cache, file, moved>>
    BY DEF ReadBlock
  <1>2. ChainInv /\ KnownInv /\ ReadsInv /\ ChainInv'
    BY <1>1, ChainStays DEF ConserveInv
  <1>3. KnownInv'
    BY <1>1, <1>2, KnownStays DEF KnownInv
  <1>4. \A old : BeganWith(old) => BeganWith(old)'
    BY <1>1, StillBegan
  <1>5. ReadsInv'
    BY <1>1, <1>2, <1>4, ChainStays DEF ReadsInv
  <1>6. BaselineNeedsTwo'
    BY <1>1, ChainStays DEF ConserveInv, BaselineNeedsTwo
  <1> QED BY <1>2, <1>3, <1>5, <1>6 DEF ConserveInv

\* The allocator is asked: of the chain there is now.
LEMMA ReadFlagsKeeps ==
  ASSUME CycleAssumption, ConserveInv, ReadFlags
  PROVE  ConserveInv'
PROOF
  <1>1. /\ pc = "reads" /\ pc' = pc
        /\ UNCHANGED <<cores, ops, todo, out, sweptOk, cache, file, moved>>
        /\ \/ flags' = Flags(TRUE, Cardinality(Alive), NextId)
           \/ flags' = Flags(FALSE, Cardinality(DOMAIN cache.tokens), 0)
    BY DEF ReadFlags
  <1>2. ChainInv /\ KnownInv /\ ReadsInv /\ ChainInv'
    BY <1>1, ChainStays DEF ConserveInv
  <1>3. NextId' = NextId /\ NextId \in Nat /\ GenesisIds' = GenesisIds /\ Len(Genesis) \in Nat
    <2>1. NextId \in Nat /\ Len(Genesis) \in Nat
      BY <1>2, SizesAreNat DEF ChainInv
    <2> QED BY <1>1, <2>1, ChainStays
  <1>4. flags'.next \in {NextId, 0} /\ (flags'.ok => flags'.next = NextId)
        /\ (flags'.ok => flags'.supply = Cardinality(Alive))
    BY <1>1 DEF Flags
  <1>5. flags'.next \in 0..NextId'
    BY <1>3, <1>4
  <1> DEFINE K == 1..(flags'.next - 1)
  <1>6. \A k \in DOMAIN ops : ops[k] \subseteq K \/ ops[k] \cap K = {}
    <2>1. CASE flags'.next = 0
      <3>1. K = {}
        BY <2>1
      <3> QED BY <3>1
    <2>2. CASE flags'.next = NextId
      <3> TAKE k \in DOMAIN ops
      <3>1. \A i \in ops[k] : i \in (Len(Genesis) + 1)..(NextId - 1)
        BY <1>2 DEF ChainInv
      <3>2. \A i \in (Len(Genesis) + 1)..(NextId - 1) : i \in K
        BY <1>3, <2>2
      <3> QED BY <3>1, <3>2
    <2> QED BY <1>4, <2>1, <2>2
  <1>7. Together(1..(flags.next - 1))'
    <2> HIDE DEF K
    <2>1. \A k \in DOMAIN ops' : ops'[k] \subseteq K \/ ops'[k] \cap K = {}
      BY <1>1, <1>6
    <2> QED BY <2>1 DEF Together, K
  <1>8. KnownInv'
    <2>1. \A c \in {cache, file} :
            /\ DOMAIN c = CountFields
            /\ c.known \subseteq 1..(NextId' - 1)
            /\ \A k \in DOMAIN ops' : ops'[k] \subseteq c.known \/ ops'[k] \cap c.known = {}
      BY <1>1, <1>2, <1>3 DEF KnownInv, Together
    <2> QED BY <1>1, <1>2, <1>3, <1>5, <1>7, <2>1 DEF KnownInv, Together
  <1>9. ASSUME NEW old, BeganWith(old)
        PROVE  BeganWith(old)'
    <2>1. Adds(old)' /\ (AliveIn(old))' = AliveIn(old) /\ (moved' # 0 => OneAfter(old)')
          /\ AliveIn(old) \subseteq 1..(NextId' - 1)
      BY <1>1, <1>3, <1>9, OldStays DEF BeganWith
    <2>2. SupplyOf(cores)'
      <3>1. (AliveIn(cores))' = Alive
        BY <1>1 DEF AliveIn, Alive, Ids
      <3> QED BY <1>4, <3>1 DEF SupplyOf
    <2>3. flags'.ok => AliveIn(old) \subseteq 1..(flags'.next - 1)
      BY <1>3, <1>4, <2>1
    <2> QED BY <1>1, <1>9, <2>1, <2>2, <2>3 DEF BeganWith
  <1>10. ReadsInv'
    BY <1>1, <1>2, <1>9, ChainStays DEF ReadsInv
  <1>11. BaselineNeedsTwo'
    BY <1>1, ChainStays DEF ConserveInv, BaselineNeedsTwo
  <1> QED BY <1>2, <1>8, <1>10, <1>11 DEF ConserveInv

\* Two sets that each hold all the ids of an operation or none do so together.
LEMMA TogetherUnion ==
  ASSUME NEW K, NEW M, Together(K), Together(M)
  PROVE  Together(K \cup M)
BY DEF Together

\* With the ids up to the allocator's next one every token is known that was
\* there when it was asked.
LEMMA SeedKeeps ==
  ASSUME CycleAssumption, ConserveInv, Seed
  PROVE  ConserveInv'
PROOF
  <1>1. /\ pc = "reads" /\ pc' = "scan" /\ cache' = [cache EXCEPT !.known = @ \cup SeededIds]
        /\ UNCHANGED <<cores, ops, flags, todo, out, sweptOk, file, moved>>
    BY DEF Seed, cycleVars
  <1>2. ChainInv /\ KnownInv /\ ReadsInv /\ ChainInv'
    BY <1>1, ChainStays DEF ConserveInv
  <1>3. /\ DOMAIN cache' = CountFields /\ cache'.known = cache.known \cup SeededIds
        /\ cache'.baseline = cache.baseline /\ cache'.movedThen = cache.movedThen
    BY <1>1, <1>2 DEF KnownInv, CountFields
  <1> DEFINE K == 1..(flags.next - 1)
  <1>4. cache'.known = cache.known \cup K
    <2>1. GenesisIds \subseteq cache.known
      BY <1>1, <1>2 DEF KnownInv
    <2>2. flags.next \in Nat /\ Len(Genesis) \in Nat
      <3>1. NextId \in Nat
        BY <1>2, SizesAreNat DEF ChainInv
      <3> QED BY <1>2, <3>1, SizesAreNat DEF KnownInv
    <2>3. \A i \in SeededIds : i \in K
      BY <2>2 DEF SeededIds
    <2>4. \A i \in K : i \in SeededIds \/ i \in GenesisIds
      BY <2>2 DEF SeededIds, GenesisIds
    <2> HIDE DEF K
    <2> QED BY <1>3, <2>1, <2>3, <2>4
  <1>5. cache'.known \subseteq 1..(NextId - 1) /\ Together(cache'.known)
    <2>1. K \subseteq 1..(NextId - 1)
      <3>1. NextId \in Nat /\ flags.next \in 0..NextId
        BY <1>2, SizesAreNat DEF ChainInv, KnownInv
      <3> QED BY <3>1
    <2>2. cache.known \subseteq 1..(NextId - 1) /\ Together(cache.known) /\ Together(K)
      BY <1>2 DEF KnownInv
    <2> HIDE DEF K
    <2>3. Together(cache.known \cup K)
      BY <2>2, TogetherUnion
    <2> QED BY <1>4, <2>1, <2>2, <2>3
  <1>6. KnownInv'
    <2>1. NextId' = NextId /\ GenesisIds' = GenesisIds
      BY <1>1, ChainStays
    <2>2. \A c \in {cache', file} :
            /\ DOMAIN c = CountFields
            /\ c.known \subseteq 1..(NextId' - 1)
            /\ \A k \in DOMAIN ops' : ops'[k] \subseteq c.known \/ ops'[k] \cap c.known = {}
      BY <1>1, <1>2, <1>3, <1>5, <2>1 DEF KnownInv, Together
    <2>3. Together(K)'
      BY <1>1, <1>2, TogetherStays DEF KnownInv, Together
    <2>4. flags'.next \in 0..NextId' /\ K \subseteq cache'.known /\ GenesisIds \subseteq cache'.known
      BY <1>1, <1>2, <1>4, <2>1 DEF KnownInv
    <2> QED BY <1>1, <2>1, <2>2, <2>3, <2>4 DEF KnownInv, Together
  <1>7. \A old : BeganWith(old) => BeganWith(old)'
    BY <1>1, StillBegan
  <1>8. ReadsInv'
    BY <1>1, <1>2, <1>7, ChainStays DEF ReadsInv
  <1>9. BaselineNeedsTwo'
    BY <1>1, <1>3, ChainStays DEF ConserveInv, BaselineNeedsTwo
  <1> QED BY <1>2, <1>6, <1>8, <1>9 DEF ConserveInv

\* The logs make known what an operation has minted, all of it; the sweep has
\* all that is known before it.
LEMMA ScanKeeps ==
  ASSUME CycleAssumption, ConserveInv, Scan
  PROVE  ConserveInv'
PROOF
  <1>1. /\ pc = "scan" /\ pc' = "sweep" /\ todo' = cache'.known /\ out' = <<>>
        /\ UNCHANGED <<cores, ops, flags, file, moved>>
    BY DEF Scan
  <1>2. ChainInv /\ KnownInv /\ ReadsInv /\ ChainInv'
    BY <1>1, ChainStays DEF ConserveInv
  <1>3. \E seen \in SUBSET (DOMAIN ops) :
          /\ DOMAIN cache' = CountFields
          /\ cache'.known = cache.known \cup UNION {ops[k] : k \in seen}
          /\ cache'.baseline = cache.baseline /\ cache'.movedThen = cache.movedThen
    <2>1. DOMAIN cache = CountFields
      BY <1>2 DEF KnownInv
    <2>2. CASE UNCHANGED cache
      BY <2>1, <2>2, {} \in SUBSET (DOMAIN ops)
    <2>3. ASSUME NEW from, NEW to, NEW first, NEW mark,
                 cache' = [cache EXCEPT
                       !.known = @ \cup UNION {ops[k] : k \in OpsIn(from, to)},
                       !.applied = @ \cup OpsIn(from, to),
                       !.first = first, !.mark = mark]
          PROVE  \E seen \in SUBSET (DOMAIN ops) :
                   /\ DOMAIN cache' = CountFields
                   /\ cache'.known = cache.known \cup UNION {ops[k] : k \in seen}
                   /\ cache'.baseline = cache.baseline /\ cache'.movedThen = cache.movedThen
      <3>1. OpsIn(from, to) \in SUBSET (DOMAIN ops)
        BY DEF OpsIn
      <3> DEFINE u == OpsIn(from, to)
      <3>2. /\ DOMAIN cache' = CountFields
            /\ cache'.known = cache.known \cup UNION {ops[k] : k \in u}
            /\ cache'.baseline = cache.baseline /\ cache'.movedThen = cache.movedThen
        BY <2>1, <2>3 DEF CountFields
      <3> HIDE DEF u
      <3> QED BY <3>1, <3>2 DEF u
    <2>4. CASE block = 0 \/ From > block
      BY <2>2, <2>4 DEF Scan
    <2>5. CASE ~(block = 0 \/ From > block)
      <3>1. PICK reached \in IF clear THEN {block} ELSE (From - 1)..block,
                 served \in (HeadBlock - Lag)..HeadBlock :
              LET seen == OpsIn(From, IF reached <= served THEN reached ELSE served)
              IN  IF reached < From THEN UNCHANGED cache
                  ELSE cache' = [cache EXCEPT
                         !.known = @ \cup UNION {ops[k] : k \in seen},
                         !.applied = @ \cup seen,
                         !.first = IF cache.mark = 0 THEN From ELSE @,
                         !.mark = Mark(reached)]
        BY <2>5 DEF Scan
      <3>2. CASE reached < From
        BY <2>2, <3>1, <3>2
      <3>3. CASE ~(reached < From)
        <4> DEFINE to == IF reached <= served THEN reached ELSE served
        <4>1. cache' = [cache EXCEPT
                !.known = @ \cup UNION {ops[k] : k \in OpsIn(From, to)},
                !.applied = @ \cup OpsIn(From, to),
                !.first = IF cache.mark = 0 THEN From ELSE cache.first,
                !.mark = Mark(reached)]
          BY <3>1, <3>3
        <4> HIDE DEF to
        <4> QED BY <2>3, <4>1
      <3> QED BY <3>2, <3>3
    <2> QED BY <2>4, <2>5
  <1>4. PICK seen \in SUBSET (DOMAIN ops) :
          /\ DOMAIN cache' = CountFields
          /\ cache'.known = cache.known \cup UNION {ops[k] : k \in seen}
          /\ cache'.baseline = cache.baseline /\ cache'.movedThen = cache.movedThen
    BY <1>3
  <1> DEFINE M == UNION {ops[k] : k \in seen}
  <1>5. M \subseteq 1..(NextId - 1)
    <2>1. \A k \in DOMAIN ops : \A i \in ops[k] : i \in (Len(Genesis) + 1)..(NextId - 1)
      BY <1>2 DEF ChainInv
    <2>2. \A i \in (Len(Genesis) + 1)..(NextId - 1) : i \in 1..(NextId - 1)
      BY <1>2, SizesAreNat DEF ChainInv
    <2> QED BY <2>1, <2>2
  <1>6. Together(M)
    <2> SUFFICES ASSUME NEW k \in DOMAIN ops PROVE ops[k] \subseteq M \/ ops[k] \cap M = {}
      BY DEF Together
    <2>1. CASE k \in seen
      BY <2>1
    <2>2. CASE k \notin seen
      <3>1. \A j \in seen : ops[j] \cap ops[k] = {}
        BY <1>2, <2>2 DEF ChainInv
      <3> QED BY <3>1
    <2> QED BY <2>1, <2>2
  <1> HIDE DEF M
  <1>7. cache'.known \subseteq 1..(NextId - 1) /\ Together(cache'.known)
        /\ cache.known \subseteq cache'.known
    <2>1. cache.known \subseteq 1..(NextId - 1) /\ Together(cache.known)
      BY <1>2 DEF KnownInv
    <2>2. cache'.known = cache.known \cup M
      BY <1>4 DEF M
    <2>3. Together(cache.known \cup M)
      BY <1>6, <2>1, TogetherUnion
    <2> QED BY <1>5, <2>1, <2>2, <2>3
  <1>8. KnownInv'
    <2>1. NextId' = NextId /\ GenesisIds' = GenesisIds
      BY <1>1, ChainStays
    <2>2. \A c \in {cache', file} :
            /\ DOMAIN c = CountFields
            /\ c.known \subseteq 1..(NextId' - 1)
            /\ \A k \in DOMAIN ops' : ops'[k] \subseteq c.known \/ ops'[k] \cap c.known = {}
      BY <1>1, <1>2, <1>4, <1>7, <2>1 DEF KnownInv, Together
    <2>3. Together(1..(flags.next - 1))'
      BY <1>1, <1>2 DEF KnownInv, Together
    <2>4. flags'.next \in 0..NextId' /\ 1..(flags.next - 1) \subseteq cache'.known
          /\ GenesisIds \subseteq cache'.known
      BY <1>1, <1>2, <1>7, <2>1 DEF KnownInv
    <2> QED BY <1>1, <2>1, <2>2, <2>3, <2>4 DEF KnownInv, Together
  <1>9. \A old : BeganWith(old) => BeganWith(old)'
    <2>1. DOMAIN out' = {}
      BY <1>1
    <2>2. ReadNow'
      BY <1>1, <2>1 DEF ReadNow
    <2> QED BY <1>1, <2>2, StillBegan
  <1>10. ReadsInv'
    BY <1>1, <1>2, <1>9, ChainStays DEF ReadsInv
  <1>11. BaselineNeedsTwo'
    BY <1>1, <1>4, ChainStays DEF ConserveInv, BaselineNeedsTwo
  <1> QED BY <1>2, <1>8, <1>10, <1>11 DEF ConserveInv

\* A chunk of the sweep: what it finds alive is what there is now, and what was
\* there before unless the last operation minted it.
LEMMA SweepChunkKeeps ==
  ASSUME ConserveInv, SweepChunk
  PROVE  ConserveInv'
PROOF
  <1> DEFINE ids == FirstOf(todo)
  <1>1. /\ pc = "sweep" /\ pc' = pc /\ todo' = todo \ ids /\ ids \subseteq todo
        /\ out' = [i \in DOMAIN out \cup (ids \cap Alive) |->
                     IF i \in ids THEN cores[i] ELSE out[i]]
        /\ UNCHANGED <<cores, ops, flags, sweptOk, cache, file, moved>>
    BY DEF SweepChunk, FirstOf
  <1>2. ChainInv /\ KnownInv /\ ReadsInv /\ ChainInv'
    BY <1>1, ChainStays DEF ConserveInv
  <1>3. KnownInv'
    BY <1>1, <1>2, KnownStays DEF KnownInv
  <1> HIDE DEF ids
  <1>4. todo \subseteq cache.known /\ Alive' = Alive
    BY <1>1, <1>2, ChainStays DEF ReadsInv
  <1>5. ASSUME NEW old, BeganWith(old)
        PROVE  BeganWith(old)'
    <2>1. CASE ReadNow
      <3>1. DOMAIN out' = (cache.known \ todo') \cap Alive
        BY <1>1, <1>4, <2>1 DEF ReadNow
      <3>2. \A i \in DOMAIN out' : out'[i] = cores[i]
        BY <1>1, <2>1 DEF ReadNow
      <3>3. ReadNow'
        BY <1>1, <1>4, <3>1, <3>2 DEF ReadNow
      <3> QED BY <1>1, <1>5, <3>3, StillBegan
    <2>2. CASE ReadBefore(old)
      <3>1. /\ moved = 1 /\ ops[Len(ops)] \cap cache.known = {} /\ OneAfter(old)
            /\ DOMAIN out \subseteq AliveIn(old) \ todo
            /\ (cache.known \ todo) \cap Alive \subseteq DOMAIN out
            /\ \A i \in DOMAIN out : out[i] = old[i]
        BY <1>5, <2>2 DEF ReadBefore, BeganWith
      <3>2. \A i \in ids \cap Alive : i \in AliveIn(old) /\ cores[i] = old[i]
        BY <1>1, <1>4, <3>1 DEF OneAfter
      <3>3. /\ DOMAIN out' \subseteq AliveIn(old) \ todo'
            /\ (cache.known \ todo') \cap Alive \subseteq DOMAIN out'
            /\ \A i \in DOMAIN out' : out'[i] = old[i]
        <4>1. DOMAIN out' = DOMAIN out \cup (ids \cap Alive)
          BY <1>1
        <4>2. \A i \in DOMAIN out' : out'[i] = IF i \in ids THEN cores[i] ELSE out[i]
          BY <1>1
        <4>3. \A i \in DOMAIN out : i \notin ids
          BY <1>1, <3>1
        <4> QED BY <1>1, <3>1, <3>2, <4>1, <4>2, <4>3
      <3>4. SupplyOf(old)' /\ (AliveIn(old))' = AliveIn(old)
        <4>1. (AliveIn(old))' = AliveIn(old)
          BY DEF AliveIn, Ids
        <4> QED BY <1>1, <2>2, <4>1 DEF ReadBefore, SupplyOf
      <3>5. ReadBefore(old)'
        BY <1>1, <1>4, <3>1, <3>3, <3>4 DEF ReadBefore
      <3> QED BY <1>1, <1>5, <3>5, StillBegan
    <2> QED BY <1>1, <1>5, <2>1, <2>2 DEF BeganWith
  <1>6. ReadsInv'
    BY <1>1, <1>2, <1>4, <1>5, ChainStays DEF ReadsInv
  <1>7. BaselineNeedsTwo'
    BY <1>1, ChainStays DEF ConserveInv, BaselineNeedsTwo
  <1> QED BY <1>2, <1>3, <1>6, <1>7 DEF ConserveInv

\* The sweep ends: the registry is what it has read, or stays.
LEMMA SweepEnds ==
  ASSUME ConserveInv, SweepFails \/ SweepDone
  PROVE  ConserveInv'
PROOF
  <1>1. /\ pc = "sweep" /\ pc' = "settle"
        /\ UNCHANGED <<cores, ops, flags, todo, out, file, moved>>
        /\ \/ ~sweptOk' /\ cache' = cache
           \/ todo = {} /\ cache' = [cache EXCEPT !.tokens = out]
    BY DEF SweepFails, SweepDone, cycleVars
  <1>2. ChainInv /\ KnownInv /\ ReadsInv /\ ChainInv'
    BY <1>1, ChainStays DEF ConserveInv
  <1>3. /\ DOMAIN cache' = CountFields /\ cache'.known = cache.known
        /\ cache'.baseline = cache.baseline /\ cache'.movedThen = cache.movedThen
        /\ sweptOk' => todo = {} /\ cache'.tokens = out
    BY <1>1, <1>2 DEF KnownInv, CountFields
  <1>4. KnownInv'
    BY <1>1, <1>2, <1>3, KnownStays DEF KnownInv
  <1>5. ASSUME NEW old, BeganWith(old)
        PROVE  BeganWith(old)'
    <2>1. CASE ReadNow
      <3>1. ReadNow'
        BY <1>1, <1>3, <2>1, ChainStays DEF ReadNow
      <3> QED BY <1>1, <1>5, <3>1, StillBegan
    <2>2. CASE ReadBefore(old)
      <3>1. SupplyOf(old)' /\ (AliveIn(old))' = AliveIn(old) /\ Alive' = Alive
        <4>1. (AliveIn(old))' = AliveIn(old)
          BY DEF AliveIn, Ids
        <4> QED BY <1>1, <2>2, <4>1, ChainStays DEF ReadBefore, SupplyOf
      <3>2. ReadBefore(old)'
        BY <1>1, <1>3, <2>2, <3>1 DEF ReadBefore
      <3> QED BY <1>1, <1>5, <3>2, StillBegan
    <2> QED BY <1>1, <1>5, <2>1, <2>2 DEF BeganWith
  <1>6. ReadsInv'
    BY <1>1, <1>2, <1>3, <1>5, ChainStays DEF ReadsInv
  <1>7. BaselineNeedsTwo'
    BY <1>1, <1>3, ChainStays DEF ConserveInv, BaselineNeedsTwo
  <1> QED BY <1>2, <1>4, <1>6, <1>7 DEF ConserveInv

\* A set within a finite one that has as many elements is the same.
LEMMA SameSize ==
  ASSUME NEW S, NEW T, IsFiniteSet(S), T \subseteq S, Cardinality(T) = Cardinality(S)
  PROVE  T = S
BY FS_Subset

\* A complete count of a cycle that saw at most one operation is the total: it
\* has counted the present chain or the one before, and what the two share is
\* smaller than either.
LEMMA CompleteIsTotal ==
  ASSUME CycleAssumption, ConserveInv, pc = "settle", Complete, moved # 2
  PROVE  Counted = Total
PROOF
  <1>1. ChainInv /\ KnownInv /\ ReadsInv
    BY DEF ConserveInv
  <1>2. /\ flags.ok /\ todo = {} /\ cache.tokens = out
        /\ Cardinality(DOMAIN out) = flags.supply
    BY <1>1 DEF Complete, ReadsInv
  <1>3. PICK old \in [Ids -> 0..Total] : BeganWith(old)
    <2>1. moved < 2
      BY <1>1 DEF ReadsInv
    <2> QED BY <1>1, <2>1 DEF ReadsInv
  <1> DEFINE Old == AliveIn(old)
             made == ops[Len(ops)]
             D == DOMAIN out
  <1>4. IsFiniteSet(Old) /\ IsFiniteSet(Alive)
    BY SizesAreNat DEF AliveIn, Alive
  <1>5. Sum(old, Old) = Total /\ Sum(cores, Alive) = Total
    BY <1>1, <1>3 DEF BeganWith, Adds, ChainInv, AliveIn, Alive
  <1>6. Old \subseteq cache.known
    BY <1>1, <1>2, <1>3 DEF BeganWith, KnownInv
  <1>7. Cardinality(D) = Cardinality(Old) \/ Cardinality(D) = Cardinality(Alive)
    <2>1. AliveIn(cores) = Alive
      BY DEF AliveIn, Alive
    <2> QED BY <1>2, <1>3, <2>1 DEF BeganWith, SupplyOf
  <1>8. CASE ReadBefore(old)
    <2>1. D \subseteq Old /\ Cardinality(D) = Cardinality(Old)
          /\ \A i \in D : out[i] = old[i]
      BY <1>2, <1>8 DEF ReadBefore, SupplyOf
    <2> HIDE DEF D, Old
    <2>2. D = Old
      BY <1>4, <2>1, SameSize
    <2>3. Sum(out, D) = Sum(old, D)
      BY <1>4, <2>1, <2>2, SumSame
    <2> QED BY <1>2, <1>5, <2>2, <2>3 DEF Counted, D
  <1>9. CASE ReadNow
    <2>1. D = cache.known \cap Alive /\ \A i \in D : out[i] = cores[i]
      BY <1>2, <1>9 DEF ReadNow
    <2>2. D = Alive
      <3>1. CASE moved = 0
        <4>1. Old = Alive
          BY <1>3, <3>1 DEF BeganWith, AliveIn, Alive
        <4> QED BY <1>6, <2>1, <4>1
      <3>2. CASE moved # 0
        <4>1. /\ Len(ops) > 0 /\ made # {} /\ made \subseteq Alive \ Old
              /\ Old \ Alive # {} /\ Alive \subseteq Old \cup made
          BY <1>3, <3>2 DEF BeganWith, OneAfter
        <4>2. made \subseteq cache.known \/ made \cap cache.known = {}
          <5>1. Len(ops) \in DOMAIN ops
            BY <1>1, <4>1 DEF ChainInv
          <5> QED BY <1>1, <5>1 DEF KnownInv, Together
        <4> HIDE DEF D, Old, made
        <4>3. CASE made \subseteq cache.known
          BY <1>6, <2>1, <4>1, <4>3
        <4>4. CASE made \cap cache.known = {}
          <5>1. D \subseteq Old /\ D # Old
            BY <2>1, <4>1, <4>4
          <5>2. D \subseteq Alive /\ D # Alive
            BY <2>1, <4>1, <4>4
          <5> QED BY <1>4, <1>7, <5>1, <5>2, SameSize
        <4> QED BY <4>2, <4>3, <4>4
      <3> QED BY <3>1, <3>2
    <2> HIDE DEF D, Old
    <2>3. Sum(out, D) = Sum(cores, D)
      <3>1. IsFiniteSet(D) /\ \A i \in D : out[i] = cores[i]
        BY <1>4, <2>1, <2>2
      <3> QED BY <3>1, SumSame
    <2> QED BY <1>2, <1>5, <2>2, <2>3 DEF Counted, D
  <1> QED BY <1>3, <1>8, <1>9 DEF BeganWith

\* The baseline that is set, if one is set, is the total or says that two
\* operations went by.
LEMMA BaselineIsSound ==
  ASSUME CycleAssumption, ConserveInv, pc = "settle"
  PROVE  /\ DOMAIN Baselined = CountFields /\ Baselined.known = cache.known
         /\ Baselined.baseline \notin {0, Total} => Baselined.movedThen = 2
PROOF
  <1>1. DOMAIN cache = CountFields
    BY DEF ConserveInv, KnownInv
  <1>2. cache.baseline \notin {0, Total} => cache.movedThen = 2
    BY DEF ConserveInv, BaselineNeedsTwo
  <1>3. CASE Complete /\ cache.baseline = 0 /\ Counted > 0
    <2>1. Baselined = [cache EXCEPT !.baseline = Counted, !.movedThen = moved]
      BY <1>3 DEF Baselined
    <2>2. Counted = Total \/ moved = 2
      BY <1>3, CompleteIsTotal
    <2> QED BY <1>1, <2>1, <2>2 DEF CountFields
  <1>4. CASE ~(Complete /\ cache.baseline = 0 /\ Counted > 0)
    BY <1>1, <1>2, <1>4 DEF Baselined
  <1> QED BY <1>3, <1>4

\* In the idle process there are no flags to go by.
LEMMA AtRest ==
  ASSUME ReadsInv, pc' \in {"off", "idle"}, ~flags'.ok, moved' = moved
  PROVE  ReadsInv'
BY DEF ReadsInv

\* The step that judges: a baseline it takes is what there is.
LEMMA SettleKeeps ==
  ASSUME CycleAssumption, ConserveInv, Settle
  PROVE  ConserveInv'
PROOF
  <1>1. /\ pc = "settle" /\ pc' = "idle" /\ cache' = Baselined /\ file' \in {file, Baselined}
        /\ flags' = Flags(FALSE, 0, 0) /\ UNCHANGED <<cores, ops, moved>>
    BY DEF Settle, LocalsGone
  <1>2. ChainInv /\ KnownInv /\ ReadsInv /\ ChainInv'
    BY <1>1, ChainStays DEF ConserveInv
  <1>3. /\ DOMAIN Baselined = CountFields /\ Baselined.known = cache.known
        /\ Baselined.baseline \notin {0, Total} => Baselined.movedThen = 2
    BY <1>1, BaselineIsSound
  <1>4. flags'.next = 0 /\ ~flags'.ok
    BY <1>1 DEF Flags
  <1>5. NextId' = NextId /\ NextId \in Nat /\ GenesisIds' = GenesisIds /\ Total' = Total
    BY <1>1, <1>2, ChainStays, SizesAreNat DEF ChainInv
  <1>6. KnownInv'
    <2>1. \A c \in {cache', file'} :
            /\ DOMAIN c = CountFields
            /\ c.known \subseteq 1..(NextId' - 1)
            /\ \A k \in DOMAIN ops' : ops'[k] \subseteq c.known \/ ops'[k] \cap c.known = {}
      BY <1>1, <1>2, <1>3, <1>5 DEF KnownInv, Together
    <2>2. Together(1..(flags.next - 1))'
      <3>1. 1..(flags'.next - 1) = {}
        BY <1>4
      <3> QED BY <3>1 DEF Together
    <2>3. flags'.next \in 0..NextId'
      BY <1>4, <1>5
    <2>4. GenesisIds' \subseteq cache'.known
      <3>1. GenesisIds \subseteq cache.known
        BY <1>1, <1>2 DEF KnownInv
      <3> QED BY <1>1, <1>3, <1>5, <3>1
    <2> QED BY <1>1, <2>1, <2>2, <2>3, <2>4 DEF KnownInv, Together
  <1>7. ReadsInv'
    BY <1>1, <1>2, <1>4, AtRest
  <1>8. BaselineNeedsTwo'
    BY <1>1, <1>3, <1>5 DEF ConserveInv, BaselineNeedsTwo
  <1> QED BY <1>2, <1>6, <1>7, <1>8 DEF ConserveInv

\* A start knows the genesis tokens besides what the file knows.
LEMMA StartKeeps ==
  ASSUME CycleAssumption, ConserveInv, Start
  PROVE  ConserveInv'
PROOF
  <1>1. /\ pc = "off" /\ pc' = "idle" /\ cache' = [file EXCEPT !.known = @ \cup GenesisIds]
        /\ UNCHANGED <<cores, ops, flags, file, moved>>
    BY DEF Start, cycleVars
  <1>2. ChainInv /\ KnownInv /\ ReadsInv /\ ChainInv'
    BY <1>1, ChainStays DEF ConserveInv
  <1>3. NextId' = NextId /\ NextId \in Nat /\ GenesisIds' = GenesisIds /\ Total' = Total
        /\ Len(Genesis) \in Nat /\ Len(Genesis) + 1 <= NextId
    BY <1>1, <1>2, ChainStays, SizesAreNat DEF ChainInv
  <1>4. /\ DOMAIN cache' = CountFields /\ cache'.known = file.known \cup GenesisIds
        /\ cache'.baseline = file.baseline /\ cache'.movedThen = file.movedThen
    BY <1>1, <1>2 DEF KnownInv, CountFields
  <1>5. cache'.known \subseteq 1..(NextId - 1) /\ Together(cache'.known)
    <2>1. \A i \in GenesisIds : i \in 1..(NextId - 1)
      BY <1>3 DEF GenesisIds
    <2>2. Together(GenesisIds)
      <3> SUFFICES ASSUME NEW k \in DOMAIN ops PROVE ops[k] \cap GenesisIds = {}
        BY DEF Together
      <3>1. \A i \in ops[k] : i \in (Len(Genesis) + 1)..(NextId - 1)
        BY <1>2 DEF ChainInv
      <3>2. \A i \in (Len(Genesis) + 1)..(NextId - 1) : i \notin GenesisIds
        BY <1>3 DEF GenesisIds
      <3> QED BY <3>1, <3>2
    <2>3. file.known \subseteq 1..(NextId - 1) /\ Together(file.known)
      BY <1>2 DEF KnownInv
    <2>4. Together(file.known \cup GenesisIds)
      BY <2>2, <2>3, TogetherUnion
    <2> QED BY <1>4, <2>1, <2>3, <2>4
  <1>6. KnownInv'
    <2>1. \A c \in {cache', file'} :
            /\ DOMAIN c = CountFields
            /\ c.known \subseteq 1..(NextId' - 1)
            /\ \A k \in DOMAIN ops' : ops'[k] \subseteq c.known \/ ops'[k] \cap c.known = {}
      BY <1>1, <1>2, <1>3, <1>4, <1>5 DEF KnownInv, Together
    <2>2. Together(1..(flags.next - 1))'
      BY <1>1, <1>2 DEF KnownInv, Together
    <2>3. flags'.next \in 0..NextId' /\ GenesisIds' \subseteq cache'.known
      BY <1>1, <1>2, <1>3, <1>4 DEF KnownInv
    <2> QED BY <1>1, <2>1, <2>2, <2>3 DEF KnownInv, Together
  <1>7. ReadsInv'
    BY <1>1, <1>2, AtRest DEF ReadsInv
  <1>8. BaselineNeedsTwo'
    BY <1>1, <1>3, <1>4 DEF ConserveInv, BaselineNeedsTwo
  <1> QED BY <1>2, <1>6, <1>7, <1>8 DEF ConserveInv

\* A cache that is not there knows no id.
LEMMA NewKnowsNothing ==
  ASSUME CycleAssumption
  PROVE  /\ DOMAIN NewCache = CountFields /\ NewCache.known = {} /\ NewCache.baseline = 0
BY DEF NewCache, CountFields

\* Closing or dying leaves the chain and the file's ids.
LEMMA StopKeeps ==
  ASSUME CycleAssumption, ConserveInv, Close \/ Crash
  PROVE  ConserveInv'
PROOF
  <1>1. /\ pc' = "off" /\ cache' = NewCache /\ file' \in {file, cache}
        /\ flags' = Flags(FALSE, 0, 0) /\ UNCHANGED <<cores, ops, moved>>
    BY DEF Close, Crash, Stopped, LocalsGone
  <1>2. ChainInv /\ KnownInv /\ ReadsInv /\ ChainInv'
    BY <1>1, ChainStays DEF ConserveInv
  <1>3. flags'.next = 0 /\ ~flags'.ok
    BY <1>1 DEF Flags
  <1>4. NextId' = NextId /\ NextId \in Nat /\ GenesisIds' = GenesisIds /\ Total' = Total
    BY <1>1, <1>2, ChainStays, SizesAreNat DEF ChainInv
  <1>5. KnownInv'
    <2>1. \A c \in {cache', file'} :
            /\ DOMAIN c = CountFields
            /\ c.known \subseteq 1..(NextId' - 1)
            /\ \A k \in DOMAIN ops' : ops'[k] \subseteq c.known \/ ops'[k] \cap c.known = {}
      BY <1>1, <1>2, <1>4, NewKnowsNothing DEF KnownInv, Together
    <2>2. Together(1..(flags.next - 1))'
      <3>1. 1..(flags'.next - 1) = {}
        BY <1>3
      <3> QED BY <3>1 DEF Together
    <2>3. flags'.next \in 0..NextId'
      BY <1>3, <1>4
    <2> QED BY <1>1, <2>1, <2>2, <2>3 DEF KnownInv, Together
  <1>6. ReadsInv'
    BY <1>1, <1>2, <1>3, AtRest
  <1>7. BaselineNeedsTwo'
    BY <1>1, <1>4, NewKnowsNothing DEF ConserveInv, BaselineNeedsTwo
  <1> QED BY <1>2, <1>5, <1>6, <1>7 DEF ConserveInv

\* A step that changes none of it keeps it.
LEMMA StutterKeeps ==
  ASSUME ConserveInv, UNCHANGED vars
  PROVE  ConserveInv'
PROOF
  <1>1. UNCHANGED <<cores, ops, pc, got, block, flags, todo, out, sweptOk, cache, file, moved>>
    BY DEF vars, cycleVars
  <1>2. ChainInv /\ KnownInv /\ ReadsInv /\ ChainInv'
    BY <1>1, ChainStays DEF ConserveInv
  <1>3. NextId' = NextId /\ GenesisIds' = GenesisIds /\ Total' = Total
    BY <1>1, ChainStays
  <1>4. KnownInv'
    <2>1. Together(1..(flags.next - 1))'
      BY <1>1, <1>2 DEF KnownInv, Together
    <2>2. \A c \in {cache', file'} :
            /\ DOMAIN c = CountFields
            /\ c.known \subseteq 1..(NextId' - 1)
            /\ \A k \in DOMAIN ops' : ops'[k] \subseteq c.known \/ ops'[k] \cap c.known = {}
      BY <1>1, <1>2, <1>3 DEF KnownInv, Together
    <2> QED BY <1>1, <1>2, <1>3, <2>1, <2>2 DEF KnownInv, Together
  <1>5. ASSUME NEW old, BeganWith(old)
        PROVE  BeganWith(old)'
    <2>1. (AliveIn(old))' = AliveIn(old) /\ Alive' = Alive
      BY <1>1, ChainStays DEF AliveIn, Ids
    <2>2. ReadNow => ReadNow'
      BY <1>1, <2>1 DEF ReadNow
    <2>3. ReadBefore(old) => ReadBefore(old)'
      BY <1>1, <2>1 DEF ReadBefore, SupplyOf
    <2> QED BY <1>1, <1>5, <2>2, <2>3, StillBegan DEF BeganWith
  <1>6. ReadsInv'
    BY <1>1, <1>2, <1>5, ChainStays DEF ReadsInv
  <1>7. BaselineNeedsTwo'
    BY <1>1, <1>3 DEF ConserveInv, BaselineNeedsTwo
  <1> QED BY <1>2, <1>4, <1>6, <1>7 DEF ConserveInv

\* It holds at the start.
LEMMA InitConserves ==
  ASSUME CycleAssumption, Init
  PROVE  ConserveInv
PROOF
  <1> DEFINE L == Len(Genesis)
  <1>1. /\ cores = [i \in Ids |-> IF i \in GenesisIds THEN Genesis[i] ELSE 0]
        /\ ops = <<>> /\ pc = "off" /\ flags = Flags(FALSE, 0, 0) /\ cache = NewCache
        /\ file = NewCache /\ moved = 0
    BY DEF Init
  <1>2. L \in Nat /\ GenesisIds = 1..L /\ GenesisIds \in SUBSET Ids
        /\ \A i \in GenesisIds : Genesis[i] \in Nat /\ Genesis[i] > 0
    BY SizesAreNat DEF CycleAssumption, GenesisIds
  <1>3. NextId = L + 1
    <2>1. DOMAIN ops = {} /\ IsFiniteSet({})
      BY <1>1, FS_EmptySet
    <2>2. Sum(Minted, {}) = 0
      BY <2>1, SumFirst
    <2>3. NextId = L + 1 + Sum(Minted, {})
      BY <2>1 DEF NextId
    <2> HIDE DEF L
    <2> QED BY <1>2, <2>2, <2>3
  <1>4. Alive = GenesisIds
    <2>1. \A i \in Ids : cores[i] > 0 <=> i \in GenesisIds
      BY <1>1, <1>2
    <2> QED BY <1>2, <2>1 DEF Alive
  <1>5. Adds(cores)
    <2>1. cores \in [Ids -> Nat]
      BY <1>1, <1>2
    <2>2. AliveIn(cores) = GenesisIds
      BY <1>4 DEF AliveIn, Alive
    <2>3. Sum(cores, GenesisIds) = Sum(Genesis, GenesisIds)
      <3>1. \A i \in GenesisIds : cores[i] = Genesis[i]
        BY <1>1, <1>2
      <3>2. IsFiniteSet(GenesisIds)
        BY <1>2, SizesAreNat
      <3> QED BY <3>1, <3>2, SumSame
    <2> QED BY <2>1, <2>2, <2>3, AddsBound DEF Total
  <1>6. ChainInv
    <2>1. ops \in Seq(SUBSET Nat) /\ Len(ops) = 0 /\ DOMAIN ops = {}
      BY <1>1
    <2>2. Alive \subseteq 1..(NextId - 1)
      BY <1>2, <1>3, <1>4
    <2>3. NextId \in (L + 1)..(L + 1 + 2 * Len(ops)) /\ Len(ops) <= MaxOps
      BY <1>2, <1>3, <2>1, SizesAreNat
    <2> QED BY <1>5, <2>1, <2>2, <2>3 DEF ChainInv
  <1>7. KnownInv
    <2>1. DOMAIN ops = {} /\ flags.next = 0 /\ 0 \in 0..NextId
      BY <1>1, <1>2, <1>3 DEF Flags
    <2> QED BY <1>1, <2>1, NewKnowsNothing DEF KnownInv, Together
  <1>8. ReadsInv
    BY <1>1 DEF ReadsInv, Flags
  <1>9. BaselineNeedsTwo
    BY <1>1, NewKnowsNothing DEF BaselineNeedsTwo
  <1> QED BY <1>6, <1>7, <1>8, <1>9 DEF ConserveInv

\* Every step keeps it.
LEMMA NextConserves ==
  ASSUME CycleAssumption, ConserveInv, [Next]_vars
  PROVE  ConserveInv'
PROOF
  <1>1. CASE Bond \/ Cleave
    <2>1. ChainInv
      BY DEF ConserveInv
    <2>2. PICK dead, made : Takes(dead, made)
      BY <1>1, <2>1, BondTakes, CleaveTakes
    <2> QED BY <2>2, OperationKeeps
  <1>2. CASE Cycle
    BY <1>2, BeginKeeps, ReadBlockKeeps, ReadFlagsKeeps, SeedKeeps, ScanKeeps,
       SweepChunkKeeps, SweepEnds, SettleKeeps DEF Cycle
  <1>3. CASE Start
    BY <1>3, StartKeeps
  <1>4. CASE Close \/ Crash
    BY <1>4, StopKeeps
  <1>5. CASE UNCHANGED vars
    BY <1>5, StutterKeeps
  <1> QED BY <1>1, <1>2, <1>3, <1>4, <1>5 DEF Next

\* ConserveInv is invariant, whatever fails and whenever the process stops.
THEOREM ConserveInvariant == Spec => []ConserveInv
PROOF
  <1>1. Init => ConserveInv
    BY CycleAssumption, InitConserves
  <1>2. ConserveInv /\ [Next]_vars => ConserveInv'
    BY CycleAssumption, NextConserves
  <1> QED BY <1>1, <1>2, PTL DEF Spec

\* A wrong baseline was taken in a cycle during which at least two operations
\* changed the chain (enumeration_complete, set_invariant_baseline_if_unset).
THEOREM BaselineIsTrusted == Spec => []BaselineNeedsTwo
PROOF
  <1>1. ConserveInv => BaselineNeedsTwo
    BY DEF ConserveInv
  <1> QED BY <1>1, ConserveInvariant, PTL

\* No outage and no single operation raises the alarm about conservation: it
\* takes two in the cycle, or in the one that took the baseline.
THEOREM AlarmIsMeant == Spec => AlarmNeedsTwo
PROOF
  <1>1. ASSUME ConserveInv, [Next]_vars, pc = "settle", pc' = "idle", verdict' = "drift"
        PROVE  moved = 2 \/ cache'.movedThen = 2
    <2>1. Settle
      BY <1>1 DEF Next, Cycle, Bond, Cleave, Operate, BeginCycle, ReadBlock, ReadFlags, Seed,
           Scan, SweepChunk, SweepFails, SweepDone, Start, Close, Crash, Stopped, vars
    <2>2. cache' = Baselined /\ Verdict(Baselined) = "drift"
      BY <1>1, <2>1 DEF Settle
    <2>3. Complete /\ ~(Baselined.baseline <= 0) /\ Counted # Baselined.baseline
      BY <2>2 DEF Verdict
    <2>4. Counted = Total \/ moved = 2
      BY <1>1, <2>3, CycleAssumption, CompleteIsTotal
    <2>5. Baselined.baseline \notin {0, Total} => Baselined.movedThen = 2
      BY <1>1, CycleAssumption, BaselineIsSound
    <2>6. Baselined.baseline # 0
      BY <2>3
    <2> QED BY <2>2, <2>3, <2>4, <2>5, <2>6
  <1>2. ConserveInv /\ [Next]_vars =>
          [pc = "settle" /\ pc' = "idle" /\ verdict' = "drift"
             => moved = 2 \/ cache'.movedThen = 2]_vars
    BY <1>1
  <1> QED BY <1>2, ConserveInvariant, PTL DEF Spec, AlarmNeedsTwo

-----------------------------------------------------------------------------
(***************************************************************************)
(* The registry.                                                           *)
(***************************************************************************)
\* Every step of a cycle keeps the registry and the sweep within the ids known.
LEMMA CycleKeepsRegistry ==
  ASSUME RegistryInv, DOMAIN cache = CountFields, DOMAIN file = CountFields, Cycle
  PROVE  RegistryInv'
PROOF
  <1>1. CASE BeginCycle \/ ReadBlock \/ ReadFlags \/ SweepFails
    BY <1>1 DEF BeginCycle, ReadBlock, ReadFlags, SweepFails, RegistryInv
  <1>2. CASE Seed
    <2>1. /\ cache'.known = cache.known \cup SeededIds /\ cache'.tokens = cache.tokens
          /\ pc = "reads" /\ pc' = "scan"
          /\ UNCHANGED <<got, todo, out, file, verdict, starts>>
      BY <1>2 DEF Seed, cycleVars, CountFields
    <2> QED BY <2>1 DEF RegistryInv
  <1>3. CASE Scan
    <2>1. /\ todo' = cache'.known /\ out' = <<>> /\ pc' = "sweep"
          /\ UNCHANGED <<got, file, verdict, starts>>
      BY <1>3 DEF Scan
    <2>2. cache'.tokens = cache.tokens /\ cache.known \subseteq cache'.known
      <3>1. ASSUME NEW seen, NEW reached,
                   cache' = [cache EXCEPT
                     !.known = @ \cup UNION {ops[k] : k \in seen},
                     !.applied = @ \cup seen,
                     !.first = IF cache.mark = 0 THEN From ELSE @,
                     !.mark = Mark(reached)]
            PROVE  cache'.tokens = cache.tokens /\ cache.known \subseteq cache'.known
        <4>1. /\ cache'.tokens = cache.tokens
              /\ cache'.known = cache.known \cup UNION {ops[k] : k \in seen}
          BY <3>1 DEF CountFields
        <4> QED BY <4>1
      <3>2. CASE UNCHANGED cache
        BY <3>2
      <3>3. CASE ~UNCHANGED cache
        <4>1. PICK reached \in IF clear THEN {block} ELSE (From - 1)..block,
                   served \in (HeadBlock - Lag)..HeadBlock :
                LET seen == OpsIn(From, IF reached <= served THEN reached ELSE served)
                IN  IF reached < From THEN UNCHANGED cache
                    ELSE cache' = [cache EXCEPT
                           !.known = @ \cup UNION {ops[k] : k \in seen},
                           !.applied = @ \cup seen,
                           !.first = IF cache.mark = 0 THEN From ELSE @,
                           !.mark = Mark(reached)]
          BY <1>3, <3>3 DEF Scan
        <4> DEFINE seen == OpsIn(From, IF reached <= served THEN reached ELSE served)
        <4>2. cache' = [cache EXCEPT
                !.known = @ \cup UNION {ops[k] : k \in seen},
                !.applied = @ \cup seen,
                !.first = IF cache.mark = 0 THEN From ELSE @,
                !.mark = Mark(reached)]
          BY <3>3, <4>1
        <4> HIDE DEF seen
        <4> QED BY <3>1, <4>2
      <3> QED BY <3>2, <3>3
    <2>3. DOMAIN out' = {}
      BY <2>1
    <2> QED BY <2>1, <2>2, <2>3 DEF RegistryInv
  <1>4. CASE SweepChunk
    <2>1. /\ pc = "sweep" /\ todo' \subseteq todo
          /\ DOMAIN out' = DOMAIN out \cup (FirstOf(todo) \cap Alive)
          /\ UNCHANGED <<pc, got, cache, file, verdict, starts>>
      BY <1>4 DEF SweepChunk
    <2>2. FirstOf(todo) \subseteq todo
      BY DEF FirstOf
    <2> QED BY <2>1, <2>2 DEF RegistryInv
  <1>5. CASE SweepDone
    <2>1. /\ cache'.tokens = out /\ cache'.known = cache.known /\ pc' = "settle"
          /\ UNCHANGED <<got, todo, out, file, verdict, starts>>
      BY <1>5 DEF SweepDone, cycleVars, CountFields
    <2> QED BY <2>1 DEF RegistryInv
  <1>6. CASE Settle
    <2>1. /\ cache' = Baselined /\ file' \in {file, Baselined} /\ pc' = "idle"
          /\ verdict' = Verdict(Baselined) /\ starts' = starts
          /\ got' = {} /\ todo' = {} /\ out' = <<>>
      BY <1>6 DEF Settle, LocalsGone
    <2>2. Baselined.known = cache.known /\ Baselined.tokens = cache.tokens
      BY DEF Baselined, CountFields
    <2>3. Verdict(Baselined) \in {"syncing", "intact", "drift"} /\ DOMAIN out' = {}
      BY <2>1 DEF Verdict
    <2> QED BY <2>1, <2>2, <2>3 DEF RegistryInv
  <1> QED BY <1>1, <1>2, <1>3, <1>4, <1>5, <1>6 DEF Cycle

LEMMA RegistryStep ==
  ASSUME CycleAssumption, ConserveInv, RegistryInv, [Next]_vars
  PROVE  RegistryInv'
PROOF
  <1>1. DOMAIN cache = CountFields /\ DOMAIN file = CountFields
    BY DEF ConserveInv, KnownInv
  <1>2. CASE Bond \/ Cleave
    <2>1. UNCHANGED <<pc, got, todo, out, cache, file, verdict, starts>>
      BY <1>2 DEF Bond, Cleave, Operate, cycleVars
    <2> QED BY <2>1 DEF RegistryInv
  <1>3. CASE Cycle
    BY <1>1, <1>3, CycleKeepsRegistry
  <1>4. CASE Start
    <2>1. /\ pc = "off" /\ pc' = "idle" /\ starts < MaxStarts /\ starts' = starts + 1
          /\ cache'.known = file.known \cup GenesisIds /\ cache'.tokens = file.tokens
          /\ UNCHANGED <<got, todo, out, file, verdict>>
      BY <1>1, <1>4 DEF Start, cycleVars, CountFields
    <2>2. starts' \in 0..MaxStarts
      BY <2>1 DEF RegistryInv, CycleAssumption
    <2> QED BY <2>1, <2>2 DEF RegistryInv
  <1>5. CASE Close \/ Crash
    <2>1. /\ pc' = "off" /\ got' = {} /\ todo' = {} /\ out' = <<>> /\ cache' = NewCache
          /\ verdict' = "none" /\ starts' = starts /\ file' \in {cache, file}
      BY <1>5 DEF Close, Crash, Stopped, LocalsGone
    <2>2. DOMAIN out' = {} /\ NewCache.known = {} /\ DOMAIN NewCache.tokens = {}
      BY <2>1 DEF NewCache
    <2> QED BY <2>1, <2>2 DEF RegistryInv
  <1>6. CASE UNCHANGED vars
    <2>1. UNCHANGED <<pc, got, todo, out, cache, file, verdict, starts>>
      BY <1>6 DEF vars, cycleVars
    <2> QED BY <2>1 DEF RegistryInv
  <1> QED BY <1>2, <1>3, <1>4, <1>5, <1>6 DEF Next

\* Every variable keeps its type: no id is known that the contract has not
\* allocated, the registry holds known ids only, and no watermark is past the
\* head, whatever fails and lags and whenever the dashboard stops.
THEOREM CycleTypes == Spec => []CycleTypeOK
PROOF
  <1>1. Init => RegistryInv
    <2> SUFFICES ASSUME Init PROVE RegistryInv
      OBVIOUS
    <2>1. DOMAIN out = {} /\ NewCache.known = {} /\ DOMAIN NewCache.tokens = {}
      BY DEF Init, NewCache
    <2> QED BY <2>1, CycleAssumption DEF Init, RegistryInv, CycleAssumption
  <1>2. ConserveInv /\ RegistryInv /\ [Next]_vars => RegistryInv'
    BY CycleAssumption, RegistryStep
  <1>3. ASSUME ConserveInv, RegistryInv, CountInv
        PROVE  CycleTypeOK
    <2>1. cores \in [Ids -> Nat] /\ Len(ops) <= MaxOps
      <3>1. cores \in [Ids -> 0..Total] /\ Len(ops) <= MaxOps
        BY <1>3 DEF ConserveInv, ChainInv, Adds
      <3>2. \A i \in Ids : cores[i] \in Nat
        BY <3>1
      <3> QED BY <3>1, <3>2
    <2>2. HeadBlock \in Nat /\ block \in 0..HeadBlock
      BY <1>3 DEF CountInv, HeadBlock
    <2>3. DOMAIN out \subseteq Ids
      <3>1. cache.known \subseteq 1..(NextId - 1) /\ NextId \in Nat
        BY <1>3, SizesAreNat, CycleAssumption DEF ConserveInv, KnownInv, ChainInv
      <3>2. NextId - 1 <= Len(Genesis) + 2 * MaxOps
        BY <1>3, <2>1, SizesAreNat, CycleAssumption DEF ConserveInv, ChainInv, CycleAssumption, CountInv
      <3>3. 1..(NextId - 1) \subseteq Ids
        BY <3>1, <3>2, SizesAreNat, CycleAssumption DEF Ids
      <3> QED BY <1>3, <3>1, <3>3 DEF RegistryInv
    <2>4. ASSUME NEW c \in {cache, file}
          PROVE  /\ c.known \subseteq 1..(NextId - 1) /\ DOMAIN c.tokens \subseteq c.known
                 /\ c.applied \subseteq DOMAIN ops /\ c.mark <= HeadBlock
      <3>1. Tally(c) /\ DOMAIN c.tokens \subseteq c.known
        BY <1>3, <2>4 DEF CountInv, RegistryInv
      <3>2. c.known \subseteq 1..(NextId - 1)
        BY <1>3, <2>4 DEF ConserveInv, KnownInv
      <3>3. c.applied \subseteq DOMAIN ops /\ c.mark <= HeadBlock
        BY <2>2, <3>1 DEF Tally, OpsIn
      <3> QED BY <3>1, <3>2, <3>3
    <2> QED BY <1>3, <2>1, <2>2, <2>3, <2>4
        DEF CycleTypeOK, RegistryInv, ConserveInv, ReadsInv
  <1>4. Spec => []RegistryInv
    BY <1>1, <1>2, ConserveInvariant, PTL DEF Spec
  <1>5. ConserveInv /\ RegistryInv /\ CountInv => CycleTypeOK
    BY <1>3
  <1> QED BY <1>4, <1>5, ConserveInvariant, CycleInvariant, PTL
=============================================================================
