-------------------------- MODULE CuratorFoldProofs --------------------------
(***************************************************************************)
(* Theorems about CuratorFold, for every chain, every settlement and any   *)
(* number of sessions.                                                     *)
(*                                                                         *)
(* NothingSkipped is not inductive alone: the sweep that takes the loss    *)
(* marker down must have started at the creation block.  It did, for the   *)
(* marker was up when its from_block was chosen and only a sweep moves it. *)
(***************************************************************************)
EXTENDS CuratorFold, FiniteSetTheorems, TLAPS

\* A sweep under way while the marker is up re-reads the whole history.
LossIsReread == pc = "logs" /\ dropped => from = Creation

IInv == TypeOK /\ NothingSkipped /\ StaleIsDegraded /\ LossIsReread

-----------------------------------------------------------------------------
(* The numbers the steps compare.                                          *)
LEMMA BlocksAreNat ==
  ASSUME TypeOK
  PROVE  /\ head \in Nat /\ watermark \in Nat /\ from \in Nat
         /\ \A b \in Deposits : b \in Nat /\ b >= 1 /\ b <= MaxBlock
<1>1. head \in Nat /\ MaxBlock \in Nat
  BY CuratorAssumption DEF TypeOK
<1>2. watermark \in Nat
  BY <1>1 DEF TypeOK
<1>3. from \in Nat
  BY <1>2 DEF TypeOK
<1>4. \A b \in Deposits : b \in Nat /\ b >= 1 /\ b <= MaxBlock
  BY <1>1, CuratorAssumption
<1> QED BY <1>1, <1>2, <1>3, <1>4

(* Fewer deposits held than were made means that one of them is missing.   *)
LEMMA ShortMisses ==
  ASSUME TypeOK, NEW s \in check, Short(s)
  PROVE  \E b \in chain : Creation <= b /\ b <= watermark /\ b \notin events
<1> DEFINE made == {b \in chain : b <= s}
<1>1. made \subseteq 1..MaxBlock /\ events \subseteq 1..MaxBlock
  BY CuratorAssumption DEF TypeOK, chain
<1>2. IsFiniteSet(events)
  <2>1. IsFiniteSet(1..MaxBlock)
    BY FS_Interval, CuratorAssumption
  <2> QED BY <1>1, <2>1, FS_Subset
<1>3. ~ made \subseteq events
  <2> SUFFICES ASSUME made \subseteq events PROVE FALSE
    OBVIOUS
  <2>1. Cardinality(made) <= Cardinality(events)
    BY <1>2, FS_Subset
  <2>2. Cardinality(events) \in Nat /\ Cardinality(made) \in Nat
    BY <1>2, FS_CardinalityType, FS_Subset
  <2> QED BY <2>1, <2>2 DEF Short
<1>4. PICK b \in made : b \notin events
  BY <1>3
<1>5. b \in chain /\ b <= watermark /\ Creation <= b
  BY <1>1, <1>4, CuratorAssumption DEF Short, TypeOK, Creation
<1> QED BY <1>4, <1>5

(* Where the cross-check asks to start is at or below a missing deposit.   *)
LEMMA GapIsReal ==
  ASSUME TypeOK, NEW to \in 0..head, NEW s \in check, NEW gap \in 0..MaxBlock,
         Gap(to, s, gap), gap # 0
  PROVE  \E b \in chain : gap <= b /\ b <= watermark /\ b \notin events
<1>1. CASE Short(s)
  BY <1>1, ShortMisses DEF Gap
<1>2. CASE ~ Short(s)
  <2>1. gap \in Missing(to)
    BY <1>2 DEF Gap
  <2> QED BY <2>1 DEF Missing
<1> QED BY <1>1, <1>2

LEMMA InitHolds == Init => IInv
<1> SUFFICES ASSUME Init PROVE IInv
  OBVIOUS
<1>1. chain = {}
  <2>1. \A b \in Deposits : b \in Nat /\ b >= 1
    BY CuratorAssumption
  <2>2. \A b \in Deposits : ~ b <= 0
    BY <2>1
  <2> QED BY <2>2 DEF Init, chain
<1>2. MaxBlock \in Nat /\ MaxStarts \in Nat
  BY CuratorAssumption
<1>3. /\ 0 \in 0..MaxBlock /\ 0 \in 0..0 /\ 0 \in 0..MaxStarts
      /\ 1 \in 1..(0 + 1)
  BY <1>2
<1>4. TypeOK
  BY <1>1, <1>3 DEF Init, TypeOK, Creation
<1> QED BY <1>1, <1>4 DEF Init, IInv, NothingSkipped, StaleIsDegraded, LossIsReread

LEMMA CycleEndsTypes ==
  ASSUME TypeOK, NEW s \in 0..head, CycleEnds(s), watermark' \in Nat, head' = head
  PROVE  /\ pc' = "idle" /\ tiers' \subseteq Tiers
         /\ from' \in 1..(watermark' + 1) /\ check' \subseteq 0..head'
<1>1. check' = check \/ check' = {s}
  BY DEF CycleEnds, Spawned
<1>2. check' \subseteq 0..head'
  BY <1>1 DEF TypeOK
<1>3. 1 \in 1..(watermark' + 1)
  <2>1. ASSUME NEW n \in Nat PROVE 1 \in 1..(n + 1)
    OBVIOUS
  <2> QED BY <2>1
<1> QED BY <1>2, <1>3 DEF CycleEnds, Creation

(* One sweep, whatever it read.                                            *)
LEMMA LogsReadKeeps ==
  ASSUME IInv, NEW to \in 0..head, NEW dead \in {"none", "deposits", "other"},
         NEW out \in SUBSET chain, NEW spoilt \in SUBSET chain,
         LogsRead(to, dead, out, spoilt)
  PROVE  IInv'
<1> DEFINE range == {b \in chain : from <= b /\ b <= to}
           rows == IF dead = "deposits" THEN {} ELSE range \ out
           covered == dead = "none" /\ spoilt = {}
<1> USE DEF IInv
<1>1. /\ watermark' = Advanced(to, covered)
      /\ dropped' = (DroppedAfter(to, covered) \/ spoilt # {})
      /\ events' = events \union (rows \ spoilt)
      /\ withheld' = (withheld \union out) \ events'
      /\ out \subseteq range /\ asked' = 0 /\ pc = "logs"
      /\ due' = due \ {"medium"} /\ degraded' = ~ covered
      /\ head' = head /\ latch' = latch /\ state' = state /\ starts' = starts
      /\ CycleEnds(state)
  BY DEF LogsRead, DegradedAfter
<1>2. chain' = chain
  BY <1>1 DEF chain
<1>3. head \in Nat /\ to \in Nat /\ watermark \in Nat /\ from \in Nat
      /\ chain \subseteq Nat /\ \A b \in chain : b >= 1
  BY BlocksAreNat DEF chain
<1>4. watermark' \in 0..head /\ watermark' >= watermark
  BY <1>1, <1>3 DEF Advanced, TypeOK
<1>5. pc' = "idle" /\ tiers' \subseteq Tiers /\ from' \in 1..(watermark' + 1)
      /\ check' \subseteq 0..head'
  <2>1. state \in 0..head
    BY DEF TypeOK
  <2> QED BY <1>1, <1>4, <2>1, CycleEndsTypes
<1>6. TypeOK'
  <2>1. events' \subseteq chain /\ withheld' \subseteq chain
    BY <1>1 DEF TypeOK
  <2>2. dropped' \in BOOLEAN /\ degraded' \in BOOLEAN
    <3>1. degraded' \in BOOLEAN
      BY <1>1
    <3>2. dropped' \in BOOLEAN
      BY <1>1
    <3> QED BY <3>1, <3>2
  <2>3. asked' \in 0..watermark' /\ latch' \in 0..head' /\ head' \in 0..MaxBlock
    BY <1>1, <1>4 DEF TypeOK
  <2>4. due' \subseteq Tiers /\ state' \in 0..head' /\ starts' \in 0..MaxStarts
    BY <1>1 DEF TypeOK
  <2> QED BY <1>1, <1>2, <1>4, <1>5, <2>1, <2>2, <2>3, <2>4 DEF TypeOK
<1>7. NothingSkipped'
  <2> SUFFICES ASSUME NEW b \in chain, b <= watermark', ~ dropped'
               PROVE  b \in events' \/ b \in withheld'
    BY <1>2 DEF NothingSkipped
  <2>1. covered => (b \in range => b \in events' \/ b \in withheld')
    BY <1>1
  <2>2. CASE dropped
    <3>1. covered /\ to >= watermark
      BY <1>1, <2>2 DEF DroppedAfter
    <3>2. from = 1
      BY <1>1, <2>2 DEF LossIsReread, Creation
    <3>3. b <= to
      BY <1>1, <1>3, <3>1 DEF Advanced
    <3> QED BY <1>3, <2>1, <3>1, <3>2, <3>3
  <2>3. CASE ~ dropped /\ b <= watermark
    BY <1>1, <2>3 DEF NothingSkipped
  <2>4. CASE b > watermark
    <3>1. covered /\ b <= to
      BY <1>1, <1>3, <2>4 DEF Advanced
    <3>2. from <= b
      BY <1>3, <2>4 DEF TypeOK
    <3> QED BY <2>1, <3>1, <3>2
  <2> QED BY <1>3, <2>2, <2>3, <2>4
<1>8. StaleIsDegraded' /\ LossIsReread'
  BY <1>1, <1>5 DEF StaleIsDegraded, LossIsReread
<1> QED BY <1>6, <1>7, <1>8

LEMMA StateReadKeeps ==
  ASSUME IInv, NEW b \in 0..head, StateRead(b)
  PROVE  IInv'
<1> USE DEF IInv
<1>1. /\ pc = "state" /\ state' = b /\ latch' = Observed(b)
      /\ UNCHANGED <<head, logVars, asked, degraded, due, starts>>
  BY DEF StateRead
<1>2. chain' = chain
  BY <1>1 DEF chain
<1>3. latch' \in 0..head
  BY <1>1 DEF Observed, TypeOK
<1>4. SweepFrom \in 1..(watermark + 1) /\ (dropped => SweepFrom = Creation)
  BY CuratorAssumption DEF SweepFrom, TypeOK, Creation
<1>5. /\ pc' \in {"idle", "logs"} /\ tiers' \subseteq Tiers
      /\ from' \in 1..(watermark + 1) /\ check' \subseteq 0..head
      /\ pc' = "logs" => from' = SweepFrom
  <2>1. CASE "medium" \in tiers
    BY <1>4, <2>1 DEF StateRead, TypeOK
  <2>2. CASE "medium" \notin tiers
    <3>1. CycleEnds(b) /\ watermark' \in Nat /\ head' = head
                       /\ watermark' = watermark
      BY <1>1, <2>2 DEF StateRead, TypeOK, logVars
    <3> QED BY <3>1, CycleEndsTypes
  <2> QED BY <2>1, <2>2
<1>6. TypeOK'
  BY <1>1, <1>2, <1>3, <1>5 DEF TypeOK, logVars
<1>7. NothingSkipped' /\ StaleIsDegraded'
  BY <1>1, <1>2 DEF NothingSkipped, StaleIsDegraded, logVars
<1>8. LossIsReread'
  BY <1>1, <1>4, <1>5 DEF LossIsReread, logVars
<1> QED BY <1>6, <1>7, <1>8

LEMMA StepKeeps == IInv /\ [Next]_vars => IInv'
<1> SUFFICES ASSUME IInv, [Next]_vars PROVE IInv'
  OBVIOUS
<1> USE DEF IInv
<1>1. CASE Mine
  <2>1. head \in Nat /\ head' = head + 1 /\ head' \in 0..MaxBlock
    BY <1>1, BlocksAreNat, CuratorAssumption DEF Mine
  <2>2. chain' \subseteq chain \union {head'} /\ chain \subseteq chain'
    <3>1. ASSUME NEW b \in Deposits
          PROVE  (b <= head' <=> b <= head \/ b = head') /\ (b <= head => b <= head')
      BY <2>1, BlocksAreNat
    <3> QED BY <3>1 DEF chain
  <2>3. TypeOK'
    <3>1. UNCHANGED <<logVars, latch, asked, degraded, due, cycleVars, check, starts>>
      BY <1>1 DEF Mine
    <3>2. 0..head \subseteq 0..head'
      BY <2>1
    <3> QED BY <2>1, <2>2, <3>1, <3>2 DEF TypeOK, logVars, cycleVars
  <2>4. NothingSkipped'
    BY <1>1, <2>1, <2>2 DEF Mine, NothingSkipped, TypeOK, logVars
  <2>5. StaleIsDegraded' /\ LossIsReread'
    BY <1>1 DEF Mine, StaleIsDegraded, LossIsReread, logVars, cycleVars
  <2> QED BY <2>3, <2>4, <2>5
<1>2. ASSUME NEW t \in Tiers, Elapse(t) PROVE IInv'
  BY <1>2 DEF Elapse, TypeOK, NothingSkipped, StaleIsDegraded, LossIsReread,
              logVars, cycleVars, chain
<1>3. CASE CycleBegins
  BY <1>3 DEF CycleBegins, TypeOK, NothingSkipped, StaleIsDegraded,
              LossIsReread, logVars, chain
<1>4. CASE AnyState
  BY <1>4, StateReadKeeps DEF AnyState
<1>5. CASE KeptState
  BY <1>5, StateReadKeeps DEF KeptState, TypeOK
<1>6. CASE AnyLogs
  BY <1>6, LogsReadKeeps DEF AnyLogs
<1>7. CASE LogsRefused
  <2>1. /\ due' = due \ {"medium"} /\ degraded' = TRUE /\ CycleEnds(state)
        /\ UNCHANGED <<head, logVars, latch, asked, state, starts>>
    BY <1>7 DEF LogsRefused
  <2>2. chain' = chain /\ watermark' = watermark
    BY <2>1 DEF chain, logVars
  <2>3. /\ pc' = "idle" /\ tiers' \subseteq Tiers
        /\ from' \in 1..(watermark + 1) /\ check' \subseteq 0..head
    <3>1. state \in 0..head /\ watermark' \in Nat /\ head' = head
      BY <2>1, <2>2 DEF TypeOK
    <3> QED BY <2>1, <2>2, <3>1, CycleEndsTypes
  <2>4. TypeOK'
    BY <2>1, <2>2, <2>3 DEF TypeOK, logVars
  <2> QED BY <2>1, <2>2, <2>3, <2>4
          DEF NothingSkipped, StaleIsDegraded, LossIsReread, logVars
<1>8. CASE AnyCheck
  <2>1. PICK to \in 0..head, s \in check, gap \in 0..MaxBlock :
          /\ Gap(to, s, gap)
          /\ asked' = IF gap # 0 THEN gap ELSE asked
          /\ degraded' = DegradedBy(gap)
          /\ due' = (due \ {"slow"}) \union (IF gap # 0 THEN {"medium"} ELSE {})
          /\ check' = {}
          /\ UNCHANGED <<head, logVars, latch, cycleVars, starts>>
    BY <1>8 DEF AnyCheck, CheckLands
  <2>2. chain' = chain
    BY <2>1 DEF chain
  <2>3. asked' \in 0..watermark
    <3>1. CASE gap = 0
      BY <2>1, <3>1 DEF TypeOK
    <3>2. CASE gap # 0
      <4>1. PICK b \in chain : gap <= b /\ b <= watermark
        BY <2>1, <3>2, GapIsReal
      <4> QED BY <2>1, <3>2, <4>1, CuratorAssumption DEF chain, TypeOK
    <3> QED BY <3>1, <3>2
  <2>4. degraded' \in BOOLEAN /\ StaleIsDegraded'
    BY <2>1 DEF DegradedBy, StaleIsDegraded, TypeOK
  <2>5. due' \subseteq Tiers
    BY <2>1 DEF Tiers, TypeOK
  <2>6. TypeOK'
    BY <2>1, <2>2, <2>3, <2>4, <2>5 DEF TypeOK, logVars, cycleVars
  <2> QED BY <2>1, <2>2, <2>4, <2>6
          DEF NothingSkipped, LossIsReread, logVars, cycleVars
<1>9. ASSUME NEW bad \in SUBSET Blocks, Restart(bad) PROVE IInv'
  <2>1. chain' = chain
    BY <1>9 DEF Restart, chain
  <2>2. TypeOK'
    <3>1. starts' \in 0..MaxStarts
      BY <1>9, CuratorAssumption DEF Restart, TypeOK
    <3>2. /\ 0 \in 0..watermark /\ 1 \in 1..(watermark + 1) /\ 0 \in 0..head
          /\ {} \subseteq 0..head
      BY BlocksAreNat
    <3>3. events' \subseteq chain /\ dropped' \in BOOLEAN
      BY <1>9 DEF Restart, Restored, DroppedIn, TypeOK
    <3> QED BY <1>9, <2>1, <3>1, <3>2, <3>3 DEF Restart, TypeOK, Latched, Creation
  <2>3. NothingSkipped'
    BY <1>9, <2>1 DEF Restart, NothingSkipped, Restored, DroppedIn
  <2> QED BY <1>9, <2>2, <2>3 DEF Restart, StaleIsDegraded, LossIsReread
<1>10. CASE UNCHANGED vars
  BY <1>10 DEF vars, TypeOK, NothingSkipped, StaleIsDegraded, LossIsReread,
               logVars, cycleVars, chain
<1> QED BY <1>1, <1>2, <1>3, <1>4, <1>5, <1>6, <1>7, <1>8, <1>9, <1>10 DEF Next

(* The inductive invariant of the fold.                                    *)
THEOREM FoldInvariant == Spec => []IInv
<1>1. Init => IInv
  BY InitHolds
<1>2. IInv /\ [Next]_vars => IInv'
  BY StepKeeps
<1> QED BY <1>1, <1>2, PTL DEF Spec

(* The types, for every instance.                                          *)
THEOREM FoldTypes == Spec => []TypeOK
<1>1. IInv => TypeOK
  BY DEF IInv
<1> QED BY <1>1, FoldInvariant, PTL

(* No range is ever skipped: whatever fails, a deposit up to the watermark *)
(* is held unless an endpoint withheld it or the loss marker is up.        *)
THEOREM NoDepositSkipped == Spec => []NothingSkipped
<1>1. IInv => NothingSkipped
  BY DEF IInv
<1> QED BY <1>1, FoldInvariant, PTL

(* A fold known to be short is shown as degraded.                          *)
THEOREM ShortfallIsShown == Spec => []StaleIsDegraded
<1>1. IInv => StaleIsDegraded
  BY DEF IInv
<1> QED BY <1>1, FoldInvariant, PTL

(* The cross-check never sends a whole history to be read again.           *)
THEOREM NoPhantomRepair == Spec => RepairHasCause
<1> DEFINE Cause == asked' \notin {0, asked} =>
             \E b \in chain : asked' <= b /\ b <= watermark /\ b \notin events
<1>1. IInv /\ [Next]_vars => [Cause]_vars
  <2> SUFFICES ASSUME IInv, Next, asked' \notin {0, asked}
               PROVE  \E b \in chain : asked' <= b /\ b <= watermark /\ b \notin events
    OBVIOUS
  <2>1. ~ (\/ Mine \/ CycleBegins \/ AnyState \/ KeptState \/ AnyLogs \/ LogsRefused
           \/ \E t \in Tiers : Elapse(t)
           \/ \E bad \in SUBSET Blocks : Restart(bad))
    BY DEF Mine, CycleBegins, AnyState, KeptState, StateRead, AnyLogs, LogsRead,
           LogsRefused, Elapse, Restart
  <2>2. AnyCheck
    BY <2>1 DEF Next
  <2>3. PICK to \in 0..head, s \in check, gap \in 0..MaxBlock :
          Gap(to, s, gap) /\ asked' = IF gap # 0 THEN gap ELSE asked
    BY <2>2 DEF AnyCheck, CheckLands
  <2>4. gap # 0 /\ asked' = gap
    BY <2>3
  <2> QED BY <2>3, <2>4, GapIsReal DEF IInv
<1>2. Spec => []IInv /\ [][Next]_vars
  BY FoldInvariant DEF Spec
<1> QED BY <1>1, <1>2, PTL DEF RepairHasCause

(* The verdict, once latched, is the same in every later state.            *)
THEOREM VerdictIsFinal == Spec => VerdictStays
<1>1. [Next]_vars => [latch # 0 => latch' = latch]_vars
  <2> SUFFICES ASSUME Next, latch # 0 PROVE latch' = latch
    OBVIOUS
  <2> QED BY DEF Next, Mine, CycleBegins, AnyState, KeptState, StateRead, Observed,
             AnyLogs, LogsRead, LogsRefused, AnyCheck, CheckLands, Elapse,
             Restart, Latched
<1> QED BY <1>1, PTL DEF Spec, VerdictStays
=============================================================================
