------------------------- MODULE TalismansIOProofs -------------------------
(***************************************************************************)
(* Proofs about what the Talismans dashboard reads and writes.             *)
(*                                                                         *)
(* LogPager, for every set of endpoints, every limit and every window:     *)
(* what a scan reports is what it delivered, no refusal drives the window  *)
(* below half of the smallest limit named, limits alone stop no scan, and  *)
(* every answer leaves a scan fewer requests.                              *)
(*                                                                         *)
(* AtomicSave, for every set of writers and every text: while saves take   *)
(* turns, a start reads what was last saved, and a save is one step.       *)
(***************************************************************************)
EXTENDS LogPager, AtomicSave, TLAPS

\* A page lies in its range and is no wider than the window.
LEMMA PageWithin ==
  ASSUME NEW first \in Nat, NEW w \in Nat \ {0}, NEW last \in Nat, first <= last
  PROVE  /\ Smaller(first + w - 1, last) \in Nat
         /\ first <= Smaller(first + w - 1, last)
         /\ Smaller(first + w - 1, last) <= last
         /\ Smaller(first + w - 1, last) - first + 1 <= w
BY DEF Smaller

USE PagingAssumption

\* The failure a page may end in has the type of chosen.
FailureType == [kind : Kinds, hint : Nat]

LEMMA FirstEndpoint == 1 \in Endpoints /\ Len(Style) \in Nat
BY EndpointAssumption DEF Endpoints

LEMMA FailureTypes ==
  /\ NoFailure \in FailureType
  /\ Failure("transport", NoHint) \in FailureType
BY DEF NoFailure, Failure, NoHint, FailureType, Kinds

\* The helpers are numbers of the sizes the paging expects.
LEMMA GrownType ==
  ASSUME TypeOK
  PROVE  /\ Grown[1] \in window..RangePerCall
         /\ Grown[1] \in Spans
         /\ Grown[2] \in 0..GrowthAfter - 1
BY SMTT(30) DEF TypeOK, Grown, Spans, Smaller

\* A narrowed page is shorter than the page, and not empty.
LEMMA ShrunkEndShorter ==
  ASSUME TypeOK, pc = "rpc", end > cursor, NEW h \in Nat
  PROVE  /\ ShrunkEnd(h) \in Nat
         /\ cursor <= ShrunkEnd(h) /\ ShrunkEnd(h) < end
<1>1. Span \div 2 \in Nat /\ 2 * (Span \div 2) <= Span
  BY DEF TypeOK, Span
<1>2. CASE h # NoHint /\ Material(h)
  BY <1>2 DEF TypeOK, ShrunkEnd, Material, Span
<1>3. CASE ~(h # NoHint /\ Material(h))
  BY <1>1, <1>3 DEF TypeOK, ShrunkEnd, Span, Larger
<1>4. QED
  BY <1>2, <1>3

LEMMA RefusalType ==
  ASSUME NEW e \in Endpoints, NEW f \in Refusals(e)
  PROVE  f \in FailureType
<1>1. Style[e] \in {"any", "capped", "depth"}
  BY EndpointAssumption DEF Endpoints
<1>2. \A k \in Kinds, h \in Nat : Failure(k, h) \in FailureType
  BY DEF Failure, FailureType
<1>3. RangeRefusal(Cap[e], Span) \in FailureType
  BY <1>2 DEF RangeRefusal, NoHint, Kinds
<1>4. CASE Style[e] = "any"
  <2>1. \/ \E k \in Kinds : f = Failure(k, NoHint)
        \/ \E k \in Kinds, h \in Nat : f = Failure(k, h)
    BY <1>4 DEF Refusals, Kinds
  <2>2. QED
    BY <1>2, <2>1 DEF NoHint
<1>5. CASE Style[e] # "any"
  <2>1. f = RangeRefusal(Cap[e], Span)
    BY <1>1, <1>5 DEF Refusals
  <2>2. QED
    BY <1>3, <2>1
<1>6. QED
  BY <1>4, <1>5

-----------------------------------------------------------------------------
\* Stopping in front of the page reports the blocks the pages served tile.
LEMMA StopKeepsIInv ==
  ASSUME IInv, pc = "rpc", Stop(cursor - 1), silent' \in BOOLEAN,
         UNCHANGED <<window, okPages, range, covered, clear>>
  PROVE  IInv'
<1>1. TypeOK'
  BY DEF IInv, TypeOK, Stop
<1>2. ReachIsDelivered' /\ PagesTile' /\ PageFits'
  BY DEF IInv, TypeOK, Stop, ReachIsDelivered, PagesTile, PageFits
<1>3. QED
  BY <1>1, <1>2 DEF IInv

\* However an endpoint fails, nothing is delivered and the page stays in front
\* of what has been.
LEMMA EndpointFailedKeepsIInv ==
  ASSUME IInv, pc = "rpc", NEW f \in FailureType, EndpointFailed(f),
         silent' \in BOOLEAN, UNCHANGED <<range, covered, clear>>
  PROVE  IInv'
<1> DEFINE raised == Prefer(chosen, f)
<1>1. raised \in FailureType
  BY DEF IInv, TypeOK, Prefer, FailureType
<1>2. CASE /\ ep < Len(Style)
           /\ ep' = ep + 1 /\ attempt' = 1 /\ chosen' = raised
           /\ UNCHANGED <<window, okPages, pc, cursor, end, shrinks, reach>>
  <2>1. ep + 1 \in Endpoints
    BY <1>2 DEF IInv, TypeOK, Endpoints
  <2>2. TypeOK'
    BY <1>1, <1>2, <2>1 DEF IInv, TypeOK, FailureType
  <2>3. ReachIsDelivered' /\ PagesTile' /\ PageFits'
    BY <1>2 DEF IInv, ReachIsDelivered, PagesTile, PageFits, Span
  <2>4. QED
    BY <2>2, <2>3 DEF IInv
<1>3. CASE ep = Len(Style) /\ PageFailed(raised)
  <2>1. CASE CanShrink(raised)
    <3>1. /\ ShrunkEnd(raised.hint) \in Nat
          /\ cursor <= ShrunkEnd(raised.hint)
          /\ ShrunkEnd(raised.hint) < end
      BY <1>1, <2>1, ShrunkEndShorter DEF IInv, CanShrink, TypeOK, FailureType
    <3>2. /\ window' = ShrunkEnd(raised.hint) - cursor + 1
          /\ end' = ShrunkEnd(raised.hint)
          /\ okPages' = 0 /\ shrinks' = shrinks + 1
          /\ ep' = 1 /\ attempt' = 1 /\ chosen' = NoFailure
          /\ UNCHANGED <<pc, cursor, reach>>
      BY <1>3, <2>1 DEF PageFailed
    <3>3. Span <= RangePerCall /\ Span \in Nat
      BY DEF IInv, TypeOK, Span, PageFits
    <3>4. window' \in Spans
      BY <3>1, <3>2, <3>3 DEF IInv, TypeOK, Spans, Span
    <3>5. TypeOK'
      <4>1. /\ range' = range /\ pc' = "rpc" /\ range[1] <= cursor /\ end <= range[2]
            /\ range \in Nat \X Nat /\ cursor \in Nat /\ end \in Nat
        BY <1>1, <3>2 DEF IInv, TypeOK
      <4>2. range[1] <= cursor' /\ cursor' <= end' /\ end' <= range[2] /\ end' \in Nat
        BY <3>1, <3>2, <4>1
      <4>3. /\ ep' \in Endpoints /\ attempt' \in 1..MaxRetries
            /\ chosen' \in FailureType /\ shrinks' \in 0..MaxShrinks
        BY FirstEndpoint, FailureTypes, <2>1, <3>2 DEF IInv, TypeOK, CanShrink
      <4> QED
        BY <1>1, <3>2, <3>4, <4>1, <4>2, <4>3 DEF IInv, TypeOK, FailureType
    <3>6. ReachIsDelivered' /\ PagesTile' /\ PageFits'
      BY <3>1, <3>2, <3>3
      DEF IInv, TypeOK, ReachIsDelivered, PagesTile, PageFits, Span
    <3>7. QED
      BY <3>5, <3>6 DEF IInv
  <2>2. CASE ~CanShrink(raised)
    BY <1>3, <2>2, StopKeepsIInv DEF PageFailed
  <2>3. QED
    BY <2>1, <2>2
<1>4. QED
  BY <1>2, <1>3 DEF EndpointFailed

LEMMA StartScanKeepsIInv ==
  ASSUME IInv, StartScan
  PROVE  IInv'
<1>1. PICK from \in Blocks, to \in Blocks :
        /\ from <= to + 1
        /\ range' = <<from, to>>
        /\ \/ /\ from > to
              /\ Stop(to)
           \/ /\ from <= to
              /\ pc' = "rpc" /\ Ask(from, window, to)
              /\ UNCHANGED reach
  BY DEF StartScan
<1>2. /\ covered' = [b \in Blocks |-> 0] /\ UNCHANGED <<window, okPages, clear>>
      /\ pc = "idle" /\ silent' \in BOOLEAN
  BY DEF StartScan
<1>3. CASE from > to /\ Stop(to)
  <2>1. TypeOK'
    BY <1>1, <1>2, <1>3 DEF IInv, TypeOK, Stop, Blocks
  <2>2. range'[1]..reach' = {}
    BY <1>1, <1>3 DEF Stop, Blocks
  <2>3. ReachIsDelivered' /\ PagesTile' /\ PageFits'
    BY <1>2, <1>3, <2>2 DEF ReachIsDelivered, PagesTile, PageFits, Stop
  <2>4. QED
    BY <2>1, <2>3 DEF IInv
<1>4. CASE from <= to /\ pc' = "rpc" /\ Ask(from, window, to) /\ UNCHANGED reach
  <2>1. /\ cursor' = from /\ end' = Smaller(from + window - 1, to)
        /\ ep' = 1 /\ attempt' = 1 /\ chosen' = NoFailure /\ shrinks' = 0
    BY <1>4 DEF Ask, AskFrom
  <2>2. end' \in Nat /\ from <= end' /\ end' <= to /\ end' - from + 1 <= RangePerCall
    BY <1>4, <2>1 DEF IInv, TypeOK, Smaller, Spans, Blocks
  <2>3. TypeOK'
    <3>1. /\ range' \in Nat \X Nat /\ range'[1] <= cursor' /\ cursor' <= end'
          /\ end' <= range'[2] /\ cursor' \in Nat /\ end' \in Nat
      BY <1>1, <2>1, <2>2 DEF Blocks
    <3>2. covered' \in [Blocks -> 0..2] /\ reach' \in Int /\ pc' = "rpc"
      BY <1>1, <1>2, <1>4 DEF IInv, TypeOK
    <3>3. /\ ep' \in Endpoints /\ attempt' \in 1..MaxRetries
          /\ chosen' \in FailureType /\ shrinks' \in 0..MaxShrinks
      BY FirstEndpoint, FailureTypes, <2>1
    <3> QED BY <1>1, <1>2, <3>1, <3>2, <3>3 DEF IInv, TypeOK, FailureType
  <2>4. range'[1]..cursor' - 1 = {}
    BY <1>1, <2>1 DEF Blocks
  <2>5. ReachIsDelivered' /\ PagesTile' /\ PageFits'
    BY <1>2, <1>4, <2>1, <2>2, <2>4 DEF ReachIsDelivered, PagesTile, PageFits, Span
  <2>6. QED
    BY <2>3, <2>5 DEF IInv
<1>5. QED
  BY <1>1, <1>3, <1>4

LEMMA ServedKeepsIInv ==
  ASSUME IInv, Served
  PROVE  IInv'
<1>1. /\ pc = "rpc"
      /\ window' = Grown[1] /\ okPages' = Grown[2]
      /\ UNCHANGED <<range, silent, clear>>
      /\ covered' = [b \in Blocks |->
                       IF b \in cursor..end
                         THEN Smaller(2, covered[b] + 1) ELSE covered[b]]
  BY DEF Served
<1>2. /\ cursor \in Nat /\ end \in Nat /\ range \in Nat \X Nat
      /\ range[1] \in Nat /\ range[2] \in Nat
      /\ range[1] <= cursor /\ cursor <= end /\ end <= range[2]
  BY <1>1 DEF IInv, TypeOK
<1>3. covered' = [b \in Blocks |-> IF b \in range[1]..end THEN 1 ELSE 0]
  BY <1>1, <1>2 DEF IInv, PagesTile, Blocks, Smaller
<1>4. window' \in Spans /\ okPages' \in 0..GrowthAfter - 1
  BY <1>1, GrownType DEF IInv
<1>5. covered' \in [Blocks -> 0..2]
  BY <1>3
<1>6. CASE NextCursor > range[2] /\ Stop(range[2])
  <2>1. end = range[2]
    BY <1>2, <1>6 DEF NextCursor
  <2>2. TypeOK'
    BY <1>1, <1>2, <1>4, <1>5, <1>6 DEF IInv, TypeOK, Stop
  <2>3. ReachIsDelivered' /\ PagesTile' /\ PageFits'
    BY <1>1, <1>3, <1>6, <2>1 DEF Stop, ReachIsDelivered, PagesTile, PageFits
  <2>4. QED
    BY <2>2, <2>3 DEF IInv
<1>7. CASE /\ NextCursor <= range[2]
           /\ Ask(NextCursor, Grown[1], range[2])
           /\ UNCHANGED <<pc, reach>>
  <2>1. /\ cursor' = end + 1 /\ end' = Smaller((end + 1) + window' - 1, range[2])
        /\ ep' = 1 /\ attempt' = 1 /\ chosen' = NoFailure /\ shrinks' = 0
    BY <1>1, <1>7 DEF Ask, AskFrom, NextCursor
  <2>2. /\ end' \in Nat /\ cursor' <= end' /\ end' <= range[2]
        /\ end' - cursor' + 1 <= RangePerCall
    <3>1. window' \in Nat \ {0} /\ window' <= RangePerCall
      BY <1>4 DEF Spans
    <3>2. cursor' \in Nat /\ cursor' <= range[2] /\ range[2] \in Nat
      BY <1>2, <1>7, <2>1 DEF NextCursor
    <3>3. end' = Smaller(cursor' + window' - 1, range[2])
      BY <2>1
    <3>4. /\ end' \in Nat /\ cursor' <= end' /\ end' <= range[2]
          /\ end' - cursor' + 1 <= window'
      BY ONLY <3>1, <3>2, <3>3, PageWithin
    <3>5. QED
      BY <2>1, <3>1, <3>2, <3>4
  <2>3. TypeOK'
    <3>1. chosen' \in [kind : Kinds, hint : Nat]
      BY FailureTypes, <2>1 DEF FailureType
    <3>2. ep' \in Endpoints /\ attempt' \in 1..MaxRetries /\ shrinks' \in 0..MaxShrinks
      BY FirstEndpoint, <2>1
    <3>3. cursor' \in Nat /\ range'[1] <= cursor' /\ end' <= range'[2]
      BY <1>1, <1>2, <2>1, <2>2
    <3>4. /\ pc' \in {"idle", "rpc"} /\ reach' \in Int
          /\ silent' \in BOOLEAN /\ clear' \in BOOLEAN
          /\ range' \in Nat \X Nat
      BY <1>1, <1>7 DEF IInv, TypeOK
    <3>5. QED
      BY <1>4, <1>5, <2>2, <3>1, <3>2, <3>3, <3>4 DEF TypeOK
  <2>4. range'[1]..cursor' - 1 = range[1]..end
    BY <1>1, <1>2, <2>1
  <2>5. ReachIsDelivered' /\ PagesTile' /\ PageFits'
    BY <1>1, <1>3, <1>7, <2>2, <2>4 DEF ReachIsDelivered, PagesTile, PageFits, Span
  <2>6. QED
    BY <2>3, <2>5 DEF IInv
<1>8. QED
  BY <1>6, <1>7 DEF Served

LEMMA NoAnswerKeepsIInv ==
  ASSUME IInv, NoAnswer
  PROVE  IInv'
<1>1. pc = "rpc" /\ silent' \in BOOLEAN /\ UNCHANGED <<range, covered, clear>>
  BY DEF NoAnswer
<1>2. CASE /\ attempt < MaxRetries
           /\ attempt' = attempt + 1
           /\ UNCHANGED <<window, okPages, pc, cursor, end, shrinks, ep, chosen, reach>>
  <2>1. TypeOK'
    BY <1>1, <1>2 DEF IInv, TypeOK
  <2>2. ReachIsDelivered' /\ PagesTile' /\ PageFits'
    BY <1>1, <1>2 DEF IInv, ReachIsDelivered, PagesTile, PageFits, Span
  <2>3. QED
    BY <2>1, <2>2 DEF IInv
<1>3. CASE attempt = MaxRetries /\ EndpointFailed(Failure("transport", NoHint))
  BY <1>1, <1>3, FailureTypes, EndpointFailedKeepsIInv
<1>4. QED
  BY <1>2, <1>3 DEF NoAnswer

LEMMA InitIInv == Init => IInv
<1> SUFFICES ASSUME Init PROVE IInv
  OBVIOUS
<1>1. TypeOK
  <2>1. window \in Spans /\ okPages \in 0..GrowthAfter - 1
    BY DEF Init, Spans
  <2>2. range = <<1, 0>> /\ range \in Nat \X Nat
    BY DEF Init
  <2>3. chosen \in [kind : Kinds, hint : Nat]
    BY FailureTypes DEF Init, FailureType
  <2>4. covered \in [Blocks -> 0..2]
    BY DEF Init
  <2>5. shrinks \in 0..MaxShrinks /\ ep \in Endpoints /\ attempt \in 1..MaxRetries
    BY FirstEndpoint DEF Init
  <2>6. cursor \in Nat /\ end \in Nat /\ reach \in Int
    BY DEF Init
  <2>7. silent \in BOOLEAN /\ clear \in BOOLEAN
    BY Zenon DEF Init
  <2>8. pc \in {"idle", "rpc"} /\ pc # "rpc"
    BY DEF Init
  <2>9. QED
    BY <2>1, <2>2, <2>3, <2>4, <2>5, <2>6, <2>7, <2>8 DEF TypeOK
<1>2. range[1]..reach = {}
  BY DEF Init
<1>3. ReachIsDelivered /\ PagesTile /\ PageFits
  BY <1>2 DEF Init, ReachIsDelivered, PagesTile, PageFits
<1>4. QED
  BY <1>1, <1>3 DEF IInv

LEMMA NextKeepsIInv == IInv /\ [Next]_vars => IInv'
<1> SUFFICES ASSUME IInv, [Next]_vars PROVE IInv'
  OBVIOUS
<1>1. CASE StartScan
  BY <1>1, StartScanKeepsIInv
<1>2. CASE Served
  BY <1>2, ServedKeepsIInv
<1>3. CASE NotAList
  BY <1>3, StopKeepsIInv DEF NotAList, IInv, TypeOK
<1>4. CASE Refused
  <2>1. PICK f \in Refusals(ep) : EndpointFailed(f)
    BY <1>4 DEF Refused
  <2>2. f \in FailureType
    BY RefusalType DEF IInv, TypeOK
  <2>3. QED
    BY <1>4, <2>1, <2>2, EndpointFailedKeepsIInv DEF Refused, IInv, TypeOK
<1>5. CASE NoAnswer
  BY <1>5, NoAnswerKeepsIInv
<1>6. CASE ClearUp
  BY <1>6 DEF ClearUp, IInv, TypeOK, ReachIsDelivered, PagesTile, PageFits, Span
<1>7. CASE UNCHANGED vars
  BY <1>7 DEF vars, IInv, TypeOK, ReachIsDelivered, PagesTile, PageFits, Span
<1>8. QED
  BY <1>1, <1>2, <1>3, <1>4, <1>5, <1>6, <1>7 DEF Next

\* The inductive invariant of the pager holds in every reachable state.
THEOREM PagerInvariant == Spec => []IInv
BY InitIInv, NextKeepsIInv, PTL DEF Spec

\* No page lies outside of its scan and no window beyond its bounds.
THEOREM PagerTypes == Spec => []TypeOK
<1>1. IInv => TypeOK
  BY DEF IInv
<1>2. QED
  BY <1>1, PagerInvariant, PTL

\* What _get_logs reports it has delivered: every block up to it exactly once
\* and none behind, for every endpoint, window and refusal.
THEOREM ReportedIsDelivered == Spec => []ReachIsDelivered
<1>1. IInv => ReachIsDelivered
  BY DEF IInv
<1>2. QED
  BY <1>1, PagerInvariant, PTL

-----------------------------------------------------------------------------
(***************************************************************************)
(* The window keeps half of the smallest limit.  IInv /\ HalfInv is        *)
(* inductive: the failure a page ends in narrows it only if the page       *)
(* exceeds the limit of some endpoint, and then half of the page is at     *)
(* least half of that limit.                                               *)
(***************************************************************************)
\* The failures such endpoints produce.
LEMMA RefusalExcessive ==
  ASSUME TypeOK, pc = "rpc", LimitsAreNamed,
         NEW e \in Endpoints, NEW f \in Refusals(e)
  PROVE  Excessive(f)
<1>1. Span \in Int /\ Cap[e] \in Nat
  BY EndpointAssumption DEF TypeOK, Span
<1>2. Style[e] = "capped" \/ Style[e] = "depth"
  BY DEF LimitsAreNamed
<1>3. f = RangeRefusal(Cap[e], Span)
  BY <1>2 DEF Refusals
<1>4. CASE Span <= Cap[e]
  <2>1. f.kind = "rpc" /\ f.hint = NoHint
    BY <1>3, <1>4 DEF RangeRefusal, Failure
  <2>2. QED
    BY <2>1 DEF Excessive, Shrinkable
<1>5. CASE Span > Cap[e]
  <2>1. f.hint = NoHint
    BY <1>1, <1>3, <1>5 DEF RangeRefusal, Failure
  <2>2. QED
    BY <1>5, <2>1 DEF Excessive
<1>6. QED
  BY <1>1, <1>4, <1>5

LEMMA OtherExcessive ==
  /\ Excessive(NoFailure)
  /\ Excessive(Failure("transport", NoHint))
BY DEF NoFailure, Failure, Excessive, NoHint, Shrinkable

\* Half of a page that exceeds a limit is at least half of the limit.
LEMMA NarrowedKeepsHalf ==
  ASSUME TypeOK, pc = "rpc", NEW e \in Endpoints, Span > Cap[e],
         ShrunkEnd(NoHint) \in Nat
  PROVE  2 * (ShrunkEnd(NoHint) - cursor + 1) >= Cap[e]
<1>1. Span \in Nat /\ Cap[e] \in Nat \ {0}
  BY EndpointAssumption DEF TypeOK, Span
<1>2. 2 * (Span \div 2) >= Span - 1 /\ Span \div 2 \in Nat
  BY <1>1
<1>3. ShrunkEnd(NoHint) - cursor + 1 = Larger(1, Span \div 2)
  BY <1>2 DEF ShrunkEnd, Larger, TypeOK
<1>4. QED
  BY <1>1, <1>2, <1>3 DEF Larger

LEMMA EndpointFailedKeepsHalf ==
  ASSUME TypeOK, HalfInv, LimitsAreNamed, pc = "rpc",
         NEW f \in FailureType, Excessive(f), EndpointFailed(f)
  PROVE  HalfInv'
<1> DEFINE raised == Prefer(chosen, f)
<1>1. Excessive(raised) /\ raised \in FailureType
  BY DEF HalfInv, Prefer, TypeOK, FailureType
<1>2. CASE /\ ep < Len(Style)
           /\ ep' = ep + 1 /\ attempt' = 1 /\ chosen' = raised
           /\ UNCHANGED <<window, okPages, pc, cursor, end, shrinks, reach>>
  BY <1>1, <1>2 DEF HalfInv, Excessive, Span
<1>3. CASE ep = Len(Style) /\ PageFailed(raised)
  <2>1. CASE CanShrink(raised)
    <3>1. PICK e \in Endpoints : Span > Cap[e]
      BY <1>1, <2>1 DEF CanShrink, Excessive
    <3>2. raised.hint = NoHint
      BY <1>1 DEF Excessive
    <3>3. ShrunkEnd(NoHint) \in Nat
      BY <2>1, ShrunkEndShorter DEF CanShrink, NoHint
    <3>4. window' = ShrunkEnd(NoHint) - cursor + 1 /\ chosen' = NoFailure
      BY <1>3, <2>1, <3>2 DEF PageFailed
    <3>5. 2 * window' >= Cap[e]
      BY <3>1, <3>3, <3>4, NarrowedKeepsHalf
    <3>6. Excessive(chosen)'
      BY <3>4 DEF Excessive, NoFailure, Failure, NoHint, Shrinkable
    <3>7. QED
      BY <3>5, <3>6 DEF HalfInv
  <2>2. CASE ~CanShrink(raised)
    BY <1>3, <2>2 DEF PageFailed, Stop, HalfInv
  <2>3. QED
    BY <2>1, <2>2
<1>4. QED
  BY <1>2, <1>3 DEF EndpointFailed

LEMMA InitHalfInv == Init => HalfInv
<1> SUFFICES ASSUME Init, LimitsAreNamed
             PROVE  \E e \in Endpoints : 2 * window >= Cap[e]
  BY DEF HalfInv, Init
<1>1. 2 * window >= Cap[1]
  BY FirstEndpoint, EndpointAssumption DEF Init, LimitsAreNamed
<1>2. QED
  BY <1>1, FirstEndpoint

LEMMA NextKeepsHalfInv == IInv /\ HalfInv /\ [Next]_vars => HalfInv'
<1> SUFFICES ASSUME IInv, HalfInv, [Next]_vars, LimitsAreNamed PROVE HalfInv'
  BY DEF HalfInv, LimitsAreNamed
<1>0. TypeOK /\ \E e \in Endpoints : 2 * window >= Cap[e]
  BY DEF IInv, HalfInv
<1>1. CASE StartScan
  <2>1. window' = window /\ (pc' = "rpc" => chosen' = NoFailure)
    BY <1>1 DEF StartScan, Ask, AskFrom, Stop
  <2>2. Excessive(NoFailure)'
    BY DEF NoFailure, Failure, Excessive, NoHint, Shrinkable
  <2>3. QED
    BY <1>0, <2>1, <2>2 DEF HalfInv, Excessive
<1>2. CASE Served
  <2>1. window' >= window /\ window' \in Spans
    BY <1>0, <1>2, GrownType DEF Served
  <2>2. pc' = "rpc" => chosen' = NoFailure
    BY <1>2 DEF Served, Ask, AskFrom, Stop
  <2>3. Excessive(NoFailure)'
    BY DEF NoFailure, Failure, Excessive, NoHint, Shrinkable
  <2>4. \E e \in Endpoints : 2 * window' >= Cap[e]
    BY <1>0, <2>1, EndpointAssumption DEF TypeOK, Spans
  <2>5. QED
    BY <2>2, <2>3, <2>4 DEF HalfInv, Excessive
<1>3. CASE NotAList
  BY <1>3 DEF NotAList, Stop, HalfInv
<1>4. CASE Refused
  <2>1. PICK f \in Refusals(ep) : EndpointFailed(f)
    BY <1>4 DEF Refused
  <2>2. f \in FailureType /\ Excessive(f)
    BY <1>0, <1>4, RefusalType, RefusalExcessive DEF TypeOK, Refused
  <2>3. QED
    BY <1>0, <1>4, <2>1, <2>2, EndpointFailedKeepsHalf DEF Refused
<1>5. CASE NoAnswer
  <2>1. CASE EndpointFailed(Failure("transport", NoHint))
    BY <1>0, <1>5, <2>1, FailureTypes, OtherExcessive, EndpointFailedKeepsHalf
    DEF NoAnswer
  <2>2. CASE UNCHANGED <<window, okPages, pc, cursor, end, shrinks, ep, chosen, reach>>
    BY <2>2 DEF HalfInv, Excessive, Span
  <2>3. QED
    BY <1>5, <2>1, <2>2 DEF NoAnswer
<1>6. CASE ClearUp
  BY <1>6 DEF ClearUp, HalfInv, Excessive, Span
<1>7. CASE UNCHANGED vars
  BY <1>7 DEF vars, HalfInv, Excessive, Span
<1>8. QED
  BY <1>1, <1>2, <1>3, <1>4, <1>5, <1>6, <1>7 DEF Next

\* What the window keeps, and why: a page is narrowed only for a failure of an
\* endpoint whose limit it exceeds.
THEOREM HalfIsKept == Spec => []HalfInv
BY InitHalfInv, NextKeepsHalfInv, PagerInvariant, PTL DEF Spec

\* However often endpoints with a limit refuse and are out of reach, also one
\* that answers every page with those words, the window never falls below
\* half of the smallest limit named.
THEOREM WindowNeverCollapses == Spec => []WindowKeepsHalf
<1>1. HalfInv => WindowKeepsHalf
  BY DEF HalfInv, WindowKeepsHalf
<1>2. QED
  BY <1>1, HalfIsKept, PTL

-----------------------------------------------------------------------------
(***************************************************************************)
(* Limits alone stop no scan.  IInv /\ HalfInv /\ NarrowInv is inductive:  *)
(* where the last endpoint has refused a page, the sufficing endpoint has  *)
(* been passed, so the page is above its limit and hence not yet shrunk as *)
(* often as allowed, and the failure raised is one that narrows it.        *)
(***************************************************************************)
LEMMA HalvingType ==
  ASSUME NEW w \in Halvings, NEW n \in 0..MaxShrinks
  PROVE  w[n] \in Nat
BY DEF Halvings

\* The parts of NarrowInv, for one endpoint and one table.
Narrow(e, w) ==
  /\ pc = "idle" => reach = range[2]
  /\ pc = "rpc" =>
       /\ Span <= Larger(1, w[shrinks])
       /\ e < ep => Span > Cap[e] /\ chosen.kind \in Shrinkable

\* The first page of a range is no wider than the full width.
LEMMA AskKeepsNarrow ==
  ASSUME TypeOK, NEW first \in Nat, NEW width \in Spans, NEW last \in Nat,
         first <= last, Ask(first, width, last), pc' = "rpc",
         NEW e \in Endpoints, NEW w \in Halvings
  PROVE  Narrow(e, w)'
<1>1. /\ cursor' = first /\ end' = Smaller(first + width - 1, last)
      /\ shrinks' = 0 /\ ep' = 1
  BY DEF Ask, AskFrom
<1>2. width \in Nat \ {0} /\ width <= RangePerCall
  BY DEF Spans
<1>3. end' - cursor' + 1 <= RangePerCall
  <2>1. Smaller(first + width - 1, last) - first + 1 <= width
    BY ONLY first \in Nat, last \in Nat, first <= last, <1>2, PageWithin
  <2>2. first + width - 1 \in Int /\ Smaller(first + width - 1, last) \in Int
    BY <1>2 DEF Smaller
  <2>3. QED
    BY <1>1, <1>2, <2>1, <2>2
<1>4. w[0] = RangePerCall
  BY DEF Halvings
<1>5. Larger(1, w[shrinks']) = RangePerCall
  BY <1>1, <1>4 DEF Larger
<1>6. ~(e < ep')
  BY <1>1 DEF Endpoints
<1>7. Span' <= Larger(1, w[shrinks'])
  BY <1>3, <1>5 DEF Span
<1>8. pc' # "idle"
  OBVIOUS
<1>9. QED
  BY <1>6, <1>7, <1>8 DEF Narrow, Larger

\* What the sufficing endpoint itself answers: it refuses nothing but a page
\* above its limit, with a failure that narrows.
LEMMA RefusalOfSufficing ==
  ASSUME TypeOK, pc = "rpc", NEW e \in Endpoints, Style[e] = "capped",
         NEW f \in Refusals(e)
  PROVE  Span > Cap[e] /\ f.kind \in Shrinkable
<1>1. Span \in Int /\ Cap[e] \in Nat
  BY EndpointAssumption DEF TypeOK, Span
<1>2. Refusals(e) = IF Span <= Cap[e] THEN {} ELSE {RangeRefusal(Cap[e], Span)}
  BY DEF Refusals
<1>3. Span > Cap[e] /\ f = RangeRefusal(Cap[e], Span)
  BY <1>1, <1>2
<1>4. f.kind = "range_cap"
  BY <1>1, <1>3 DEF RangeRefusal, Failure
<1>5. QED
  BY <1>3, <1>4 DEF Shrinkable

\* A refusal narrows the page or goes on to the next endpoint; it ends no scan.
LEMMA RefusalKeepsNarrow ==
  ASSUME IInv, HalfInv, LimitsAreNamed, pc = "rpc",
         NEW f \in Refusals(ep), EndpointFailed(f),
         NEW e \in Endpoints, NEW w \in Halvings, Sufficing(e, w), Narrow(e, w)
  PROVE  Narrow(e, w)'
<1> DEFINE raised == Prefer(chosen, f)
<1>1. TypeOK /\ ep \in Endpoints /\ Cap[e] \in Nat \ {0} /\ e \in Nat /\ ep \in Nat
  BY EndpointAssumption DEF IInv, TypeOK, Endpoints
<1>2. Style[e] = "capped" /\ w[MaxShrinks] <= Cap[e]
  BY DEF Sufficing
<1>3. e <= ep => Span > Cap[e] /\ raised.kind \in Shrinkable
  <2>1. CASE e < ep
    BY <2>1 DEF Narrow, Prefer
  <2>2. CASE e = ep
    <3>1. Span > Cap[e] /\ f.kind \in Shrinkable
      BY <1>1, <1>2, <2>2, RefusalOfSufficing
    <3>2. QED
      BY <3>1 DEF Prefer
  <2>3. QED
    BY <1>1, <2>1, <2>2
<1>4. CASE /\ ep < Len(Style)
           /\ ep' = ep + 1 /\ attempt' = 1 /\ chosen' = raised
           /\ UNCHANGED <<window, okPages, pc, cursor, end, shrinks, reach>>
  <2>1. e < ep' => Span' > Cap[e] /\ chosen'.kind \in Shrinkable
    BY <1>1, <1>3, <1>4 DEF Span
  <2>2. Span' <= Larger(1, w[shrinks']) /\ pc' # "idle"
    BY <1>4 DEF Span, Narrow
  <2>3. QED
    BY <2>1, <2>2 DEF Narrow, Larger
<1>5. CASE ep = Len(Style) /\ PageFailed(raised)
  <2>1. Span > Cap[e] /\ raised.kind \in Shrinkable
    BY <1>3, <1>5 DEF Endpoints
  <2>2. /\ shrinks \in 0..MaxShrinks /\ w[shrinks] \in Nat
        /\ Span \in Nat /\ cursor \in Nat /\ end \in Nat
    BY <1>1, HalvingType DEF TypeOK, Span
  <2>3. Span <= w[shrinks] /\ Span >= 2
    BY <1>1, <2>1, <2>2 DEF Narrow, Larger
  <2>4. shrinks < MaxShrinks
    BY <1>1, <1>2, <2>1, <2>2, <2>3
  <2>5. CanShrink(raised)
    BY <2>1, <2>2, <2>3, <2>4 DEF CanShrink, Span
  <2>6. raised.hint = NoHint
    <3>1. Excessive(chosen)
      BY DEF HalfInv
    <3>2. Excessive(f)
      BY <1>1, RefusalExcessive
    <3>3. QED
      BY <3>1, <3>2 DEF Excessive, Prefer
  <2>7. /\ end' = ShrunkEnd(NoHint) /\ shrinks' = shrinks + 1 /\ ep' = 1
        /\ UNCHANGED <<pc, cursor>>
    BY <1>5, <2>5, <2>6 DEF PageFailed
  <2>8. Span \div 2 \in Nat \ {0} /\ Span \div 2 <= w[shrinks] \div 2
    BY <2>2, <2>3
  <2>9. end' - cursor' + 1 = Span \div 2
    BY <2>2, <2>7, <2>8 DEF ShrunkEnd, Larger
  <2>10. w[shrinks'] = w[shrinks] \div 2
    <3>1. /\ shrinks + 1 \in 1..MaxShrinks
          /\ \A n \in 1..MaxShrinks : w[n] = w[n - 1] \div 2
      BY <2>2, <2>4 DEF Halvings
    <3>2. w[shrinks + 1] = w[(shrinks + 1) - 1] \div 2
      BY <3>1
    <3>3. QED
      BY <2>2, <2>7, <3>2
  <2>11. Span' <= Larger(1, w[shrinks'])
    BY <2>2, <2>8, <2>9, <2>10 DEF Larger, Span
  <2>12. ~(e < ep') /\ pc' # "idle"
    BY <2>7 DEF Endpoints
  <2>13. QED
    BY <2>11, <2>12 DEF Narrow, Larger
<1>6. QED
  BY <1>4, <1>5 DEF EndpointFailed

LEMMA InitNarrowInv == Init => NarrowInv
<1> SUFFICES ASSUME Init PROVE NarrowInv
  OBVIOUS
<1>1. pc = "idle" /\ reach = 0 /\ range[2] = 0
  BY DEF Init
<1>2. QED
  BY <1>1 DEF NarrowInv

LEMMA NextKeepsNarrowInv ==
  IInv /\ HalfInv /\ NarrowInv /\ [Next]_vars => NarrowInv'
<1> SUFFICES ASSUME IInv, HalfInv, NarrowInv, [Next]_vars, LimitsAreNamed, ~silent',
                    NEW e \in Endpoints, NEW w \in Halvings, Sufficing(e, w)
             PROVE  Narrow(e, w)'
  BY DEF NarrowInv, LimitsAreNamed, Sufficing, Halvings, Narrow, Endpoints
<1>0. /\ TypeOK
      /\ ~silent => Narrow(e, w)
  BY DEF IInv, NarrowInv, Narrow
<1>1. CASE StartScan
  <2>1. PICK from \in Blocks, to \in Blocks :
          /\ range' = <<from, to>>
          /\ \/ /\ from > to
                /\ Stop(to)
             \/ /\ from <= to
                /\ pc' = "rpc" /\ Ask(from, window, to)
                /\ UNCHANGED reach
    BY <1>1 DEF StartScan
  <2>2. CASE from > to /\ Stop(to)
    BY <2>1, <2>2 DEF Stop, Narrow
  <2>3. CASE from <= to /\ pc' = "rpc" /\ Ask(from, window, to)
    BY <1>0, <2>3, AskKeepsNarrow DEF TypeOK, Blocks
  <2>4. QED
    BY <2>1, <2>2, <2>3
<1>2. CASE Served
  <2>1. CASE NextCursor > range[2] /\ Stop(range[2])
    BY <1>2, <2>1 DEF Served, Stop, Narrow
  <2>2. CASE /\ NextCursor <= range[2] /\ Ask(NextCursor, Grown[1], range[2])
             /\ UNCHANGED <<pc, reach>>
    <3>1. NextCursor \in Nat /\ range[2] \in Nat /\ Grown[1] \in Spans /\ pc' = "rpc"
      BY <1>0, <1>2, <2>2, GrownType DEF TypeOK, NextCursor, Served
    <3>2. QED
      BY <1>0, <2>2, <3>1, AskKeepsNarrow
  <2>3. QED
    BY <1>2, <2>1, <2>2 DEF Served
<1>3. CASE NotAList
  BY <1>0, <1>3 DEF NotAList, LimitsAreNamed, TypeOK
<1>4. CASE Refused
  <2>1. PICK f \in Refusals(ep) : EndpointFailed(f)
    BY <1>4 DEF Refused
  <2>2. pc = "rpc" /\ Narrow(e, w)
    BY <1>0, <1>4 DEF Refused
  <2>3. QED
    BY <2>1, <2>2, RefusalKeepsNarrow
<1>5. CASE NoAnswer
  BY <1>5 DEF NoAnswer
<1>6. CASE ClearUp
  BY <1>0, <1>6 DEF ClearUp, Narrow, Span, Larger
<1>7. CASE UNCHANGED vars
  BY <1>0, <1>7 DEF vars, Narrow, Span, Larger
<1>8. QED
  BY <1>1, <1>2, <1>3, <1>4, <1>5, <1>6, <1>7 DEF Next

\* How narrow a page gets, and which failure it is left with.
THEOREM ScansNarrow == Spec => []NarrowInv
BY InitNarrowInv, NextKeepsNarrowInv, PagerInvariant, HalfIsKept, PTL DEF Spec

\* Where endpoints only limit the span of a page, and halving the widest page
\* as often as allowed gets below the limit of one that serves, a scan stops
\* short only after an endpoint did not answer it: for every order of the
\* endpoints, whatever the others refuse and whatever window is left over.
THEOREM LimitsStopNoScan == Spec => []LimitsNeverStop
<1>1. NarrowInv => LimitsNeverStop
  BY DEF NarrowInv, LimitsNeverStop, ShrinksSuffice
<1>2. QED
  BY <1>1, ScansNarrow, PTL

-----------------------------------------------------------------------------
(***************************************************************************)
(* To its caller a scan is one question and one report.                    *)
(***************************************************************************)
\* How a failure of an endpoint leaves the scan: with the page, a narrower one,
\* the next endpoint, or a report in front of the page.
LEMMA FailedOutcome ==
  ASSUME IInv, pc = "rpc", NEW f \in FailureType, EndpointFailed(f)
  PROVE  \/ /\ UNCHANGED <<pc, reach, cursor, shrinks>>
            /\ ep < Len(Style) /\ ep' = ep + 1 /\ attempt' = 1
         \/ /\ UNCHANGED <<pc, reach, cursor>>
            /\ shrinks < MaxShrinks /\ shrinks' = shrinks + 1
            /\ ep' = 1 /\ attempt' = 1
         \/ Stop(cursor - 1)
BY DEF EndpointFailed, PageFailed, CanShrink

\* A step of a scan keeps its range, and either goes on or reports a block of it.
LEMMA StepInScan ==
  ASSUME IInv, pc = "rpc", [Next]_vars
  PROVE  /\ range' = range
         /\ \/ pc' = "rpc" /\ reach' = reach
            \/ pc' = "idle" /\ reach' \in (range[1] - 1)..range[2]
<1>0. /\ range[1] \in Nat /\ range[2] \in Nat /\ cursor \in Nat /\ end \in Nat
      /\ range[1] <= cursor /\ cursor <= end /\ end <= range[2] /\ ep \in Endpoints
  BY DEF IInv, TypeOK
<1>1. ASSUME Stop(cursor - 1)
      PROVE  pc' = "idle" /\ reach' \in (range[1] - 1)..range[2]
  BY <1>0, <1>1 DEF Stop
<1>2. CASE Served
  <2>1. CASE Stop(range[2])
    BY <1>0, <1>2, <2>1 DEF Served, Stop
  <2>2. CASE UNCHANGED <<pc, reach>>
    BY <1>2, <2>2 DEF Served
  <2>3. QED
    BY <1>2, <2>1, <2>2 DEF Served
<1>3. CASE NotAList
  BY <1>1, <1>3 DEF NotAList
<1>4. CASE Refused
  <2>1. PICK f \in Refusals(ep) : EndpointFailed(f)
    BY <1>4 DEF Refused
  <2>2. f \in FailureType
    BY <1>0, RefusalType
  <2>3. QED
    BY <1>1, <1>4, <2>1, <2>2, FailedOutcome DEF Refused
<1>5. CASE NoAnswer
  <2>1. CASE UNCHANGED <<pc, reach>>
    BY <1>5, <2>1 DEF NoAnswer
  <2>2. CASE EndpointFailed(Failure("transport", NoHint))
    BY <1>1, <1>5, <2>2, FailedOutcome, FailureTypes DEF NoAnswer
  <2>3. QED
    BY <1>5, <2>1, <2>2 DEF NoAnswer
<1>6. CASE ClearUp \/ UNCHANGED vars
  BY <1>6 DEF ClearUp, vars
<1>7. QED
  BY <1>2, <1>3, <1>4, <1>5, <1>6 DEF Next, StartScan

\* What the caller sees as delivered while the scan is under way, and after.
LEMMA DeliveredIs ==
  ASSUME IInv
  PROVE  /\ pc = "rpc" => [b \in Blocks |-> IF pc = "idle" THEN covered[b] ELSE 0] = Scans!Nothing
         /\ pc = "idle" =>
              [b \in Blocks |-> IF pc = "idle" THEN covered[b] ELSE 0]
                = [b \in Blocks |-> IF b \in range[1]..reach THEN 1 ELSE 0]
BY DEF IInv, ReachIsDelivered, Scans!Nothing

LEMMA DeliveredWillBe ==
  IInv' =>
    /\ pc' = "rpc" => [b \in Blocks |-> IF pc' = "idle" THEN covered'[b] ELSE 0] = Scans!Nothing
    /\ pc' = "idle" =>
         [b \in Blocks |-> IF pc' = "idle" THEN covered'[b] ELSE 0]
           = [b \in Blocks |-> IF b \in range'[1]..reach' THEN 1 ELSE 0]
BY DEF IInv, ReachIsDelivered, Scans!Nothing

LEMMA ScanStep ==
  ASSUME IInv, IInv', [Next]_vars
  PROVE  [Scans!Next]_(Scans!vars)
<1>0. pc \in {"idle", "rpc"}
  BY DEF IInv, TypeOK
<1>1. CASE StartScan
  <2>1. PICK from \in Blocks, to \in Blocks :
          /\ from <= to + 1
          /\ range' = <<from, to>>
          /\ \/ /\ from > to
                /\ Stop(to)
             \/ /\ from <= to
                /\ pc' = "rpc" /\ Ask(from, window, to)
                /\ UNCHANGED reach
    BY <1>1 DEF StartScan
  <2>2. CASE from > to /\ Stop(to)
    <3>1. from = to + 1 /\ pc = "idle" /\ pc' = "idle" /\ reach' = to
      BY <1>1, <2>1, <2>2 DEF StartScan, Stop, Blocks
    <3>2. covered' = [b \in Blocks |-> 0]
      BY <1>1 DEF StartScan
    <3>3. QED
      BY <2>1, <3>1, <3>2 DEF Scans!AskForNone, Scans!Next, Scans!Nothing
  <2>3. CASE from <= to /\ pc' = "rpc" /\ UNCHANGED reach
    <3>1. pc = "idle" /\ pc' = "rpc" /\ reach' = reach
      BY <1>1, <2>3 DEF StartScan
    <3>2. QED
      BY <2>1, <2>3, <3>1, DeliveredWillBe DEF Scans!Ask, Scans!Next
  <2>4. QED
    BY <2>1, <2>2, <2>3
<1>2. CASE pc = "rpc"
  <2>1. CASE pc' = "rpc" /\ reach' = reach
    <3>1. range' = range
      BY <1>2, StepInScan
    <3>2. QED
      BY <1>2, <2>1, <3>1, DeliveredIs, DeliveredWillBe DEF Scans!vars
  <2>2. CASE pc' = "idle" /\ reach' \in (range[1] - 1)..range[2]
    <3>1. range' = range
      BY <1>2, StepInScan
    <3>2. QED
      BY <1>2, <2>2, <3>1, DeliveredWillBe DEF Scans!Report, Scans!Next, Scans!UpTo
  <2>3. QED
    BY <1>2, <2>1, <2>2, StepInScan
<1>3. CASE pc = "idle" /\ ~StartScan
  <2>1. UNCHANGED <<pc, range, reach, covered>>
    BY <1>3 DEF Next, Served, NotAList, Refused, NoAnswer, ClearUp, vars
  <2>2. QED
    BY <2>1 DEF Scans!vars
<1>4. QED
  BY <1>0, <1>1, <1>2, <1>3

\* The pager implements RangeScan: whatever its endpoints answer, a scan is one
\* question and one report of how far it has delivered, every block once.  It is
\* what the cycle of the manager takes a scan to be (Scan of TalismansCycle).
THEOREM PagerIsAScan == Spec => IsAScan
<1>1. Init => Scans!Init
  BY DEF Init, Scans!Init, Scans!Nothing
<1>2. IInv /\ IInv' /\ [Next]_vars => [Scans!Next]_(Scans!vars)
  BY ScanStep
<1>3. QED
  BY <1>1, <1>2, PagerInvariant, PTL DEF Spec, IsAScan, Scans!Spec

-----------------------------------------------------------------------------
(***************************************************************************)
(* A scan makes no more requests than its range, the shrinks, endpoints    *)
(* and attempts allow.                                                     *)
(***************************************************************************)
\* What counts first decides, whatever the digit behind it.
LEMMA FirstDigit ==
  ASSUME NEW k \in Nat, NEW a \in Nat, NEW b \in Nat, a < b,
         NEW r \in Nat, NEW s \in Nat, r < k
  PROVE  a * k + r < b * k + s
<1>1. PICK d \in Nat : b = a + 1 + d
  <2>1. b - a - 1 \in Nat /\ b = a + 1 + (b - a - 1)
    OBVIOUS
  <2>2. QED
    BY <2>1
<1>2. b * k = a * k + k + d * k /\ d * k \in Nat /\ a * k \in Nat
  BY <1>1
<1>3. QED
  BY <1>2

LEMMA DigitsAreNat ==
  ASSUME NEW k \in Nat, NEW a \in Nat, NEW r \in Nat
  PROVE  a * k + r \in Nat
OBVIOUS

\* Every answer that does not end the scan moves it on.
LEMMA AnswerMovesOn ==
  ASSUME IInv, pc = "rpc", pc' = "rpc", Next, clear' = clear
  PROVE  /\ range' = range
         /\ \/ cursor' > cursor
            \/ cursor' = cursor /\ shrinks' > shrinks
            \/ cursor' = cursor /\ shrinks' = shrinks /\ ep' > ep
            \/ cursor' = cursor /\ shrinks' = shrinks /\ ep' = ep /\ attempt' > attempt
<1>0. /\ cursor \in Nat /\ end \in Nat /\ cursor <= end /\ ep \in Endpoints
      /\ shrinks \in Nat /\ attempt \in Nat
  BY DEF IInv, TypeOK
<1>1. range' = range
  BY StepInScan
<1>2. ASSUME NEW f \in FailureType, EndpointFailed(f)
      PROVE  \/ cursor' = cursor /\ shrinks' > shrinks
             \/ cursor' = cursor /\ shrinks' = shrinks /\ ep' > ep
  BY <1>0, <1>2, FailedOutcome DEF Endpoints, Stop
<1>3. CASE Served
  BY <1>0, <1>3 DEF Served, Stop, Ask, AskFrom, NextCursor
<1>4. CASE Refused
  <2>1. PICK f \in Refusals(ep) : EndpointFailed(f)
    BY <1>4 DEF Refused
  <2>2. QED
    BY <1>0, <1>1, <1>2, <2>1, RefusalType
<1>5. CASE NoAnswer
  BY <1>0, <1>1, <1>2, <1>5, FailureTypes DEF NoAnswer
<1>6. ~StartScan /\ ~NotAList /\ ~ClearUp
  BY DEF StartScan, NotAList, Stop, ClearUp, IInv, TypeOK
<1>7. QED
  BY <1>1, <1>3, <1>4, <1>5, <1>6 DEF Next

\* Digit by digit: where the first difference is a fall, the number falls.
LEMMA NumberFalls ==
  ASSUME NEW S \in Nat, NEW E \in Nat, NEW M \in Nat,
         NEW b \in Nat, NEW s \in Nat, NEW e \in Nat, NEW t \in Nat,
         NEW b1 \in Nat, NEW s1 \in Nat, NEW e1 \in Nat, NEW t1 \in Nat,
         s1 < S, e1 < E, t1 < M,
         \/ b1 < b
         \/ b1 = b /\ s1 < s
         \/ b1 = b /\ s1 = s /\ e1 < e
         \/ b1 = b /\ s1 = s /\ e1 = e /\ t1 < t
  PROVE  /\ ((b1 * S + s1) * E + e1) * M + t1 \in Nat
         /\ ((b1 * S + s1) * E + e1) * M + t1 < ((b * S + s) * E + e) * M + t
<1> DEFINE x == b * S + s
           y == b1 * S + s1
<1>1. x \in Nat /\ y \in Nat
  BY DigitsAreNat
<1>2. y < x \/ y = x
  <2>1. CASE b1 < b
    BY <2>1, FirstDigit
  <2>2. CASE b1 = b
    <3>1. b * S \in Nat
      OBVIOUS
    <3>2. QED
      BY <2>2, <3>1
  <2>3. QED
    BY <2>1, <2>2
<1>3. y = x => (e1 < e \/ (e1 = e /\ t1 < t))
  <2>1. b1 < b => y < x
    BY FirstDigit
  <2>2. b1 = b /\ s1 < s => y < x
    <3>1. b * S \in Nat
      OBVIOUS
    <3>2. QED
      BY <3>1
  <2>3. QED
    BY <1>1, <2>1, <2>2
<1> HIDE DEF x, y
<1> DEFINE v == x * E + e
           w == y * E + e1
<1>4. v \in Nat /\ w \in Nat
  BY <1>1, DigitsAreNat
<1>5. w < v \/ (w = v /\ t1 < t)
  <2>1. CASE y < x
    BY <1>1, <2>1, FirstDigit
  <2>2. CASE y = x
    <3>1. x * E \in Nat
      BY <1>1
    <3>2. QED
      BY <1>3, <2>2, <3>1
  <2>3. QED
    BY <1>2, <2>1, <2>2
<1> HIDE DEF v, w
<1>6. w * M + t1 \in Nat
  BY <1>4, DigitsAreNat
<1>7. w * M + t1 < v * M + t
  <2>1. CASE w < v
    BY <1>4, <2>1, FirstDigit
  <2>2. CASE w = v /\ t1 < t
    <3>1. v * M \in Nat
      BY <1>4
    <3>2. QED
      BY <2>2, <3>1
  <2>3. QED
    BY <1>5, <2>1, <2>2
<1>8. QED
  BY <1>6, <1>7 DEF v, w, x, y

\* What is left falls where what is used grows.
LEMMA LeftFalls ==
  ASSUME NEW n \in Nat, NEW x \in Nat, NEW y \in Nat, x <= n, y <= n
  PROVE  /\ n - x \in Nat /\ n - y \in Nat
         /\ y > x => n - y < n - x
         /\ 1 <= y => n - y < n
         /\ n - y < n + 1
OBVIOUS

LEMMA FewerAreLeft ==
  ASSUME IInv, IInv', pc = "rpc", pc' = "rpc", Next, clear' = clear
  PROVE  RequestsLeft' \in Nat /\ RequestsLeft' < RequestsLeft
<1> DEFINE last == range[2]
           eps == Len(Style)
<1>0. eps \in Nat /\ MaxShrinks \in Nat /\ MaxRetries \in Nat
  BY EndpointAssumption, PagingAssumption
<1>1. /\ last \in Nat /\ cursor \in Nat /\ cursor <= last
      /\ shrinks \in Nat /\ shrinks <= MaxShrinks
      /\ ep \in Nat /\ 1 <= ep /\ ep <= eps
      /\ attempt \in Nat /\ 1 <= attempt /\ attempt <= MaxRetries
  <2>1. /\ range[2] \in Nat /\ cursor \in Nat /\ cursor <= range[2]
        /\ shrinks \in 0..MaxShrinks /\ ep \in Endpoints /\ attempt \in 1..MaxRetries
    BY DEF IInv, TypeOK
  <2>2. QED
    BY <1>0, <2>1 DEF Endpoints
<1>2. range' = range
  BY AnswerMovesOn
<1>3. /\ cursor' \in Nat /\ cursor' <= last
      /\ shrinks' \in Nat /\ shrinks' <= MaxShrinks
      /\ ep' \in Nat /\ 1 <= ep' /\ ep' <= eps
      /\ attempt' \in Nat /\ 1 <= attempt' /\ attempt' <= MaxRetries
  <2>1. /\ range'[2] \in Nat /\ cursor' \in Nat /\ cursor' <= range'[2]
        /\ shrinks' \in 0..MaxShrinks /\ ep' \in Endpoints /\ attempt' \in 1..MaxRetries
    BY DEF IInv, TypeOK
  <2>2. QED
    BY <1>0, <1>2, <2>1 DEF Endpoints
<1>4. MaxShrinks + 1 \in Nat
  BY <1>0
<1>5. \/ cursor' > cursor
      \/ cursor' = cursor /\ shrinks' > shrinks
      \/ cursor' = cursor /\ shrinks' = shrinks /\ ep' > ep
      \/ cursor' = cursor /\ shrinks' = shrinks /\ ep' = ep /\ attempt' > attempt
  BY AnswerMovesOn
<1>6. /\ RequestsLeft = (((last - cursor) * (MaxShrinks + 1) + (MaxShrinks - shrinks)) * eps
                           + (eps - ep)) * MaxRetries + (MaxRetries - attempt)
      /\ RequestsLeft' = (((last - cursor') * (MaxShrinks + 1) + (MaxShrinks - shrinks')) * eps
                            + (eps - ep')) * MaxRetries + (MaxRetries - attempt')
  BY <1>2 DEF RequestsLeft
<1> HIDE DEF last, eps
<1>7. /\ last - cursor \in Nat /\ last - cursor' \in Nat
      /\ cursor' > cursor => last - cursor' < last - cursor
  BY <1>1, <1>3, LeftFalls
<1>8. /\ MaxShrinks - shrinks \in Nat /\ MaxShrinks - shrinks' \in Nat
      /\ shrinks' > shrinks => MaxShrinks - shrinks' < MaxShrinks - shrinks
      /\ MaxShrinks - shrinks' < MaxShrinks + 1
  BY <1>0, <1>1, <1>3, LeftFalls
<1>9. /\ eps - ep \in Nat /\ eps - ep' \in Nat
      /\ ep' > ep => eps - ep' < eps - ep
      /\ eps - ep' < eps
  BY <1>0, <1>1, <1>3, LeftFalls
<1>10. /\ MaxRetries - attempt \in Nat /\ MaxRetries - attempt' \in Nat
       /\ attempt' > attempt => MaxRetries - attempt' < MaxRetries - attempt
       /\ MaxRetries - attempt' < MaxRetries
  BY <1>0, <1>1, <1>3, LeftFalls
<1>11. \/ last - cursor' < last - cursor
       \/ /\ last - cursor' = last - cursor
          /\ MaxShrinks - shrinks' < MaxShrinks - shrinks
       \/ /\ last - cursor' = last - cursor
          /\ MaxShrinks - shrinks' = MaxShrinks - shrinks
          /\ eps - ep' < eps - ep
       \/ /\ last - cursor' = last - cursor
          /\ MaxShrinks - shrinks' = MaxShrinks - shrinks
          /\ eps - ep' = eps - ep
          /\ MaxRetries - attempt' < MaxRetries - attempt
  BY ONLY <1>5, <1>7, <1>8, <1>9, <1>10
<1> DEFINE b == last - cursor
           s == MaxShrinks - shrinks
           e == eps - ep
           t == MaxRetries - attempt
           b1 == last - cursor'
           s1 == MaxShrinks - shrinks'
           e1 == eps - ep'
           t1 == MaxRetries - attempt'
<1>12. /\ b \in Nat /\ s \in Nat /\ e \in Nat /\ t \in Nat
       /\ b1 \in Nat /\ s1 \in Nat /\ e1 \in Nat /\ t1 \in Nat
       /\ s1 < MaxShrinks + 1 /\ e1 < eps /\ t1 < MaxRetries
  BY <1>7, <1>8, <1>9, <1>10
<1>13. \/ b1 < b
       \/ b1 = b /\ s1 < s
       \/ b1 = b /\ s1 = s /\ e1 < e
       \/ b1 = b /\ s1 = s /\ e1 = e /\ t1 < t
  BY <1>11
<1>14. /\ RequestsLeft = ((b * (MaxShrinks + 1) + s) * eps + e) * MaxRetries + t
       /\ RequestsLeft' = ((b1 * (MaxShrinks + 1) + s1) * eps + e1) * MaxRetries + t1
  BY <1>6
<1> HIDE DEF b, s, e, t, b1, s1, e1, t1
<1>15. /\ ((b1 * (MaxShrinks + 1) + s1) * eps + e1) * MaxRetries + t1 \in Nat
       /\ ((b1 * (MaxShrinks + 1) + s1) * eps + e1) * MaxRetries + t1
            < ((b * (MaxShrinks + 1) + s) * eps + e) * MaxRetries + t
  BY ONLY <1>0, <1>4, <1>12, <1>13, NumberFalls
<1>16. QED
  BY ONLY <1>14, <1>15

\* After every answer that does not end a scan fewer requests are left to it, for
\* every set of endpoints and whatever they answer.
THEOREM ScansAreBounded == Spec => EveryAnswerCounts
<1>1. IInv /\ IInv' /\ [Next]_vars =>
        [pc = "rpc" /\ pc' = "rpc" /\ UNCHANGED clear
           => RequestsLeft' \in Nat /\ RequestsLeft' < RequestsLeft]_vars
  BY FewerAreLeft
<1>2. QED
  BY <1>1, PagerInvariant, PTL DEF Spec, EveryAnswerCounts

-----------------------------------------------------------------------------
(***************************************************************************)
(* The file a start reads.                                                 *)
(***************************************************************************)
\* What is filled up to n has n blocks.
LEMMA FilledLen ==
  ASSUME NEW n \in Nat, NEW t
  PROVE  Len([i \in 1..n |-> t[i]]) = n
PROOF
  <1>1. [i \in 1..n |-> t[i]] \in Seq({t[i] : i \in 1..n})
    OBVIOUS
  <1> QED BY <1>1

\* A text has its length, and says which state it is of.
LEMMA TextIs ==
  ASSUME NEW g, NEW t \in Texts(g)
  PROVE  Len(t) \in Nat \ {0} /\ t = Filled(t, Len(t)) /\ t[1][1] = g
PROOF
  <1>1. PICK w \in Widths : t = [i \in 1..(w + Body) |-> <<g, i - w>>]
    BY DEF Texts, Text
  <1>2. w + Body \in Nat \ {0} /\ 1 \in 1..(w + Body)
    BY SaveAssumption DEF SaveAssumption
  <1>3. DOMAIN t = 1..(w + Body) /\ t = [i \in 1..(w + Body) |-> t[i]]
        /\ t[1][1] = g
    BY <1>1, <1>2
  <1>4. Len(t) = w + Body
    <2> DEFINE n == w + Body
    <2>1. n \in Nat /\ t = [i \in 1..n |-> t[i]]
      BY <1>2, <1>3
    <2> HIDE DEF n
    <2>2. Len(t) = n
      BY <2>1, FilledLen
    <2> QED BY <2>2 DEF n
  <1> QED BY <1>2, <1>3, <1>4 DEF Filled

\* One block more at the end of what is filled, and nothing else.
LEMMA PutFilled ==
  ASSUME NEW n \in Nat, NEW t
  PROVE  Put(Filled(t, n), n + 1, t[n + 1]) = Filled(t, n + 1)
PROOF
  <1> DEFINE f == [i \in 1..n |-> t[i]]
  <1>2. Len(f) = n
    BY FilledLen
  <1>3. (IF n + 1 > n THEN n + 1 ELSE n) = n + 1
    OBVIOUS
  <1>4. Put(f, n + 1, t[n + 1])
          = [j \in 1..(n + 1) |-> IF j = n + 1 THEN t[n + 1] ELSE IF j <= n THEN f[j]
                                  ELSE Hole]
    BY <1>2, <1>3 DEF Put
  <1>5. \A j \in 1..(n + 1) : j # n + 1 => j <= n /\ f[j] = t[j]
    OBVIOUS
  <1>6. Put(f, n + 1, t[n + 1]) = [j \in 1..(n + 1) |-> t[j]]
    BY <1>4, <1>5
  <1> QED BY <1>6 DEF Filled

\* There is an inode that has no name and that nobody writes.
LEMMA FreshIs ==
  ASSUME \A v \in Writers : Idle(v) \/ fd[v] = None
  PROVE  Fresh \in Inodes /\ Fresh # tmp /\ Fresh # path
PROOF
  <1>1. \E i \in Inodes : i # tmp /\ i # path
    BY 1 \in Inodes, 2 \in Inodes, 3 \in Inodes DEF Inodes
  <1>2. \E i \in Inodes :
          i # tmp /\ i # path /\ \A v \in Writers : Idle(v) \/ i # fd[v]
    BY <1>1 DEF Inodes, None
  <1> HIDE DEF Inodes
  <1> QED BY <1>2 DEF Fresh

\* While one writer is at it the others hold no inode.
LEMMA OthersRest ==
  ASSUME SaveInv, NEW w \in Writers, ~Idle(w)
  PROVE  \A v \in Writers \ {w} : Idle(v) /\ fd[v] = None
BY DEF SaveInv, Saving, Idle

\* A writer that steps leaves the others idle: it is enough to look at it and
\* at the file.
LEMMA WriterStep ==
  ASSUME SaveInv, NEW w \in Writers, ~Idle(w),
         gen' = gen, saved' \in 0..MaxGen,
         tmp' \in Inodes \cup {None}, path' \in Inodes \cup {None},
         tmp' = None \/ tmp' # path',
         DOMAIN blocks' = Inodes,
         DOMAIN text' = Writers, DOMAIN fd' = Writers,
         \A v \in Writers \ {w} :
           at'[v] = at[v] /\ fd'[v] = fd[v] /\ pos'[v] = pos[v] /\ text'[v] = text[v],
         at' \in [Writers -> {"idle", "open", "write", "rename"}],
         pos' \in [Writers -> Nat],
         Saving(w)', FileIsLastSave'
  PROVE  SaveInv'
PROOF
  <1>1. \A v \in Writers \ {w} : Idle(v) /\ Idle(v)'
    BY OthersRest DEF Idle
  <1>2. \A u, v \in Writers : u = v \/ Idle(u)' \/ Idle(v)'
    BY <1>1
  <1>3. \A v \in Writers \ {w} : Saving(v)'
    <2> TAKE v \in Writers \ {w}
    <2>1. Saving(v) /\ at[v] = "idle"
      BY <1>1 DEF SaveInv, Idle
    <2>2. at'[v] = "idle" /\ fd'[v] = None /\ pos'[v] = 0
      BY <2>1 DEF Saving
    <2> QED BY <2>2 DEF Saving, Idle, None
  <1>4. \A v \in Writers : Saving(v)'
    BY <1>3
  <1>5. gen' \in 0..MaxGen
    BY DEF SaveInv
  <1> QED BY <1>2, <1>4, <1>5 DEF SaveInv, Idle, None

\* A writer that is done leaves nothing of the inode that lost its name.
LEMMA DoneStep ==
  ASSUME SaveInv, NEW w \in Writers, ~Idle(w),
         NEW i \in Inodes \cup {None}, Done(w, i)
  PROVE  /\ at' = [at EXCEPT ![w] = "idle"] /\ fd' = [fd EXCEPT ![w] = None]
         /\ text' = [text EXCEPT ![w] = <<>>] /\ pos' = [pos EXCEPT ![w] = 0]
         /\ DOMAIN blocks' = Inodes
         /\ \A j \in Inodes : j # i => blocks'[j] = blocks[j]
         /\ Saving(w)'
PROOF
  <1>1. /\ at' = [at EXCEPT ![w] = "idle"] /\ fd' = [fd EXCEPT ![w] = None]
        /\ text' = [text EXCEPT ![w] = <<>>] /\ pos' = [pos EXCEPT ![w] = 0]
        /\ blocks' = blocks \/ blocks' = [blocks EXCEPT ![i] = <<>>]
    BY DEF Done
  <1>2. at'[w] = "idle" /\ fd'[w] = None /\ pos'[w] = 0
    BY <1>1 DEF SaveInv
  <1>3. Saving(w)'
    BY <1>2 DEF Saving, Idle, None
  <1>4. /\ DOMAIN blocks' = Inodes
        /\ \A j \in Inodes : j # i => blocks'[j] = blocks[j]
    BY <1>1 DEF SaveInv
  <1> QED BY <1>1, <1>3, <1>4

\* What a start reads is the last save that ended.
LEMMA StartReadsSaved ==
  ASSUME SaveInv
  PROVE  OnDisk = saved
PROOF
  <1>1. saved \in 0..MaxGen /\ FileIsLastSave
    BY DEF SaveInv
  <1>2. CASE saved = 0
    BY <1>1, <1>2 DEF FileIsLastSave, OnDisk
  <1>3. CASE saved # 0
    <2>1. path # None /\ blocks[path] \in Texts(saved) /\ saved \in 1..MaxGen
      BY <1>1, <1>3, SaveAssumption DEF FileIsLastSave, SaveAssumption
    <2>2. blocks[path][1][1] = saved
      BY <2>1, TextIs
    <2> QED BY <2>1, <2>2 DEF OnDisk
  <1> QED BY <1>2, <1>3

\* The last save stays what the file holds when neither its inode nor what is
\* in it changes.
LEMMA FileStays ==
  ASSUME FileIsLastSave, path' = path, saved' = saved,
         path # None => blocks'[path] = blocks[path]
  PROVE  FileIsLastSave'
BY DEF FileIsLastSave, Texts, None

\* Opening truncates an inode that is not the file.
LEMMA OpenStep ==
  ASSUME SaveInv, NEW w \in Writers, Open(w)
  PROVE  SaveInv'
PROOF
  <1> DEFINE i == IF tmp # None THEN tmp ELSE Fresh
  <1>1. /\ at[w] = "open" /\ at' = [at EXCEPT ![w] = "write"]
        /\ tmp' = i /\ fd' = [fd EXCEPT ![w] = i]
        /\ blocks' = [blocks EXCEPT ![i] = <<>>]
        /\ UNCHANGED <<gen, path, text, pos, saved, crashes>>
    BY DEF Open, OpenTmp
  <1>2. ~Idle(w) /\ fd[w] = None /\ pos[w] = 0 /\ text[w] \in Texts(gen)
        /\ gen > 0
    BY <1>1 DEF SaveInv, Saving, Idle
  <1>3. i \in Inodes /\ i # path /\ i # None
    <2>1. \A v \in Writers : Idle(v) \/ fd[v] = None
      BY <1>2, OthersRest
    <2>2. Fresh \in Inodes /\ Fresh # path
      BY <2>1, FreshIs
    <2>3. tmp # None => tmp \in Inodes /\ tmp # path
      BY DEF SaveInv
    <2>4. None \notin Inodes
      BY DEF None, Inodes
    <2> QED BY <2>2, <2>3, <2>4
  <1> HIDE DEF i
  <1>4. /\ at'[w] = "write" /\ fd'[w] = tmp' /\ tmp' # None
        /\ blocks'[i] = <<>> /\ pos'[w] = 0 /\ text'[w] = text[w]
        /\ gen' = gen
    BY <1>1, <1>2, <1>3 DEF SaveInv
  <1>5. Filled(text[w], 0) = <<>>
    BY DEF Filled
  <1>6. Saving(w)'
    <2>1. Len(text[w]) > 0
      BY <1>2, TextIs DEF SaveInv
    <2> QED BY <1>1, <1>2, <1>4, <1>5, <2>1
        DEF Saving, Idle, None, Texts, Filled
  <1>7. FileIsLastSave'
    BY <1>1, <1>3, FileStays DEF SaveInv
  <1>8. /\ DOMAIN blocks' = Inodes /\ DOMAIN text' = Writers /\ DOMAIN fd' = Writers
        /\ at' \in [Writers -> {"idle", "open", "write", "rename"}]
        /\ pos' \in [Writers -> Nat] /\ saved' \in 0..MaxGen
        /\ tmp' \in Inodes \cup {None} /\ path' \in Inodes \cup {None}
        /\ tmp' # path'
    BY <1>1, <1>3 DEF SaveInv
  <1>9. \A v \in Writers \ {w} :
           at'[v] = at[v] /\ fd'[v] = fd[v] /\ pos'[v] = pos[v] /\ text'[v] = text[v]
    BY <1>1 DEF SaveInv
  <1> QED BY <1>1, <1>2, <1>6, <1>7, <1>8, <1>9, WriterStep

\* A block written is one more of the text.
LEMMA WriteStep ==
  ASSUME SaveInv, NEW w \in Writers, Write(w)
  PROVE  SaveInv'
PROOF
  <1>1. /\ at[w] = "write" /\ pos' = [pos EXCEPT ![w] = @ + 1]
        /\ blocks' = [blocks EXCEPT ![fd[w]] = Put(@, pos'[w], text[w][pos'[w]])]
        /\ at' = IF pos'[w] = Len(text[w]) THEN [at EXCEPT ![w] = "rename"] ELSE at
        /\ UNCHANGED <<gen, tmp, path, fd, text, saved, crashes>>
    BY DEF Write
  <1>2. /\ ~Idle(w) /\ gen > 0 /\ text[w] \in Texts(gen)
        /\ fd[w] = tmp /\ tmp # None /\ blocks[tmp] = Filled(text[w], pos[w])
        /\ pos[w] < Len(text[w])
    BY <1>1 DEF SaveInv, Saving, Idle
  <1>3. pos[w] \in Nat /\ pos'[w] = pos[w] + 1 /\ tmp \in Inodes /\ tmp # path
    BY <1>1, <1>2 DEF SaveInv
  <1> DEFINE n == Len(text[w])
  <1>4. n \in Nat \ {0} /\ text[w] = Filled(text[w], n)
    BY <1>2, TextIs
  <1>5. blocks'[tmp] = Filled(text[w], pos[w] + 1)
    <2>1. blocks'[tmp] = Put(blocks[tmp], pos[w] + 1, text[w][pos[w] + 1])
      BY <1>1, <1>2, <1>3 DEF SaveInv
    <2> QED BY <1>2, <1>3, <2>1, PutFilled
  <1>6. at'[w] = IF pos[w] + 1 = n THEN "rename" ELSE "write"
    BY <1>1, <1>3, <1>4 DEF SaveInv
  <1>7. Saving(w)'
    <2>1. pos[w] + 1 # n => pos[w] + 1 < n
      BY <1>2, <1>3, <1>4
    <2>2. fd'[w] = tmp' /\ tmp' # None /\ blocks'[tmp'] = Filled(text'[w], pos'[w])
      BY <1>1, <1>2, <1>3, <1>5
    <2>3. at'[w] = "rename" => blocks'[tmp'] = text'[w]
      BY <1>1, <1>4, <1>5, <1>6
    <2>4. at'[w] = "write" => pos'[w] < Len(text'[w])
      BY <1>1, <1>3, <1>4, <1>6, <2>1
    <2>5. gen' > 0 /\ text'[w] \in Texts(gen)'
      BY <1>1, <1>2 DEF Texts
    <2>6. at'[w] \notin {"idle", "open"}
      BY <1>6
    <2> QED BY <2>2, <2>3, <2>4, <2>5, <2>6
        DEF Saving, Idle, None, Texts, Filled
  <1>8. FileIsLastSave'
    <2>1. path # None => blocks'[path] = blocks[path]
      BY <1>1, <1>2, <1>3 DEF SaveInv
    <2> QED BY <1>1, <2>1, FileStays DEF SaveInv
  <1>9. /\ DOMAIN blocks' = Inodes /\ DOMAIN text' = Writers /\ DOMAIN fd' = Writers
        /\ at' \in [Writers -> {"idle", "open", "write", "rename"}]
        /\ pos' \in [Writers -> Nat] /\ saved' \in 0..MaxGen
        /\ tmp' \in Inodes \cup {None} /\ path' \in Inodes \cup {None}
        /\ tmp' # path'
    BY <1>1, <1>3 DEF SaveInv
  <1>10. \A v \in Writers \ {w} :
           at'[v] = at[v] /\ fd'[v] = fd[v] /\ pos'[v] = pos[v] /\ text'[v] = text[v]
    BY <1>1 DEF SaveInv
  <1> QED BY <1>1, <1>2, <1>7, <1>8, <1>9, <1>10, WriterStep

\* The rename puts the text of the present state in place, whole.
LEMMA RenameStep ==
  ASSUME SaveInv, NEW w \in Writers, Rename(w)
  PROVE  SaveInv'
PROOF
  <1>1. /\ at[w] = "rename" /\ tmp # None /\ path' = tmp /\ tmp' = None
        /\ saved' = text[w][1][1] /\ Done(w, path) /\ gen' = gen
    BY DEF Rename
  <1>2. /\ ~Idle(w) /\ gen > 0 /\ text[w] \in Texts(gen)
        /\ blocks[tmp] = text[w]
    BY <1>1 DEF SaveInv, Saving, Idle
  <1>3. saved' = gen /\ gen \in 0..MaxGen
    BY <1>1, <1>2, TextIs DEF SaveInv
  <1>4. tmp \in Inodes /\ tmp # path /\ path \in Inodes \cup {None}
    BY <1>1 DEF SaveInv
  <1>5. /\ at' = [at EXCEPT ![w] = "idle"] /\ fd' = [fd EXCEPT ![w] = None]
        /\ text' = [text EXCEPT ![w] = <<>>] /\ pos' = [pos EXCEPT ![w] = 0]
        /\ DOMAIN blocks' = Inodes /\ blocks'[tmp] = blocks[tmp]
        /\ Saving(w)'
    BY <1>1, <1>2, <1>4, DoneStep
  <1>6. FileIsLastSave'
    <2>1. saved' > 0 /\ path' # None /\ blocks'[path'] = text[w]
      BY <1>1, <1>2, <1>3, <1>5
    <2>2. blocks'[path'] \in Texts(saved)'
      BY <1>2, <1>3, <2>1 DEF Texts
    <2> QED BY <1>3, <2>1, <2>2 DEF FileIsLastSave, None
  <1>7. /\ DOMAIN text' = Writers /\ DOMAIN fd' = Writers
        /\ at' \in [Writers -> {"idle", "open", "write", "rename"}]
        /\ pos' \in [Writers -> Nat]
        /\ \A v \in Writers \ {w} :
             at'[v] = at[v] /\ fd'[v] = fd[v] /\ pos'[v] = pos[v] /\ text'[v] = text[v]
    BY <1>5 DEF SaveInv
  <1> QED BY <1>1, <1>2, <1>3, <1>4, <1>5, <1>6, <1>7, WriterStep

\* A save that fails takes its temporary file with it and no other.
LEMMA FailStep ==
  ASSUME SaveInv, NEW w \in Writers, Fail(w)
  PROVE  SaveInv'
PROOF
  <1>1. ~Idle(w) /\ tmp' = None /\ Done(w, tmp)
        /\ UNCHANGED <<gen, path, saved, crashes>>
    BY DEF Fail, Idle
  <1>2. tmp \in Inodes \cup {None} /\ path \in Inodes \cup {None}
        /\ (tmp = None \/ tmp # path)
    BY DEF SaveInv
  <1>3. /\ at' = [at EXCEPT ![w] = "idle"] /\ fd' = [fd EXCEPT ![w] = None]
        /\ text' = [text EXCEPT ![w] = <<>>] /\ pos' = [pos EXCEPT ![w] = 0]
        /\ DOMAIN blocks' = Inodes
        /\ \A j \in Inodes : j # tmp => blocks'[j] = blocks[j]
        /\ Saving(w)'
    BY <1>1, <1>2, DoneStep
  <1>4. FileIsLastSave'
    <2>1. path # None => blocks'[path] = blocks[path]
      BY <1>2, <1>3
    <2> QED BY <1>1, <2>1, FileStays DEF SaveInv
  <1>5. /\ DOMAIN text' = Writers /\ DOMAIN fd' = Writers
        /\ at' \in [Writers -> {"idle", "open", "write", "rename"}]
        /\ pos' \in [Writers -> Nat] /\ saved' \in 0..MaxGen
        /\ \A v \in Writers \ {w} :
             at'[v] = at[v] /\ fd'[v] = fd[v] /\ pos'[v] = pos[v] /\ text'[v] = text[v]
    BY <1>1, <1>3 DEF SaveInv
  <1> QED BY <1>1, <1>2, <1>3, <1>4, <1>5, WriterStep

\* A writer begins when nobody is at it; the process dies with its writers and
\* leaves both files as they are.
LEMMA BeginStep ==
  ASSUME Overlap = FALSE, SaveInv, NEW w \in Writers, Begin(w)
  PROVE  SaveInv'
PROOF
  <1>1. /\ gen > 0 /\ \A v \in Writers : at[v] = "idle"
        /\ at' = [at EXCEPT ![w] = "open"]
        /\ UNCHANGED <<gen, tmp, path, blocks, fd, pos, saved, crashes>>
    BY DEF Begin, Idle
  <1>2. PICK t \in Texts(gen) : text' = [text EXCEPT ![w] = t]
    BY DEF Begin
  <1>3. \A v \in Writers : fd[v] = None /\ pos[v] = 0
    BY <1>1 DEF SaveInv, Saving
  <1>4. /\ at'[w] = "open" /\ text'[w] = t
        /\ \A v \in Writers \ {w} : at'[v] = "idle"
        /\ at' \in [Writers -> {"idle", "open", "write", "rename"}]
        /\ DOMAIN text' = Writers
    BY <1>1, <1>2 DEF SaveInv
  <1>5. \A v \in Writers : Saving(v)'
    <2>1. Saving(w)'
      BY <1>1, <1>2, <1>3, <1>4 DEF Saving, Idle, None, Texts
    <2>2. ASSUME NEW v \in Writers \ {w} PROVE Saving(v)'
      BY <1>1, <1>3, <1>4, <2>2 DEF Saving, Idle, None
    <2> QED BY <2>1, <2>2
  <1>6. FileIsLastSave'
    BY <1>1, FileStays DEF SaveInv
  <1>7. \A u, v \in Writers : u = v \/ Idle(u)' \/ Idle(v)'
    BY <1>4 DEF Idle
  <1> QED BY <1>1, <1>4, <1>5, <1>6, <1>7 DEF SaveInv, Idle, None

\* A death leaves the two files and no writer.
LEMMA DeathStep ==
  ASSUME SaveInv, Crash
  PROVE  SaveInv'
PROOF
  <1>1. /\ at' = [v \in Writers |-> "idle"] /\ fd' = [v \in Writers |-> None]
        /\ text' = [v \in Writers |-> <<>>] /\ pos' = [v \in Writers |-> 0]
        /\ gen' = OnDisk /\ UNCHANGED <<tmp, path, blocks, saved>>
    BY DEF Crash
  <1>2. \A v \in Writers : Saving(v)' /\ Idle(v)'
    BY <1>1 DEF Saving, Idle, None
  <1>3. FileIsLastSave'
    BY <1>1, FileStays DEF SaveInv
  <1>4. gen' \in 0..MaxGen
    BY <1>1, StartReadsSaved DEF SaveInv
  <1> QED BY <1>1, <1>2, <1>3, <1>4 DEF SaveInv, Idle, None

\* Every step keeps it.
LEMMA DiskStep ==
  ASSUME Overlap = FALSE, SaveInv, [SaveNext]_saveVars
  PROVE  SaveInv'
PROOF
  <1>1. ASSUME gen' \in 0..MaxGen, \A v \in Writers : Idle(v),
               UNCHANGED <<tmp, path, blocks, at, fd, text, pos, saved>>
        PROVE  SaveInv'
    <2>1. \A v \in Writers : Saving(v)'
      BY <1>1 DEF SaveInv, Saving, Idle, None
    <2>2. FileIsLastSave'
      BY <1>1, FileStays DEF SaveInv
    <2> QED BY <1>1, <2>1, <2>2 DEF SaveInv, Idle, None
  <1>2. CASE Change
    <2>1. gen' \in 0..MaxGen
      BY <1>2, SaveAssumption DEF Change, SaveInv, SaveAssumption
    <2> QED BY <1>1, <1>2, <2>1 DEF Change
  <1>3. CASE Crash
    BY <1>3, DeathStep
  <1>4. ASSUME NEW w \in Writers, Save(w)
        PROVE  SaveInv'
    BY <1>4, BeginStep, OpenStep, WriteStep, RenameStep, FailStep DEF Save
  <1>5. CASE UNCHANGED saveVars
    <2>1. UNCHANGED <<gen, tmp, path, blocks, at, fd, text, pos, saved>>
      BY <1>5 DEF saveVars
    <2>2. FileIsLastSave'
      BY <2>1, FileStays DEF SaveInv
    <2>3. \A v \in Writers : Saving(v)'
      BY <2>1 DEF SaveInv, Saving, Idle, None, Texts, Filled
    <2> QED BY <2>1, <2>2, <2>3 DEF SaveInv, Idle, None
  <1> QED BY <1>2, <1>3, <1>4, <1>5 DEF SaveNext

\* SaveInv is invariant as long as a save begins when no other is under way.
THEOREM SaveInvariant ==
  ASSUME Overlap = FALSE
  PROVE  SaveSpec => []SaveInv
PROOF
  <1>1. SaveInit => SaveInv
    <2> SUFFICES ASSUME SaveInit PROVE SaveInv
      OBVIOUS
    <2>1. \A v \in Writers : Saving(v) /\ Idle(v)
      BY DEF SaveInit, Saving, Idle, None
    <2>2. FileIsLastSave
      BY DEF SaveInit, FileIsLastSave
    <2> QED BY <2>1, <2>2, SaveAssumption DEF SaveInit, SaveInv, SaveAssumption
  <1>2. SaveInv /\ [SaveNext]_saveVars => SaveInv'
    BY DiskStep
  <1> QED BY <1>1, <1>2, PTL DEF SaveSpec

\* Whatever the disk refuses and whenever the process dies, the file holds the
\* whole text of the last save that ended (save_to_file).
THEOREM FileHoldsLastSave ==
  ASSUME Overlap = FALSE
  PROVE  SaveSpec => []FileIsLastSave
PROOF
  <1>1. SaveInv => FileIsLastSave
    BY DEF SaveInv
  <1> QED BY <1>1, SaveInvariant, PTL

\* After a step, too, a start reads what was last saved.
LEMMA StartWillRead == SaveInv' => OnDisk' = saved'
PROOF
  <1>1. SaveInv => OnDisk = saved
    BY StartReadsSaved
  <1>2. (SaveInv => OnDisk = saved)'
    BY <1>1, PTL
  <1> QED BY <1>2

\* A step of the saves is a step of SavedFile, or none: only the rename shows,
\* and it puts the state in memory on disk.
LEMMA SaveIsOneStep ==
  ASSUME SaveInv, SaveInv', [SaveNext]_saveVars
  PROVE  [WholeSaves!Next]_(WholeSaves!vars)
PROOF
  <1>1. OnDisk = saved /\ OnDisk' = saved'
    BY StartReadsSaved, StartWillRead
  <1>2. CASE Change
    BY <1>1, <1>2 DEF Change, WholeSaves!Change, WholeSaves!Next
  <1>3. CASE Crash
    BY <1>1, <1>3 DEF Crash, WholeSaves!Restart, WholeSaves!Next
  <1>4. ASSUME NEW w \in Writers, Rename(w)
        PROVE  WholeSaves!Save
    <2>1. saved' = text[w][1][1] /\ gen' = gen /\ gen > 0 /\ text[w] \in Texts(gen)
      BY <1>4 DEF Rename, SaveInv, Saving, Idle
    <2>2. saved' = gen
      BY <2>1, TextIs
    <2> QED BY <1>1, <2>1, <2>2 DEF WholeSaves!Save
  <1>5. ASSUME NEW w \in Writers, Begin(w) \/ Open(w) \/ Write(w) \/ Fail(w)
        PROVE  gen' = gen /\ saved' = saved
    BY <1>5 DEF Begin, Open, Write, Fail
  <1>6. CASE UNCHANGED saveVars
    BY <1>1, <1>6 DEF saveVars, WholeSaves!vars
  <1> QED BY <1>1, <1>2, <1>3, <1>4, <1>5, <1>6
      DEF SaveNext, Save, WholeSaves!Next, WholeSaves!vars

\* The save of a cache implements SavedFile: wherever it is cut off and whatever
\* is left over, to a start it is one step or none.  This is what the single
\* save steps of the other modules rest on.
THEOREM SaveIsAtomic ==
  ASSUME Overlap = FALSE
  PROVE  SaveSpec => SavesAreWhole
PROOF
  <1>1. SaveInit => WholeSaves!Init
    BY DEF SaveInit, WholeSaves!Init, OnDisk
  <1>2. SaveInv /\ SaveInv' /\ [SaveNext]_saveVars => [WholeSaves!Next]_(WholeSaves!vars)
    BY SaveIsOneStep
  <1> QED BY <1>1, <1>2, SaveInvariant, PTL DEF SaveSpec, SavesAreWhole, WholeSaves!Spec
=============================================================================
