-------------------------- MODULE SurfReadsProofs --------------------------
(***************************************************************************)
(* What holds of the detached reads for every set of sweeps and seats,     *)
(* every order of closing and every interleaving: no task is lost hold of, *)
(* two seats are never asked for at once, the marks tell the truth, the    *)
(* slot keeps its cap, and close() leaves nothing behind when no cycle     *)
(* crosses it.                                                             *)
(***************************************************************************)
EXTENDS SurfReads, SequenceTheorems, TLAPS

\* The types the proof needs.
TaskTypes ==
  /\ held \in [Tiers -> BOOLEAN]
  /\ leaving \in [Tiers -> Nat]
  /\ adrift \in [Tiers -> 0..1]
  /\ lastEnd \in [Seats -> Ends]
  /\ closing \in 0..Closed
  /\ caught \subseteq Tiers /\ due \subseteq Tiers
  /\ saved \in Seats \cup {NoSeat} /\ favourite \in Seats \cup {NoSeat}
  /\ held[SeatTier] => token \in Seats
  /\ cycle = "replacing" => target \in Seats
  /\ crossed \in BOOLEAN

\* Only the cycle starts the seat's read, and it waits while it replaces it.
ReplacingHoldsNone == cycle = "replacing" => ~held[SeatTier]

\* Before close() only the seat's read is ever cancelled, by a cycle that waits.
LeavingIsAwaited ==
  closing = 0 /\ cycle # "replacing" => leaving[SeatTier] = 0

\* The tasks close() has passed are gone, the one it awaits is cancelled.
ClosingStops ==
  closing # 0 /\ ~crossed =>
    /\ cycle = "idle"
    /\ \A k \in 1..Len(CloseOrder) :
         /\ k <= closing => ~held[CloseOrder[k]]
         /\ k < closing => leaving[CloseOrder[k]] = 0

IInv ==
  /\ TaskTypes /\ NoneAdrift /\ ReplacingHoldsNone /\ LeavingIsAwaited
  /\ OneSeatAsked /\ MarkIsLastRead /\ ClosingStops

LEMMA CloseOrderTypes ==
  /\ Len(CloseOrder) \in Nat
  /\ \A k \in 1..Len(CloseOrder) : CloseOrder[k] \in Tiers
  /\ \A t \in Tiers : \E k \in 1..Len(CloseOrder) : CloseOrder[k] = t
BY SurfAssumption

\* Some tier is stopped, for the seat's is.
LEMMA SomethingToStop == Len(CloseOrder) >= 1
BY CloseOrderTypes DEF Tiers

LEMMA SeatIsATier ==
  /\ SeatTier \in Tiers /\ SeatTier \notin Sweeps /\ Sweeps \subseteq Tiers
  /\ NoSeat \notin Seats
BY SurfAssumption DEF Tiers

LEMMA SurfInit == Init => IInv
<1> SUFFICES ASSUME Init PROVE IInv
  OBVIOUS
<1> USE SeatIsATier
<1>1. TaskTypes
  <2>1. closing \in 0..Closed
    BY CloseOrderTypes DEF Init, Closed
  <2>2. favourite \in Seats \cup {NoSeat}
    BY DEF Init
  <2>3. held \in [Tiers -> BOOLEAN] /\ ~held[SeatTier]
    BY DEF Init
  <2>4. leaving \in [Tiers -> Nat] /\ adrift \in [Tiers -> 0..1]
    BY DEF Init
  <2>5. lastEnd \in [Seats -> Ends]
    BY DEF Init, Ends
  <2>6. cycle = "idle" /\ crossed \in BOOLEAN /\ caught \subseteq Tiers /\ due \subseteq Tiers
    BY DEF Init
  <2> QED
    BY <2>1, <2>2, <2>3, <2>4, <2>5, <2>6 DEF Init, TaskTypes
<1> QED
  BY <1>1 DEF Init, IInv, NoneAdrift, ReplacingHoldsNone, LeavingIsAwaited,
              OneSeatAsked, MarkIsLastRead, ClosingStops

\* What stopping a tier leaves of its tasks and of the others'.
Stopped(t) ==
  /\ held' \in [Tiers -> BOOLEAN] /\ leaving' \in [Tiers -> Nat]
  /\ ~held'[t]
  /\ \A u \in Tiers :
       /\ held'[u] => held[u]
       /\ ~held[u] => leaving'[u] = leaving[u]
  /\ held'[SeatTier] => token' = token

LEMMA StopStops ==
  ASSUME TaskTypes, NEW t \in Tiers, Stop(t) PROVE Stopped(t)
<1>1. SeatTier \in Tiers
  BY SeatIsATier
<1>2. CASE held[t]
  <2>1. held' = [held EXCEPT ![t] = FALSE] /\ leaving' = [leaving EXCEPT ![t] = @ + 1]
    BY <1>2 DEF Stop, Cancelled
  <2>2. held' \in [Tiers -> BOOLEAN]
    BY <2>1 DEF TaskTypes
  <2>3. leaving' \in [Tiers -> Nat] /\ \A u \in Tiers : ~held[u] => leaving'[u] = leaving[u]
    BY <1>2, <2>1 DEF TaskTypes
  <2>4. ~held'[t] /\ \A u \in Tiers : held'[u] => held[u]
    BY <2>1 DEF TaskTypes
  <2>5. held'[SeatTier] => token' = token
    BY <1>1, <2>4 DEF Stop
  <2> QED
    BY <2>2, <2>3, <2>4, <2>5 DEF Stopped
<1>3. CASE ~held[t]
  BY <1>1, <1>3 DEF TaskTypes, Stop, Cancelled, Stopped
<1> QED
  BY <1>2, <1>3

LEMMA SurfStep == IInv /\ [Next]_vars => IInv'
<1> SUFFICES ASSUME IInv, [Next]_vars PROVE IInv'
  OBVIOUS
<1> USE SeatIsATier
<1> USE DEF IInv, TaskTypes, NoneAdrift, ReplacingHoldsNone, LeavingIsAwaited,
            OneSeatAsked, MarkIsLastRead, ClosingStops, tasks, marks, choice, cycleVars, history
<1>1. ASSUME NEW s \in Seats, SetSeat(s) PROVE IInv'
  BY <1>1 DEF SetSeat
<1>2. ASSUME NEW s \in Seats, RosterMoves(s) PROVE IInv'
  BY <1>2 DEF RosterMoves
<1>3. ASSUME NEW t \in Tiers, Elapse(t) PROVE IInv'
  BY <1>3 DEF Elapse
<1>4. ASSUME NEW t \in Tiers, Gone(t) PROVE IInv'
  <2>1. /\ leaving' \in [Tiers -> Nat]
        /\ \A u \in Tiers : leaving[u] = 0 => leaving'[u] = 0
    BY <1>4 DEF Gone
  <2>2. ClosingStops'
    BY <1>4, <2>1, CloseOrderTypes DEF Gone
  <2> QED
    BY <1>4, <2>1, <2>2 DEF Gone
<1>5. ASSUME NEW w \in Sweeps, SweepEnds(w) PROVE IInv'
  BY <1>5 DEF SweepEnds, TaskEnds
<1>6. ASSUME NEW w \in Sweeps, SweepRaises(w) PROVE IInv'
  BY <1>6 DEF SweepRaises, TaskEnds
<1>7. CASE CycleBegins
  BY <1>7 DEF CycleBegins
<1>8. CASE ChainRead
  BY <1>8 DEF ChainRead, SpawnDue, Spawned, Free, Sweeps
<1>9. CASE LeaveSeat
  BY <1>9 DEF LeaveSeat, Published, SpawnDue, Spawned, Free, Sweeps, Returns
<1>10. CASE OfferSeat
  BY <1>10 DEF OfferSeat, Published, SpawnDue, Spawned, Free, Sweeps, Returns, StartSeat, Selected
<1>11. CASE ReplaceSeat
  <2>1. closing = 0 \/ crossed
    BY <1>11 DEF ReplaceSeat, Published
  <2>2. held' \in [Tiers -> BOOLEAN] /\ ~held'[SeatTier]
    <3>1. held' = [t \in Tiers |->
                     t # SeatTier /\ (held[t] \/ (t \in Late \cap caught /\ Free(t)))]
      BY <1>11 DEF ReplaceSeat
    <3> QED
      BY <3>1, Zenon
  <2>4. leaving' \in [Tiers -> Nat]
    BY <1>11 DEF ReplaceSeat, CancelSeat
  <2>3. target' \in Seats
    BY <1>11 DEF ReplaceSeat, Selected
  <2> QED
    BY <1>11, <2>1, <2>2, <2>3, <2>4 DEF ReplaceSeat, Published, CancelSeat
<1>12. CASE Replaced
  BY <1>12 DEF Replaced, OldIsGone, Spawned, StartSeat, Returns
<1>13. CASE SeatRead
  <2>1. /\ token \in Seats /\ held \in [Tiers -> BOOLEAN] /\ held[SeatTier]
        /\ lastEnd' = [lastEnd EXCEPT ![token] = "ok"]
        /\ lastEnd' \in [Seats -> Ends]
    BY <1>13 DEF SeatRead, Answered, Ends
  <2>2. MarkIsLastRead'
    BY <1>13, <2>1 DEF SeatRead, MarksCleared
  <2>3. \/ held' = [held EXCEPT ![SeatTier] = FALSE] /\ ~held'[SeatTier]
        \/ UNCHANGED <<held, token>>
    BY <1>13, <2>1 DEF SeatRead, SeatEnds, TaskEnds
  <2>4. held' \in [Tiers -> BOOLEAN] /\ \A t \in Tiers : held'[t] => held[t]
    <3>1. CASE held' = [held EXCEPT ![SeatTier] = FALSE]
      BY <2>1, <3>1
    <3>2. CASE UNCHANGED held
      BY <2>1, <3>2
    <3> QED
      BY <2>3, <3>1, <3>2
  <2>5. ClosingStops'
    BY <1>13, <2>4, CloseOrderTypes DEF SeatRead, Answered
  <2> QED
    BY <1>13, <2>1, <2>2, <2>3, <2>4, <2>5 DEF SeatRead, Answered
<1>14. ASSUME NEW end \in {"busy", "failed"}, SeatNotRead(end) PROVE IInv'
  BY <1>14 DEF SeatNotRead, Answered, Marked, SeatEnds, TaskEnds, Ends
<1>15. CASE SeatFollowed
  BY <1>15 DEF SeatFollowed, SeatEnds, TaskEnds
<1>16. CASE Close
  <2> DEFINE t == CloseOrder[1]
  <2>1. t \in Tiers /\ Len(CloseOrder) \in Nat /\ Len(CloseOrder) >= 1
    BY CloseOrderTypes, SomethingToStop
  <2>2. Stopped(t)
    BY <1>16, <2>1, StopStops DEF Close
  <2>3. ClosingStops'
    <3>1. crossed' = (cycle # "idle") /\ cycle' = cycle /\ closing' = 1
      BY <1>16 DEF Close
    <3>2. \A k \in 1..Len(CloseOrder) : k <= 1 => k = 1
      BY <2>1
    <3>3. \A k \in 1..Len(CloseOrder) : ~(k < 1)
      BY <2>1
    <3> QED
      BY <2>2, <3>1, <3>2, <3>3 DEF Stopped
  <2>4. closing' \in 0..Closed
    BY <1>16, <2>1 DEF Close, Closed
  <2> QED
    BY <1>16, <2>2, <2>3, <2>4 DEF Close, Stopped
<1>17. CASE CloseNext
  <2>1. Len(CloseOrder) \in Nat /\ closing \in 1..Len(CloseOrder) /\ closing' = closing + 1
    BY <1>17, CloseOrderTypes DEF CloseNext
  <2>2. CASE closing' = Closed
    BY <1>17, <2>1, <2>2 DEF CloseNext, Closed
  <2>3. CASE closing' # Closed
    <3> DEFINE t == CloseOrder[closing']
    <3>1. closing' \in 1..Len(CloseOrder)
      BY <2>1, <2>3 DEF Closed
    <3>2. Stopped(t)
      BY <1>17, <2>3, <3>1, CloseOrderTypes, StopStops DEF CloseNext
    <3>3. ClosingStops'
      <4> SUFFICES ASSUME ~crossed, NEW k \in 1..Len(CloseOrder)
                   PROVE  /\ cycle' = "idle"
                          /\ k <= closing' => ~held'[CloseOrder[k]]
                          /\ k < closing' => leaving'[CloseOrder[k]] = 0
        BY <1>17, <2>1 DEF CloseNext
      <4>1. cycle' = "idle" /\ (k < closing' => ~held[CloseOrder[k]] /\ leaving[CloseOrder[k]] = 0)
        BY <1>17, <2>1 DEF CloseNext
      <4> QED
        BY <2>1, <3>1, <3>2, <4>1, CloseOrderTypes DEF Stopped
    <3>4. closing' \in 0..Closed
      BY <2>1, <3>1 DEF Closed
    <3> QED
      BY <1>17, <2>1, <3>2, <3>3, <3>4 DEF CloseNext, Stopped
  <2> QED
    BY <2>2, <2>3
<1>18. CASE UNCHANGED vars
  BY <1>18 DEF vars
<1> QED
  BY <1>1, <1>2, <1>3, <1>4, <1>5, <1>6, <1>7, <1>8, <1>9, <1>10, <1>11, <1>12, <1>13,
     <1>14, <1>15, <1>16, <1>17, <1>18 DEF Next, Cycle, SeatAnswers

\* The invariant of this module holds in every state of the manager's run.
THEOREM SurfInvariant == Spec => []IInv
<1>1. Init => IInv
  BY SurfInit
<1>2. IInv /\ [Next]_vars => IInv'
  BY SurfStep
<1> QED
  BY <1>1, <1>2, PTL DEF Spec

\* No detached task is ever lost hold of, and two seats are never asked for at
\* once (surf_manager._spawn_*, _offer_swarm_seat).
THEOREM NoTaskIsLost == Spec => [](NoneAdrift /\ OneSeatAsked)
<1>1. IInv => NoneAdrift /\ OneSeatAsked
  BY DEF IInv
<1> QED
  BY <1>1, SurfInvariant, PTL

\* A busy or failed mark is the outcome of the last finished read of its seat
\* (surf_manager._pool_swarm_seat).
THEOREM MarksAreTrue == Spec => []MarkIsLastRead
<1>1. IInv => MarkIsLastRead
  BY DEF IInv
<1> QED
  BY <1>1, SurfInvariant, PTL

\* close() leaves no task behind unless a cycle crosses it (SurfManager.close).
THEOREM CloseIsQuiet == Spec => []QuietWhenClosed
<1>1. IInv => QuietWhenClosed
  <2> SUFFICES ASSUME IInv, closing = Closed, ~crossed, NEW t \in Tiers
               PROVE  ~held[t] /\ leaving[t] = 0 /\ adrift[t] = 0
    BY DEF QuietWhenClosed
  <2>1. PICK k \in 1..Len(CloseOrder) : CloseOrder[k] = t
    BY CloseOrderTypes
  <2>2. closing # 0 /\ k < closing /\ k <= closing
    BY CloseOrderTypes DEF Closed
  <2> QED
    BY <2>1, <2>2 DEF IInv, NoneAdrift, ClosingStops
<1> QED
  BY <1>1, SurfInvariant, PTL

-----------------------------------------------------------------------------
(***************************************************************************)
(* The types, with the slot of the seats read: its cap is kept by what     *)
(* coerce_seat_slot does to it, whatever is read and however often.        *)
(***************************************************************************)
\* A sequence without its n-th element.
LEMMA RemoveAtProperties ==
  ASSUME NEW S, NEW seq \in Seq(S), NEW n \in 1..Len(seq)
  PROVE  /\ RemoveAt(seq, n) \in Seq(S) /\ Len(RemoveAt(seq, n)) = Len(seq) - 1
         /\ \A k \in 1..Len(seq) - 1 :
              RemoveAt(seq, n)[k] = IF k < n THEN seq[k] ELSE seq[k + 1]
<1> DEFINE L == Len(seq)
           front == SubSeq(seq, 1, n - 1)
           back == SubSeq(seq, n + 1, L)
<1>1. L \in Nat /\ n \in Nat /\ 1 <= n /\ n <= L /\ \A k \in 1..L : seq[k] \in S
  OBVIOUS
<1>2. RemoveAt(seq, n) = front \o back
  BY DEF RemoveAt
<1> HIDE DEF L
<1>3. /\ front \in Seq(S) /\ Len(front) = n - 1
      /\ \A k \in 1..n - 1 : front[k] = seq[k]
  BY <1>1, SubSeqProperties
<1>4. back \in Seq(S)
  BY <1>1, SubSeqProperties
<1>5. Len(back) = IF n + 1 <= L THEN L - (n + 1) + 1 ELSE 0
  BY <1>1, SubSeqProperties
<1>6. \A k \in 1..L - (n + 1) + 1 : back[k] = seq[(n + 1) + k - 1]
  BY <1>1, SubSeqProperties
<1> HIDE DEF front, back
<1>7. Len(back) = L - n
  BY <1>1, <1>5
<1>8. \A k \in 1..L - n : back[k] = seq[n + k]
  <2> SUFFICES ASSUME NEW k \in 1..L - n PROVE back[k] = seq[n + k]
    OBVIOUS
  <2>1. k \in 1..L - (n + 1) + 1 /\ (n + 1) + k - 1 = n + k
    BY <1>1
  <2> QED
    BY <1>6, <2>1
<1> DEFINE o == RemoveAt(seq, n)
<1>9. /\ o \in Seq(S) /\ Len(o) = Len(front) + Len(back)
      /\ \A k \in 1..Len(front) + Len(back) :
           o[k] = IF k <= Len(front) THEN front[k] ELSE back[k - Len(front)]
  <2>1. o = front \o back
    BY <1>2
  <2> HIDE DEF o
  <2> QED
    BY <1>3, <1>4, <2>1, ConcatProperties
<1> HIDE DEF o
<1>10. Len(front) + Len(back) = L - 1
  BY <1>1, <1>3, <1>7
<1>11. ASSUME NEW k \in 1..L - 1 PROVE o[k] = IF k < n THEN seq[k] ELSE seq[k + 1]
  <2>0. o[k] = IF k <= n - 1 THEN front[k] ELSE back[k - (n - 1)]
    BY <1>3, <1>9, <1>10
  <2>1. CASE k < n
    <3>1. k \in 1..n - 1
      BY <1>1, <2>1
    <3> QED
      BY <1>3, <2>0, <2>1, <3>1
  <2>2. CASE ~(k < n)
    <3>1. k - (n - 1) \in 1..L - n /\ n + (k - (n - 1)) = k + 1 /\ ~(k <= n - 1)
      BY <1>1, <2>2
    <3> QED
      BY <1>8, <2>0, <2>2, <3>1
  <2> QED
    BY <2>1, <2>2
<1> QED
  BY <1>9, <1>10, <1>11 DEF o, L

LEMMA OthersType ==
  ASSUME NEW s \in Seats, stored \in Seq(Seats), IsInjective(stored)
  PROVE  /\ Others(s) \in Seq(Seats) /\ Len(Others(s)) <= Len(stored)
         /\ IsInjective(Others(s))
         /\ \A k \in DOMAIN Others(s) : Others(s)[k] # s
<1> DEFINE n == CHOOSE k \in DOMAIN stored : stored[k] = s
           o == Others(s)
           up(k) == IF k < n THEN k ELSE k + 1
<1>1. /\ DOMAIN stored = 1..Len(stored) /\ Len(stored) \in Nat
      /\ \A j, k \in 1..Len(stored) : stored[j] = stored[k] => j = k
  BY DEF IsInjective
<1>2. CASE s \in ToSet(stored)
  <2>1. n \in 1..Len(stored) /\ stored[n] = s
    BY <1>1, <1>2 DEF ToSet
  <2>2. o = RemoveAt(stored, n)
    BY <1>2 DEF Others
  <2> HIDE DEF n, o
  <2>3. /\ o \in Seq(Seats) /\ Len(o) = Len(stored) - 1
        /\ \A k \in 1..Len(stored) - 1 : o[k] = IF k < n THEN stored[k] ELSE stored[k + 1]
    BY <2>1, <2>2, RemoveAtProperties
  <2>4. DOMAIN o = 1..Len(stored) - 1
    BY <2>3
  <2>5. \A k \in DOMAIN o : o[k] = stored[up(k)]
    BY <2>3, <2>4
  <2>6. /\ \A k \in DOMAIN o : up(k) \in 1..Len(stored) /\ up(k) # n
        /\ \A j, k \in DOMAIN o : up(j) = up(k) => j = k
    BY <1>1, <2>1, <2>4
  <2> HIDE DEF up
  <2>7. IsInjective(o)
    BY <1>1, <2>5, <2>6 DEF IsInjective
  <2>8. \A k \in DOMAIN o : o[k] # s
    BY <1>1, <2>1, <2>5, <2>6
  <2>9. Len(o) <= Len(stored)
    BY <1>1, <2>3
  <2> QED
    BY <2>3, <2>7, <2>8, <2>9 DEF o
<1>3. CASE s \notin ToSet(stored)
  <2>1. Others(s) = stored
    BY <1>3 DEF Others
  <2>2. \A k \in DOMAIN stored : stored[k] # s
    BY <1>1, <1>3 DEF ToSet
  <2> QED
    BY <1>1, <2>1, <2>2
<1> QED
  BY <1>2, <1>3

\* What a finished read leaves in the slot.
LEMMA KeptType ==
  ASSUME NEW s \in Seats, stored \in Seq(Seats), IsInjective(stored)
  PROVE  Kept(s) \in Seq(Seats) /\ Len(Kept(s)) <= SlotCap /\ IsInjective(Kept(s))
<1> DEFINE o == Others(s)
           order == <<s>> \o o
           n == IF Len(order) <= SlotCap THEN Len(order) ELSE SlotCap
<1>1. /\ o \in Seq(Seats) /\ IsInjective(o) /\ DOMAIN o = 1..Len(o) /\ Len(o) \in Nat
      /\ \A k \in 1..Len(o) : o[k] # s
  BY OthersType
<1> HIDE DEF o
<1>2. /\ order \in Seq(Seats) /\ Len(order) = Len(o) + 1
      /\ \A k \in 1..Len(order) : order[k] = IF k = 1 THEN s ELSE o[k - 1]
  BY <1>1
<1>3. Kept(s) = SubSeq(order, 1, n)
  BY DEF Kept, o
<1> HIDE DEF order
<1>4. \A j, k \in 1..Len(order) : order[j] = order[k] => j = k
  <2> SUFFICES ASSUME NEW j \in 1..Len(order), NEW k \in 1..Len(order), order[j] = order[k]
               PROVE  j = k
    OBVIOUS
  <2>1. \A i \in 1..Len(order) :
          i # 1 => i - 1 \in 1..Len(o) /\ order[i] = o[i - 1] /\ order[i] # s
    BY <1>1, <1>2
  <2>2. j = 1 \/ k = 1 => j = k
    BY <1>1, <1>2, <2>1
  <2>3. CASE j # 1 /\ k # 1
    <3>1. o[j - 1] = o[k - 1] /\ j - 1 \in DOMAIN o /\ k - 1 \in DOMAIN o
      BY <1>1, <2>1, <2>3
    <3>2. j - 1 = k - 1
      BY <1>1, <3>1 DEF IsInjective
    <3> QED
      BY <1>1, <1>2, <3>2
  <2> QED
    BY <2>2, <2>3
<1>5. n \in 1..Len(order) /\ n <= SlotCap
  BY <1>1, <1>2, SurfAssumption
<1> HIDE DEF n
<1>6. /\ Kept(s) \in Seq(Seats) /\ Len(Kept(s)) = n
      /\ DOMAIN Kept(s) = 1..n /\ \A k \in 1..n : Kept(s)[k] = order[k]
  BY <1>2, <1>3, <1>5
<1>7. IsInjective(Kept(s))
  BY <1>2, <1>4, <1>5, <1>6 DEF IsInjective
<1> QED
  BY <1>5, <1>6, <1>7

\* The slot, and what a cycle captures of it.
SlotType == stored \in Seq(Seats) /\ Len(stored) <= SlotCap /\ IsInjective(stored)

LEMMA SlotStep == SlotType /\ IInv /\ [Next]_vars => SlotType'
<1> SUFFICES ASSUME SlotType, IInv, [Next]_vars PROVE SlotType'
  OBVIOUS
<1>1. CASE SeatRead
  <2>1. stored' = Kept(token) /\ token \in Seats
    BY <1>1 DEF SeatRead, Answered, IInv, TaskTypes
  <2> QED
    BY <2>1, KeptType DEF SlotType
<1>2. CASE UNCHANGED stored
  BY <1>2 DEF SlotType
<1>3. SeatRead \/ UNCHANGED stored
  BY DEF Next, Cycle, SeatAnswers, vars, SetSeat, RosterMoves, Elapse, Gone, SweepEnds,
         SweepRaises, CycleBegins, ChainRead, LeaveSeat, OfferSeat, ReplaceSeat, Replaced,
         Published, SeatNotRead, SeatFollowed, Close, CloseNext
<1> QED
  BY <1>1, <1>2, <1>3

\* The reader's choice, the marks and the cycle's locals.
ChoiceTypes ==
  /\ token \in Seats \cup {NoSeat} /\ stage \in {"asking", "following"}
  /\ failed \in Seats \cup {NoSeat} /\ busy \in Seats \cup {NoSeat}
  /\ changes \in 0..MaxChanges
  /\ cycle \in {"idle", "chain", "gather", "replacing"}
  /\ snapshot \subseteq Seats /\ target \in Seats \cup {NoSeat}
  /\ shown \in States
  /\ pick \in BOOLEAN /\ noted \in BOOLEAN

LEMMA StateOfType == \A s : StateOf(s) \in States
BY DEF StateOf, States

LEMMA PublishedType == Published => shown' \in States
BY StateOfType DEF Published

LEMMA ChoiceStep == ChoiceTypes /\ SlotType /\ IInv /\ [Next]_vars => ChoiceTypes'
<1> SUFFICES ASSUME ChoiceTypes, SlotType, IInv, [Next]_vars PROVE ChoiceTypes'
  OBVIOUS
<1> USE DEF ChoiceTypes, tasks, marks, choice, cycleVars, history
<1>0. /\ held[SeatTier] => token \in Seats
      /\ cycle = "replacing" => target \in Seats
      /\ saved \in Seats \cup {NoSeat} /\ favourite \in Seats \cup {NoSeat}
      /\ Selected \in Seats \cup {NoSeat}
  BY DEF IInv, TaskTypes, Selected
<1>1. ASSUME NEW s \in Seats, SetSeat(s) PROVE ChoiceTypes'
  <2>1. changes' \in 0..MaxChanges
    BY <1>1, SurfAssumption DEF SetSeat, Changed
  <2>2. pick' \in BOOLEAN /\ noted' \in BOOLEAN
    BY <1>1, Zenon DEF SetSeat
  <2> QED
    BY <1>1, <2>1, <2>2 DEF SetSeat
<1>2. ASSUME NEW s \in Seats, RosterMoves(s) PROVE ChoiceTypes'
  <2>1. changes' \in 0..MaxChanges
    BY <1>2, SurfAssumption DEF RosterMoves, Changed
  <2> QED
    BY <1>2, <2>1 DEF RosterMoves
<1>3. ASSUME NEW t \in Tiers, Elapse(t) \/ Gone(t) PROVE ChoiceTypes'
  BY <1>3 DEF Elapse, Gone
<1>4. ASSUME NEW w \in Sweeps, SweepEnds(w) \/ SweepRaises(w) PROVE ChoiceTypes'
  BY <1>4 DEF SweepEnds, SweepRaises
<1>5. CASE CycleBegins
  BY <1>5 DEF CycleBegins
<1>6. CASE ChainRead
  <2>1. ToSet(stored) \subseteq Seats
    BY DEF SlotType, ToSet
  <2> QED
    BY <1>6, <2>1 DEF ChainRead
<1>7. CASE LeaveSeat
  BY <1>7, PublishedType DEF LeaveSeat, Published, Returns
<1>8. CASE OfferSeat
  BY <1>0, <1>8, PublishedType DEF OfferSeat, Published, Returns, StartSeat
<1>9. CASE ReplaceSeat
  BY <1>0, <1>9, PublishedType DEF ReplaceSeat, Published
<1>10. CASE Replaced
  BY <1>0, <1>10 DEF Replaced, Returns, StartSeat
<1>11. CASE SeatRead
  <2>1. pick' \in BOOLEAN /\ noted' \in BOOLEAN
    BY <1>11, Zenon DEF SeatRead, Answered
  <2>2. /\ failed' \in Seats \cup {NoSeat} /\ busy' \in Seats \cup {NoSeat}
        /\ token' \in Seats \cup {NoSeat} /\ stage' \in {"asking", "following"}
    BY <1>11 DEF SeatRead, MarksCleared, SeatEnds
  <2> QED
    BY <1>11, <2>1, <2>2 DEF SeatRead, Answered
<1>12. ASSUME NEW end \in {"busy", "failed"}, SeatNotRead(end) PROVE ChoiceTypes'
  <2>1. pick' \in BOOLEAN /\ noted' \in BOOLEAN
    BY <1>12, Zenon DEF SeatNotRead, Answered
  <2>2. /\ failed' \in Seats \cup {NoSeat} /\ busy' \in Seats \cup {NoSeat}
        /\ token' = NoSeat /\ stage' = "asking"
    BY <1>12 DEF SeatNotRead, Marked, SeatEnds
  <2> QED
    BY <1>12, <2>1, <2>2 DEF SeatNotRead, Answered
<1>13. CASE SeatFollowed
  BY <1>13 DEF SeatFollowed, SeatEnds
<1>14. CASE Close \/ CloseNext
  BY <1>14 DEF Close, CloseNext, Stop
<1>15. CASE UNCHANGED vars
  BY <1>15 DEF vars
<1> QED
  BY <1>1, <1>2, <1>3, <1>4, <1>5, <1>6, <1>7, <1>8, <1>9, <1>10, <1>11, <1>12, <1>13,
     <1>14, <1>15 DEF Next, Cycle, SeatAnswers

LEMMA TypesInit == Init => SlotType /\ ChoiceTypes
<1> SUFFICES ASSUME Init PROVE SlotType /\ ChoiceTypes
  OBVIOUS
<1>1. SlotType
  <2>1. CASE stored = <<>>
    BY <2>1, SurfAssumption DEF SlotType, IsInjective
  <2>2. CASE \E s \in Seats : stored = <<s>>
    <3>1. PICK s \in Seats : stored = <<s>>
      BY <2>2
    <3>2. stored \in Seq(Seats) /\ Len(stored) = 1 /\ DOMAIN stored = {1}
      BY <3>1
    <3> QED
      BY <3>2, SurfAssumption DEF SlotType, IsInjective
  <2> QED
    BY <2>1, <2>2 DEF Init
<1>2. ChoiceTypes
  <2>1. pick \in BOOLEAN /\ noted \in BOOLEAN
    BY Zenon DEF Init
  <2> QED
    BY <2>1, SurfAssumption DEF Init, ChoiceTypes, States
<1> QED
  BY <1>1, <1>2

\* Every variable has its type in every state of the manager's run; above all
\* the slot of the seats read never holds more than SEAT_SLOT_CAP seats, nor
\* a seat twice (surf_swarm.coerce_seat_slot).
THEOREM SurfTypes == Spec => []TypeOK
<1>1. Init => SlotType /\ ChoiceTypes
  BY TypesInit
<1>2. SlotType /\ ChoiceTypes /\ IInv /\ [Next]_vars => SlotType' /\ ChoiceTypes'
  BY SlotStep, ChoiceStep
<1>3. SlotType /\ ChoiceTypes /\ IInv => TypeOK
  BY DEF SlotType, ChoiceTypes, IInv, TaskTypes, TypeOK
<1> QED
  BY <1>1, <1>2, <1>3, SurfInvariant, PTL DEF Spec
=============================================================================
