--------------------------- MODULE FWASweepProofs ---------------------------
(***************************************************************************)
(* Proofs about FWASweep, for every length of the chain, lag of the nodes, *)
(* time to live and backoff.                                               *)
(***************************************************************************)
EXTENDS FWASweep, TLAPS

\* The pools are at work in a cycle only, and a start finds nothing set.
StepInv ==
  /\ (sweep.step # "none" \/ tail # "none") => pc = "cycle"
  /\ pc = "down" => wait = 0 /\ since = SweepBackoff /\ ~shown.fresh

\* A pinned block lags behind nothing that was known when the cycle began.
PinInv ==
  sweep.step = "pinned" => sweep.block > 0 /\ \A u \in knew : u <= sweep.block + HeadLag

\* What the cache holds as current passed its checks; behind a cycle it is
\* no older than any known update, in the next one than any known before.
SlotInv == ~slot.stale => slot.rows = "whole" /\ slot.block > 0
CycleInv == pc = "cycle" /\ ~slot.stale => \A u \in knew : u <= slot.block + HeadLag
IdleInv == pc = "idle" /\ ~slot.stale => \A u \in known : u <= slot.block

\* The cache, and behind a cycle the file, are as new as what was shown.
AgeInv == ~lost => best <= disk /\ (pc # "down" => best <= slot.block)

\* A failed sweep leaves the tier waiting for its backoff, or a newer update
\* leaves it due.
BackoffInv ==
  /\ pc = "idle" /\ Outdated(slot) => wait = 0
  /\ since < SweepBackoff /\ sweep.step = "none" =>
       since + wait >= SweepBackoff \/ (pc = "idle" /\ Outdated(slot))

IInv ==
  /\ TypeOK /\ StepInv /\ PinInv /\ SlotInv /\ CycleInv /\ IdleInv /\ AgeInv /\ BackoffInv
  /\ FreshIsWhole /\ FreshWithinLag /\ NeverShownOlder

-----------------------------------------------------------------------------
LEMMA InitInv == Init => IInv
<1> SUFFICES ASSUME Init PROVE IInv
  OBVIOUS
<1> USE SweepAssumption
<1>1. /\ Empty \in Slots /\ Empty.stale /\ Empty.block = 0
      /\ NoSweep \in [step : {"none", "asked", "pinned"}, block : 0..head]
      /\ Blank \in [block : 0..head, rows : Rows, fresh : BOOLEAN]
  BY DEF Init, Empty, NoSweep, Blank, Slots, Rows
<1>2. TypeOK
  <2>1. head \in 1..MaxBlock /\ updates \in SUBSET (1..head) /\ {} \in SUBSET (1..head)
    BY DEF Init
  <2>2. /\ seen \in 0..head /\ best \in 0..head /\ disk \in 0..head
        /\ starts \in 0..MaxStarts /\ since \in 0..SweepBackoff /\ wait \in 0..Longest
    BY DEF Init, Longest
  <2> QED
    BY <1>1, <2>1, <2>2 DEF Init, TypeOK
<1> QED
  BY <1>1, <1>2
  DEF Init, IInv, StepInv, PinInv, SlotInv, CycleInv, IdleInv, AgeInv, BackoffInv,
      FreshIsWhole, FreshWithinLag, NeverShownOlder, Outdated, NoSweep, Blank

\* The chain only grows.
LEMMA GrowInv == IInv /\ Grow => IInv'
<1> SUFFICES ASSUME IInv, Grow PROVE IInv'
  OBVIOUS
<1> USE SweepAssumption
<1>1. TypeOK'
  <2>1. head' = head + 1 /\ head' \in 1..MaxBlock /\ updates' \in SUBSET (1..head')
    BY DEF Grow, IInv, TypeOK
  <2> QED
    BY <2>1 DEF Grow, IInv, TypeOK, Slots, Longest, logVars, sweepVars, shownVars
<1> QED
  BY <1>1
  DEF Grow, IInv, StepInv, PinInv, SlotInv, CycleInv, IdleInv, AgeInv, BackoffInv,
      FreshIsWhole, FreshWithinLag, NeverShownOlder, Outdated, logVars, sweepVars, shownVars

LEMMA BeginInv == IInv /\ Begin => IInv'
<1> SUFFICES ASSUME IInv, Begin PROVE IInv'
  OBVIOUS
<1> USE SweepAssumption
<1>1. PICK d \in Delays : /\ wait' = IF wait > d THEN wait - d ELSE 0
                          /\ since' = IF since + d < SweepBackoff THEN since + d ELSE SweepBackoff
  BY DEF Begin
<1>2. wait \in Nat /\ since \in Nat /\ d \in Nat \ {0} /\ Longest \in Nat /\ wait <= Longest
  BY DEF IInv, TypeOK, Longest
<1>3. wait' \in 0..Longest /\ since' \in 0..SweepBackoff
  BY <1>1, <1>2
<1>4. TypeOK'
  BY <1>3 DEF Begin, IInv, TypeOK, Slots, Longest, NoSweep, chainVars, shownVars
<1>5. BackoffInv'
  <2>1. pc' = "cycle" /\ sweep' = (IF wait' = 0 THEN [NoSweep EXCEPT !.step = "asked"] ELSE NoSweep)
    BY DEF Begin
  <2>2. CASE wait' = 0
    BY <2>1, <2>2 DEF BackoffInv, NoSweep
  <2>3. CASE wait' # 0
    <3>1. wait' = wait - d /\ wait > d
      BY <1>1, <2>3
    <3>2. sweep.step = "none" /\ ~(pc = "idle" /\ Outdated(slot))
      BY <1>2, <3>1 DEF IInv, StepInv, BackoffInv, Begin
    <3>3. since' < SweepBackoff => since + wait >= SweepBackoff
      BY <1>1, <1>2, <3>2 DEF IInv, BackoffInv
    <3>4. since' < SweepBackoff => since' + wait' >= SweepBackoff
      BY <1>1, <1>2, <3>1, <3>3
    <3> QED
      BY <2>1, <3>4 DEF BackoffInv
  <2> QED
    BY <2>2, <2>3
<1> QED
  BY <1>4, <1>5
  DEF Begin, IInv, TypeOK, Slots, StepInv, PinInv, SlotInv, CycleInv, IdleInv, AgeInv,
      FreshIsWhole, FreshWithinLag, NeverShownOlder, NoSweep, chainVars, shownVars

\* The head a node names lags by no more than HeadLag behind all that is known.
LEMMA PinKeeps == IInv /\ Pin => IInv'
<1> SUFFICES ASSUME IInv, NEW b \in Heads, PinAt(b) PROVE IInv'
  BY DEF Pin
<1> USE SweepAssumption
<1>1. b \in 1..head /\ b + HeadLag >= head /\ head \in Nat
  BY DEF Heads, IInv, TypeOK
<1>2. \A u \in knew : u <= b + HeadLag
  BY <1>1 DEF IInv, TypeOK
<1>3. TypeOK'
  BY <1>1 DEF PinAt, IInv, TypeOK, Slots, Longest, chainVars, logVars, shownVars
<1> QED
  BY <1>1, <1>2, <1>3
  DEF PinAt, IInv, StepInv, PinInv, SlotInv, CycleInv, IdleInv, AgeInv, BackoffInv, Outdated,
      FreshIsWhole, FreshWithinLag, NeverShownOlder, chainVars, logVars, shownVars

\* However a sweep ends, what is published is checked and no older.
LEMMA SweepDoneInv ==
  IInv /\ (SweepGood \/ SweepMismatched \/ SweepFailed \/ SweepEmpty) => IInv'
<1> SUFFICES ASSUME IInv, SweepGood \/ SweepMismatched \/ SweepFailed \/ SweepEmpty
             PROVE  IInv'
  OBVIOUS
<1> USE SweepAssumption
<1>1. SweepDone /\ sweep.step # "none" /\ pc = "cycle" /\ pc' = "cycle"
  BY DEF SweepGood, SweepMismatched, SweepFailed, SweepEmpty, SweepDone, IInv, StepInv
<1>2. /\ ok' \in BOOLEAN
      /\ \/ wait' = SweepBackoff /\ since' = 0
         \/ wait' = SweepTtl /\ since' = SweepBackoff
  BY DEF SweepGood, SweepMismatched, SweepFailed, SweepEmpty, Failed, Backoff
<1>3. /\ slot' \in Slots /\ slot'.block >= slot.block
      /\ ~slot'.stale => \/ slot' = slot
                         \/ /\ slot'.rows = "whole" /\ slot'.block = sweep.block
                            /\ sweep.step = "pinned"
  <2>1. slot \in Slots /\ sweep.block \in 0..head /\ UNCHANGED head
    BY <1>1 DEF SweepDone, IInv, TypeOK, chainVars
  <2>2. slot.block \in 0..head /\ slot.rows \in Rows /\ "whole" \in Rows /\ "partial" \in Rows
    BY <2>1 DEF Slots, Rows
  <2>3. CASE SweepGood
    <3>1. CASE Accepted(sweep.block)
      <4>1. slot' = [block |-> sweep.block, rows |-> "whole", stale |-> FALSE]
        BY <2>3, <3>1 DEF SweepGood
      <4> QED
        BY <2>1, <2>2, <2>3, <3>1, <4>1 DEF SweepGood, Accepted, Slots
    <3>2. CASE ~Accepted(sweep.block)
      BY <2>1, <2>2, <2>3, <3>2 DEF SweepGood
    <3> QED
      BY <3>1, <3>2
  <2>4. CASE SweepMismatched
    <3>1. CASE Accepted(sweep.block)
      <4>1. slot' = [block |-> sweep.block, rows |-> "partial", stale |-> TRUE]
        BY <2>4, <3>1 DEF SweepMismatched
      <4> QED
        BY <2>1, <2>2, <3>1, <4>1 DEF Accepted, Slots
    <3>2. CASE ~Accepted(sweep.block)
      <4>1. slot' = [slot EXCEPT !.stale = TRUE]
        BY <2>4, <3>2 DEF SweepMismatched
      <4>2. slot' \in Slots
        BY <2>1, <4>1 DEF Slots
      <4>3. slot'.block = slot.block /\ slot'.stale
        BY <2>1, <4>1 DEF Slots
      <4> QED
        BY <2>2, <4>2, <4>3
    <3> QED
      BY <3>1, <3>2
  <2>5. CASE SweepFailed \/ SweepEmpty
    BY <2>1, <2>2, <2>5 DEF SweepFailed, SweepEmpty, Slots
  <2> QED
    BY <2>3, <2>4, <2>5
<1>4. TypeOK'
  BY <1>1, <1>2, <1>3
  DEF SweepDone, IInv, TypeOK, Slots, Longest, NoSweep, chainVars, logVars, shownVars
<1>5. SlotInv' /\ CycleInv'
  BY <1>1, <1>3 DEF IInv, SlotInv, CycleInv, PinInv, SweepDone
<1>6. AgeInv'
  BY <1>1, <1>3 DEF IInv, AgeInv, SweepDone, shownVars, Slots, TypeOK
<1>7. BackoffInv'
  BY <1>1, <1>2 DEF BackoffInv
<1> QED
  BY <1>1, <1>4, <1>5, <1>6, <1>7
  DEF SweepDone, IInv, StepInv, PinInv, IdleInv, FreshIsWhole, FreshWithinLag, NeverShownOlder,
      NoSweep, logVars, shownVars

LEMMA TailInv == IInv /\ (TailServed \/ TailFailed) => IInv'
<1> SUFFICES ASSUME IInv, TailServed \/ TailFailed PROVE IInv'
  OBVIOUS
<1> USE SweepAssumption
<1>1. /\ tail' = "none" /\ pc = "cycle"
      /\ UNCHANGED <<chainVars, pc, sweepVars, shownVars, starts, knew>>
  BY DEF TailServed, TailFailed, IInv, StepInv
<1>2. known' \in SUBSET (1..head) /\ seen' \in 0..head
  <2>1. known \in SUBSET (1..head) /\ updates \in SUBSET (1..head) /\ seen \in 0..head
    BY DEF IInv, TypeOK
  <2>2. CASE TailServed
    <3>1. PICK to \in Heads :
            /\ known' = known \cup {u \in updates : u <= to /\ (u >= seen \/ u = to)}
            /\ seen' = IF seen < to THEN to ELSE seen
      BY <2>2 DEF TailServed
    <3>2. to \in 1..head
      BY <3>1 DEF Heads
    <3>3. known' \in SUBSET (1..head)
      BY <2>1, <3>1
    <3>4. seen' \in 0..head
      BY <2>1, <3>1, <3>2
    <3> QED
      BY <3>3, <3>4
  <2>3. CASE TailFailed
    BY <2>1, <2>3 DEF TailFailed
  <2> QED
    BY <2>2, <2>3
<1>3. TypeOK'
  BY <1>1, <1>2 DEF IInv, TypeOK, Slots, Longest, chainVars, sweepVars, shownVars
<1> QED
  BY <1>1, <1>3
  DEF IInv, StepInv, PinInv, SlotInv, CycleInv, IdleInv, AgeInv, BackoffInv,
      FreshIsWhole, FreshWithinLag, NeverShownOlder, chainVars, sweepVars, shownVars

\* The payload takes over what the cache held, and the cache what is known.
LEMMA EndCycleInv == IInv /\ EndCycle => IInv'
<1> SUFFICES ASSUME IInv, EndCycle PROVE IInv'
  OBVIOUS
<1> USE SweepAssumption
<1>1. /\ pc = "cycle" /\ pc' = "idle" /\ sweep.step = "none" /\ tail = "none"
      /\ slot' = Noted(slot) /\ wait' = DueAfter(wait)
      /\ shown' = [block |-> slot.block, rows |-> slot.rows, fresh |-> ~slot.stale /\ ok]
      /\ best' = IF slot.rows # "none" /\ slot.block > best THEN slot.block ELSE best
      /\ \/ disk' = slot.block /\ UNCHANGED lost
         \/ UNCHANGED disk /\ lost' = TRUE
      /\ UNCHANGED <<chainVars, logVars, sweep, ok, since, starts, knew>>
  BY DEF EndCycle, Saved
<1>2. slot \in Slots /\ ok \in BOOLEAN /\ known \in SUBSET (1..head) /\ head \in Nat
  BY DEF IInv, TypeOK
<1>3. /\ slot' \in Slots /\ slot'.block = slot.block /\ slot'.rows = slot.rows
      /\ ~slot'.stale => ~slot.stale /\ ~Outdated(slot)
  BY <1>1, <1>2 DEF Noted, Slots
<1>4. Outdated(slot)' <=> Outdated(slot)
  BY <1>1, <1>3 DEF Outdated, logVars
<1>5. TypeOK'
  <2>1. shown' \in [block : 0..head', rows : Rows, fresh : BOOLEAN]
    BY <1>1, <1>2 DEF Slots, chainVars
  <2>2. best' \in 0..head' /\ disk' \in 0..head' /\ lost' \in BOOLEAN
    BY <1>1, <1>2 DEF Slots, chainVars, IInv, TypeOK
  <2>3. wait' \in 0..Longest
    BY <1>1 DEF DueAfter, IInv, TypeOK, Longest
  <2> QED
    BY <1>1, <1>3, <2>1, <2>2, <2>3 DEF IInv, TypeOK, Slots, chainVars, logVars
<1>6. SlotInv' /\ CycleInv' /\ FreshIsWhole'
  BY <1>1, <1>2, <1>3 DEF IInv, SlotInv, CycleInv, FreshIsWhole
<1>7. IdleInv'
  BY <1>1, <1>2, <1>3 DEF IInv, SlotInv, IdleInv, Outdated, Slots, logVars
<1>8. FreshWithinLag'
  BY <1>1, <1>2 DEF IInv, CycleInv, FreshWithinLag
<1>9. AgeInv' /\ NeverShownOlder'
  BY <1>1, <1>2, <1>3 DEF IInv, AgeInv, NeverShownOlder, TypeOK, Slots
<1>10. BackoffInv'
  BY <1>1, <1>4 DEF IInv, BackoffInv, DueAfter
<1> QED
  BY <1>1, <1>5, <1>6, <1>7, <1>8, <1>9, <1>10
  DEF IInv, StepInv, PinInv, logVars

\* What is written and read back is as new as what was shown.
LEMMA DownInv == IInv /\ (Close \/ Crash) => IInv'
<1> SUFFICES ASSUME IInv, Close \/ Crash PROVE IInv'
  OBVIOUS
<1> USE SweepAssumption
<1>1. Down /\ (Saved(slot) \/ UNCHANGED <<disk, lost>>)
  BY DEF Close, Crash
<1>2. TypeOK'
  <2>1. head \in Nat /\ Empty \in Slots /\ slot.block \in 0..head
    BY DEF IInv, TypeOK, Empty, Slots, Rows
  <2>2. disk' \in 0..head /\ lost' \in BOOLEAN
    BY <1>1, <2>1 DEF Saved, IInv, TypeOK
  <2>3. NoSweep \in [step : {"none", "asked", "pinned"}, block : 0..head]
    BY <2>1 DEF NoSweep
  <2>4. Blank \in [block : 0..head, rows : Rows, fresh : BOOLEAN]
    BY <2>1 DEF Blank, Rows
  <2> QED
    BY <1>1, <2>1, <2>2, <2>3, <2>4 DEF Down, IInv, TypeOK, Slots, Longest, chainVars
<1>3. AgeInv'
  BY <1>1 DEF Down, Saved, IInv, AgeInv
<1> QED
  BY <1>1, <1>2, <1>3
  DEF Down, IInv, StepInv, PinInv, SlotInv, CycleInv, IdleInv, BackoffInv,
      FreshIsWhole, FreshWithinLag, NeverShownOlder, Outdated, NoSweep, Empty, Blank

LEMMA RestartInv == IInv /\ Restart => IInv'
<1> SUFFICES ASSUME IInv, Restart PROVE IInv'
  OBVIOUS
<1> USE SweepAssumption
<1>1. /\ pc = "down" /\ pc' = "idle"
      /\ UNCHANGED <<chainVars, tail, sweep, ok, wait, since, shown, disk, best, knew>>
      /\ slot'.stale /\ slot' \in Slots /\ lost' \in BOOLEAN
      /\ ~lost' => ~lost /\ slot'.block = disk
  <2>1. disk \in 0..head /\ head \in Nat /\ lost \in BOOLEAN
    BY DEF IInv, TypeOK
  <2>2. CASE slot' = Restored(disk) /\ UNCHANGED lost
    BY <2>1, <2>2 DEF Restart, Restored, Empty, Slots, Rows
  <2>3. CASE slot' = Empty /\ lost' = TRUE
    BY <2>1, <2>3 DEF Restart, Empty, Slots, Rows
  <2> QED
    BY <2>2, <2>3 DEF Restart
<1>2. TypeOK'
  BY <1>1 DEF Restart, IInv, TypeOK, Slots, Longest, chainVars
<1>3. wait = 0 /\ since = SweepBackoff /\ sweep.step = "none" /\ tail = "none" /\ ~shown.fresh
  BY <1>1 DEF IInv, StepInv, TypeOK
<1> QED
  BY <1>1, <1>2, <1>3
  DEF IInv, StepInv, PinInv, SlotInv, CycleInv, IdleInv, AgeInv, BackoffInv,
      FreshIsWhole, FreshWithinLag, NeverShownOlder

\* Steps that change nothing.
LEMMA StutterInv == IInv /\ UNCHANGED vars => IInv'
  BY DEF vars, chainVars, logVars, sweepVars, shownVars, IInv, TypeOK, StepInv, PinInv, SlotInv,
         CycleInv, IdleInv, AgeInv, BackoffInv, FreshIsWhole, FreshWithinLag, NeverShownOlder,
         Outdated, Slots, Longest

-----------------------------------------------------------------------------
\* The invariant of the board: types, what the cache may call current at each
\* step of a cycle, and what the file and the due time remember of it.
THEOREM SweepInvariant == Spec => []IInv
<1>1. IInv /\ [Next]_vars => IInv'
  BY GrowInv, BeginInv, PinKeeps, SweepDoneInv, TailInv, EndCycleInv, DownInv, RestartInv,
     StutterInv
  DEF Next
<1> QED
  BY <1>1, InitInv, PTL DEF Spec

\* No sweep, slot, file or payload is of a block the chain has not reached.
THEOREM SweepTypes == Spec => []TypeOK
  BY SweepInvariant, PTL DEF IInv

\* What is shown as current is all of a sweep that passed its checks.
THEOREM CurrentIsWhole == Spec => []FreshIsWhole
  BY SweepInvariant, PTL DEF IInv

\* What was known when a cycle began is in what it shows as current, up to the
\* lag between the nodes.
THEOREM CurrentWithinLag == Spec => []FreshWithinLag
  BY SweepInvariant, PTL DEF IInv

\* The board never walks backwards, over restarts, while the files are kept.
THEOREM BoardNeverOlder == Spec => []NeverShownOlder
  BY SweepInvariant, PTL DEF IInv

\* A failed sweep is not repeated before its backoff without a newer update.
THEOREM FailuresBackOff == Spec => BackoffUnlessUpdated
<1>1. IInv /\ [Next]_vars
        => [Begin /\ sweep'.step = "asked" /\ since' < SweepBackoff => Outdated(slot)]_vars
  <2> SUFFICES ASSUME IInv, Begin, sweep'.step = "asked", since' < SweepBackoff
               PROVE  Outdated(slot)
    OBVIOUS
  <2>1. PICK d \in Delays : /\ wait' = IF wait > d THEN wait - d ELSE 0
                            /\ since' = IF since + d < SweepBackoff THEN since + d ELSE SweepBackoff
    BY DEF Begin
  <2>2. wait \in Nat /\ since \in Nat /\ d \in Nat \ {0} /\ SweepBackoff \in Nat
    BY SweepAssumption DEF IInv, TypeOK, Longest
  <2>3. wait' = 0
    BY DEF Begin, NoSweep
  <2>4. since + wait < SweepBackoff /\ since < SweepBackoff
    BY <2>1, <2>2, <2>3
  <2> QED
    BY <2>2, <2>4 DEF IInv, StepInv, BackoffInv, Begin
<1> QED
  BY <1>1, SweepInvariant, PTL DEF Spec, BackoffUnlessUpdated
=============================================================================
