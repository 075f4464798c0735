----------------------------- MODULE SurfReads -----------------------------
(***************************************************************************)
(* The reads the Surf dashboard starts and does not wait for               *)
(* (src/maxpane_dashboard/data/surf_manager.py, surf_cache.py).            *)
(*                                                                         *)
(* A refresh cycle notes which tiers are due, awaits its fast reads, and   *)
(* starts a detached task for each slow tier that was due; the task marks  *)
(* its tier when it ends, long after.  The read of the selected seat is    *)
(* one of them: it belongs to one seat, the reader may pick another while  *)
(* it runs, and the next cycle then replaces it.  close() stops them all.  *)
(*                                                                         *)
(* Cycles do not overlap (RefreshGuard).  One event loop runs everything;  *)
(* a step here is what runs between two awaits.                            *)
(***************************************************************************)
EXTENDS Naturals, Sequences, SequencesExt

CONSTANTS
  Seats,     \* the seats a reader may pick
  NoSeat,    \* no seat picked, or none on the roster
  Early,     \* sweeps offered once the fast reads are in (launchpad, swarm, ...)
  Late,      \* sweeps offered after the gather (pool4)
  CloseOrder, \* the order in which close() stops the tasks
  SlotCap,   \* SEAT_SLOT_CAP, the seats whose record is kept
  MaxChanges \* bound: picks of the reader and changes of the roster

Sweeps == Early \cup Late
SeatTier == "seat"
Tiers == Sweeps \cup {SeatTier}

ASSUME SurfAssumption ==
  /\ NoSeat \notin Seats /\ SeatTier \notin Sweeps
  /\ SlotCap \in Nat \ {0} /\ MaxChanges \in Nat
  /\ CloseOrder \in Seq(Tiers)
  /\ \A t \in Tiers : \E k \in 1..Len(CloseOrder) : CloseOrder[k] = t

VARIABLES
  due,       \* the tiers whose next-due time has come
  held,      \* per tier: whether the manager holds a live task
  leaving,   \* per tier: tasks cancelled and not yet gone
  adrift,    \* per tier: live tasks the manager has lost hold of
  token,     \* _swarm_seat_task_token, while that task is live
  stage,     \* the seat task: "asking" for the seat, "following" it up
  stored,    \* SLOT_SWARM_SEAT: the seats with a record, most recently read first
  failed,    \* _seat_failed_token
  busy,      \* _seat_busy_token
  saved,     \* _seat_saved
  favourite, \* the most active seat of the roster
  changes,   \* how often saved or favourite have changed
  cycle,     \* "idle", "chain", "gather" or "replacing" the seat task
  caught,    \* the cycle's tiers
  snapshot,  \* the seats of the slot the cycle has captured
  target,    \* the seat the cycle is about to read
  shown,     \* what was last published of the selected seat
  closing,   \* 0, the place in CloseOrder of the task close() awaits, or Closed
  pick,      \* history: no read of the picked seat has ended since the pick
  noted,     \* history: a cycle has begun since the pick
  lastEnd,   \* history: how the last finished read of each seat ended
  crossed    \* history: a cycle ran while the manager was closing

tasks == <<held, leaving, adrift, token, stage>>
marks == <<failed, busy>>
choice == <<saved, favourite, changes>>
cycleVars == <<cycle, caught, snapshot, target>>
vars == <<due, tasks, stored, marks, choice, cycleVars, shown, closing, pick, noted,
          lastEnd, crossed>>

history == <<pick, noted, lastEnd, crossed>>

States == {"pending", "busy", "failed", "ok", "none"}
Ends == {"ok", "busy", "failed"}

\* choose_seat: the saved seat, even off the roster.
Selected == IF saved # NoSeat THEN saved ELSE favourite

Closed == Len(CloseOrder) + 1

-----------------------------------------------------------------------------
(***************************************************************************)
(* The reader and the roster.                                              *)
(***************************************************************************)
Changed == changes < MaxChanges /\ changes' = changes + 1

\* set_seat: the marks are forgotten and the tier is due.
SetSeat(s) ==
  /\ closing = 0 /\ Changed
  /\ saved' = s
  /\ failed' = NoSeat /\ busy' = NoSeat
  /\ due' = due \cup {SeatTier}
  /\ pick' = TRUE /\ noted' = FALSE
  /\ UNCHANGED <<tasks, stored, favourite, cycleVars, shown, closing, lastEnd, crossed>>

\* Another seat is the most active one; no one looks while a seat is saved.
RosterMoves(s) ==
  /\ closing = 0 /\ saved = NoSeat /\ Changed /\ s # favourite
  /\ favourite' = s
  /\ UNCHANGED <<due, tasks, stored, marks, saved, cycleVars, shown, closing, history>>

\* The time to live or the backoff of a tier has passed.
Elapse(t) ==
  /\ t \notin due
  /\ due' = due \cup {t}
  /\ UNCHANGED <<tasks, stored, marks, choice, cycleVars, shown, closing, history>>

-----------------------------------------------------------------------------
(***************************************************************************)
(* The cycle.                                                              *)
(***************************************************************************)
\* Mutant: a task in flight is not looked for.
FreeAlways(t) == TRUE

\* running is None or running.done()
Free(t) == ~held[t]

\* ensure_future, the handle overwritten.
Spawned(T) ==
  /\ held' = [t \in Tiers |-> held[t] \/ t \in T]
  /\ adrift' = [t \in Tiers |-> IF t \in T /\ held[t] THEN 1 ELSE adrift[t]]

\* One at a time, and only what was due when the cycle began.
SpawnDue(W) == Spawned({w \in W : w \in caught /\ Free(w)})

CycleBegins ==
  /\ cycle = "idle" /\ closing # Closed
  /\ cycle' = "chain" /\ caught' = due
  /\ crossed' = (crossed \/ closing # 0)
  /\ noted' = pick
  /\ UNCHANGED <<due, tasks, stored, marks, choice, snapshot, target, shown, closing,
                 pick, lastEnd>>

\* The fast reads are in: the slots are captured, then the sweeps offered.
ChainRead ==
  /\ cycle = "chain"
  /\ cycle' = "gather" /\ snapshot' = ToSet(stored)
  /\ SpawnDue(Early)
  /\ UNCHANGED <<due, leaving, token, stage, stored, marks, choice, caught, target,
                 shown, closing, history>>

\* What the captured slot and the marks say of a seat.
StateOf(s) ==
  CASE s = NoSeat     -> "none"
    [] s \in snapshot -> "ok"
    [] OTHER -> IF busy = s THEN "busy" ELSE IF failed = s THEN "failed" ELSE "pending"

\* Neither a record nor a failed read: not worth waiting out the time to live.
Unread(s) == s \notin snapshot /\ failed # s /\ busy # s

\* Mutant: the read in flight for the seat gives way to a new one.
NotForAny(s) == FALSE

InFlightFor(s) == token = s

StartSeat(s) == token' = s /\ stage' = "asking"

\* The cycle returns; its locals are gone.
Returns ==
  /\ cycle' = "idle" /\ caught' = {} /\ snapshot' = {} /\ target' = NoSeat

\* The keys are published; then the selected seat is offered its read.
Published ==
  /\ cycle = "gather"
  /\ shown' = StateOf(Selected)
  /\ UNCHANGED <<due, stored, marks, choice, closing, history>>

\* No seat, a read of this seat in flight, or nothing due.
LeaveSeat ==
  /\ Published
  /\ \/ Selected = NoSeat
     \/ ~Free(SeatTier) /\ InFlightFor(Selected)
     \/ Free(SeatTier) /\ SeatTier \notin caught /\ ~Unread(Selected)
  /\ SpawnDue(Late)
  /\ Returns
  /\ UNCHANGED <<leaving, token, stage>>

OfferSeat ==
  /\ Published
  /\ Selected # NoSeat /\ Free(SeatTier)
  /\ SeatTier \in caught \/ Unread(Selected)
  /\ Spawned({SeatTier} \cup {w \in Late : w \in caught /\ Free(w)})
  /\ StartSeat(Selected)
  /\ Returns
  /\ UNCHANGED leaving

\* _cancel_swarm_seat: the handle goes first, then the task.
CancelSeat == leaving' = [leaving EXCEPT ![SeatTier] = @ + 1] /\ UNCHANGED adrift

\* A read of another seat in flight: nothing would ever show its answer.
ReplaceSeat ==
  /\ Published
  /\ Selected # NoSeat /\ ~Free(SeatTier) /\ ~InFlightFor(Selected)
  /\ held' = [t \in Tiers |->
                t # SeatTier /\ (held[t] \/ (t \in Late \cap caught /\ Free(t)))]
  /\ CancelSeat
  /\ cycle' = "replacing" /\ target' = Selected /\ caught' = {} /\ snapshot' = {}
  /\ token' = NoSeat /\ stage' = "asking"

OldIsGone == leaving[SeatTier] = 0

\* Meanwhile the reader may have picked again.
Replaced ==
  /\ cycle = "replacing" /\ OldIsGone
  /\ Spawned({SeatTier}) /\ StartSeat(target)
  /\ Returns
  /\ UNCHANGED <<due, leaving, stored, marks, choice, shown, closing, history>>

-----------------------------------------------------------------------------
(***************************************************************************)
(* The tasks.                                                              *)
(***************************************************************************)
TaskEnds(t) == held' = [held EXCEPT ![t] = FALSE]

SeatEnds == TaskEnds(SeatTier) /\ token' = NoSeat /\ stage' = "asking"

\* A sweep ends fetched or failed: either way its tier is put off.
SweepEnds(w) ==
  /\ held[w]
  /\ TaskEnds(w) /\ due' = due \ {w}
  /\ UNCHANGED <<leaving, adrift, token, stage, stored, marks, choice, cycleVars,
                 shown, closing, history>>

\* A sweep raises: it is logged, and the tier stays as it was.
SweepRaises(w) ==
  /\ held[w]
  /\ TaskEnds(w)
  /\ UNCHANGED <<due, leaving, adrift, token, stage, stored, marks, choice, cycleVars,
                 shown, closing, history>>

\* The slot is a mapping: a seat read again gives up its old place.
Others(s) ==
  IF s \in ToSet(stored)
    THEN RemoveAt(stored, CHOOSE k \in DOMAIN stored : stored[k] = s)
    ELSE stored

\* Mutant: no seat is ever dropped.
KeptAll(s) == <<s>> \o Others(s)

\* coerce_seat_slot: most recently read first, the rest beyond the cap dropped.
Kept(s) ==
  LET order == <<s>> \o Others(s)
  IN SubSeq(order, 1, IF Len(order) <= SlotCap THEN Len(order) ELSE SlotCap)

\* fetch_seat has answered: its tier is put off, whatever became of due since.
Answered(end) ==
  /\ held[SeatTier] /\ stage = "asking"
  /\ due' = due \ {SeatTier}
  /\ pick' = (pick /\ saved # token)
  /\ lastEnd' = [lastEnd EXCEPT ![token] = end]
  /\ noted' = (noted /\ pick')
  /\ UNCHANGED <<leaving, adrift, choice, cycleVars, shown, closing, crossed>>

\* Mutant: a read that ends well leaves what was said of the seat.
MarksStay == UNCHANGED marks

\* Only the marks of this seat are taken back.
MarksCleared ==
  /\ failed' = IF failed = token THEN NoSeat ELSE failed
  /\ busy' = IF busy = token THEN NoSeat ELSE busy

\* A record or an unknown seat.  A record is followed up by reads of its owner,
\* rewards, answers, panels and jobs.
SeatRead ==
  /\ Answered("ok")
  /\ stored' = Kept(token)
  /\ MarksCleared
  /\ \/ SeatEnds
     \/ stage' = "following" /\ UNCHANGED <<held, token>>

\* Mutant: the failure is not held against the seat.
NotMarked(end) == UNCHANGED marks

Marked(end) ==
  /\ busy' = IF end = "busy" THEN token ELSE NoSeat
  /\ failed' = IF end = "failed" THEN token ELSE NoSeat

\* The host is shedding load, or there was no answer, or one of another seat.
SeatNotRead(end) ==
  /\ Answered(end)
  /\ Marked(end)
  /\ SeatEnds
  /\ UNCHANGED stored

SeatFollowed ==
  /\ held[SeatTier] /\ stage = "following"
  /\ SeatEnds
  /\ UNCHANGED <<due, leaving, adrift, stored, marks, choice, cycleVars,
                 shown, closing, history>>

\* A cancelled task has unwound.
Gone(t) ==
  /\ leaving[t] > 0
  /\ leaving' = [leaving EXCEPT ![t] = @ - 1]
  /\ UNCHANGED <<due, held, adrift, token, stage, stored, marks, choice, cycleVars,
                 shown, closing, history>>

-----------------------------------------------------------------------------
(***************************************************************************)
(* close(), one task after the other, each awaited.                        *)
(***************************************************************************)
Cancelled(t) ==
  IF held[t]
    THEN /\ held' = [held EXCEPT ![t] = FALSE]
         /\ leaving' = [leaving EXCEPT ![t] = @ + 1]
    ELSE UNCHANGED <<held, leaving>>

\* Mutant: the seat's read is left to itself.
StopSweepsOnly(t) ==
  IF t = SeatTier THEN UNCHANGED <<held, leaving, token, stage>>
  ELSE Cancelled(t) /\ UNCHANGED <<token, stage>>

Stop(t) ==
  /\ Cancelled(t)
  /\ IF t = SeatTier THEN token' = NoSeat /\ stage' = "asking"
     ELSE UNCHANGED <<token, stage>>

Close ==
  /\ closing = 0
  /\ closing' = 1 /\ Stop(CloseOrder[1])
  /\ crossed' = (cycle # "idle")
  /\ UNCHANGED <<due, adrift, stored, marks, choice, cycleVars, shown,
                 pick, noted, lastEnd>>

CloseNext ==
  /\ closing \in 1..Len(CloseOrder) /\ leaving[CloseOrder[closing]] = 0
  /\ closing' = closing + 1
  /\ IF closing' = Closed THEN UNCHANGED <<held, leaving, token, stage>>
     ELSE Stop(CloseOrder[closing'])
  /\ UNCHANGED <<due, adrift, stored, marks, choice, cycleVars, shown,
                 history>>

-----------------------------------------------------------------------------
\* The slots come from the file, the tiers are due, and a seat saved in the
\* configuration has yet to be read.
Init ==
  /\ due = Tiers
  /\ held = [t \in Tiers |-> FALSE] /\ leaving = [t \in Tiers |-> 0]
  /\ adrift = [t \in Tiers |-> 0]
  /\ token = NoSeat /\ stage = "asking"
  /\ stored \in {<<>>} \cup {<<s>> : s \in Seats}
  /\ failed = NoSeat /\ busy = NoSeat
  /\ saved \in Seats \cup {NoSeat} /\ changes = 0
  /\ favourite \in IF saved = NoSeat THEN Seats \cup {NoSeat} ELSE {NoSeat}
  /\ cycle = "idle" /\ caught = {} /\ snapshot = {} /\ target = NoSeat
  /\ shown = "none"
  /\ closing = 0 /\ pick = (saved # NoSeat) /\ noted = FALSE
  /\ lastEnd = [s \in Seats |-> "ok"] /\ crossed = FALSE

SeatAnswers == SeatRead \/ (\E end \in {"busy", "failed"} : SeatNotRead(end))

Cycle == CycleBegins \/ ChainRead \/ LeaveSeat \/ OfferSeat \/ ReplaceSeat \/ Replaced

Next ==
  \/ \E s \in Seats : SetSeat(s) \/ RosterMoves(s)
  \/ \E t \in Tiers : Elapse(t) \/ Gone(t)
  \/ \E w \in Sweeps : SweepEnds(w) \/ SweepRaises(w)
  \/ Cycle \/ SeatAnswers \/ SeatFollowed
  \/ Close \/ CloseNext

Spec == Init /\ [][Next]_vars

\* The poll timer keeps asking for a cycle, each of whose reads ends or times
\* out; so do those of a task; a cancelled task unwinds; time passes.
Fairness ==
  /\ WF_vars(Cycle)
  /\ WF_vars(SeatAnswers) /\ WF_vars(SeatFollowed)
  /\ \A t \in Tiers : WF_vars(Gone(t))
  /\ WF_vars(Elapse(SeatTier))

LiveSpec == Spec /\ Fairness

-----------------------------------------------------------------------------
\* Every variable has its type; a task that has a token reads a seat, and the
\* slot never holds more seats than it may, nor a seat twice.
TypeOK ==
  /\ due \subseteq Tiers /\ caught \subseteq Tiers
  /\ held \in [Tiers -> BOOLEAN]
  /\ leaving \in [Tiers -> Nat] /\ adrift \in [Tiers -> 0..1]
  /\ token \in Seats \cup {NoSeat} /\ stage \in {"asking", "following"}
  /\ stored \in Seq(Seats) /\ Len(stored) <= SlotCap /\ IsInjective(stored)
  /\ failed \in Seats \cup {NoSeat} /\ busy \in Seats \cup {NoSeat}
  /\ saved \in Seats \cup {NoSeat} /\ favourite \in Seats \cup {NoSeat}
  /\ changes \in 0..MaxChanges
  /\ cycle \in {"idle", "chain", "gather", "replacing"}
  /\ snapshot \subseteq Seats /\ target \in Seats \cup {NoSeat}
  /\ shown \in States
  /\ closing \in 0..Closed
  /\ pick \in BOOLEAN /\ noted \in BOOLEAN /\ crossed \in BOOLEAN
  /\ lastEnd \in [Seats -> Ends]
  /\ held[SeatTier] => token \in Seats
  /\ cycle = "replacing" => target \in Seats

\* No task is ever lost hold of: a read that still runs is the one close() and
\* the next cycle will find, whatever replaced it.
NoneAdrift == \A t \in Tiers : adrift[t] = 0

\* While the seat's read is replaced, the old one is gone before the new one
\* starts: two seats are never asked for at once.
OneSeatAsked == held[SeatTier] /\ closing = 0 => leaving[SeatTier] = 0

\* A seat is said to be busy or failed only if the last read of it that ended,
\* ended so, although one mark serves every seat and reads are cut short.
MarkIsLastRead ==
  \A s \in Seats : /\ failed = s => lastEnd[s] = "failed"
                   /\ busy = s => lastEnd[s] = "busy"

\* When close() has run no task is left, if no cycle crossed it: nothing reads
\* through a closed client or writes behind the saved file.
QuietWhenClosed ==
  closing = Closed /\ ~crossed =>
    \A t \in Tiers : ~held[t] /\ leaving[t] = 0 /\ adrift[t] = 0

\* A seat shown as pending is not left so: a record or a failure replaces it,
\* however the reader and the roster move, without a second try being needed.
PendingResolves == shown = "pending" ~> shown # "pending" \/ closing # 0

\* The seat the reader picks is read, although reads of other seats end and
\* put its tier off, and fail.
PickIsRead == pick ~> ~pick \/ closing # 0

-----------------------------------------------------------------------------
(***************************************************************************)
(* What the code says of itself and does not do.                           *)
(***************************************************************************)
\* "so a rate-limited host is not hammered": a sweep starts only while its
\* tier is due.  One that ends between the capture of the due tiers and the
\* offer is started again at once.
RetriesAreSpaced == [][\A w \in Sweeps : ~held[w] /\ held'[w] => w \in due]_vars

\* "Mark the seat tier due so the next cycle reads it": the read of another
\* seat ends first and puts the tier off.
NextCycleReads ==
  [][LeaveSeat /\ noted /\ pick /\ saved \in Seats => held[SeatTier] /\ token = saved]_vars

\* "Stop the detached sweeps": a cycle that was under way starts new ones.
QuietAlways ==
  closing = Closed => \A t \in Tiers : ~held[t] /\ leaving[t] = 0
=============================================================================
