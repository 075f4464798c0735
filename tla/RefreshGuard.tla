---------------------------- MODULE RefreshGuard ----------------------------
(***************************************************************************)
(* When a dashboard fetches: the refresh guard of the screens              *)
(* (src/maxpane_dashboard/screens/refresh_guard.py, dashboard_screen.py)   *)
(* and the prefetch, navigation and shutdown of the app (app.py).          *)
(*                                                                         *)
(* A screen fetches from its own manager when it is resumed, on every tick *)
(* of its interval timer and on the key "r".  The app prefetches from the  *)
(* manager of the initial game.  One event loop runs everything; a step    *)
(* here is what runs between two awaits.                                   *)
(*                                                                         *)
(* Textual is external: it resumes the screen that comes to the top,       *)
(* suspends the one that leaves it, and each screen handles these messages *)
(* in the order they were posted.                                          *)
(***************************************************************************)
EXTENDS Naturals, Sequences

CONSTANTS
  Screens,  \* the dashboards, each with a manager of its own
  MaxMail   \* bound: lifecycle messages a screen has yet to handle

ASSUME ScreenAssumption == "menu" \notin Screens /\ MaxMail \in Nat

VARIABLES
  app,       \* "running", "closing" (inside action_quit) or "exited"
  top,       \* the screen on top, or Menu
  mail,      \* per screen: lifecycle messages not yet handled
  timers,    \* per screen: live interval timers
  timer,     \* per screen: whether _refresh_timer names one
  inFlight,  \* per screen: _refresh_in_flight
  worker,    \* per screen: where its refresh worker is
  cancelled, \* the screens whose worker has been asked to stop
  prefetch   \* "pending", "running" or "done"

screenVars == <<mail, timers, timer>>
vars == <<app, top, screenVars, inFlight, worker, cancelled, prefetch>>

Menu == "menu"
MaxTimers == 2  \* bound: timers a screen is followed to leak

\* A worker is started, waits for the prefetch to start or to finish, fetches.
WorkerStates == {"none", "scheduled", "yielding", "joining", "fetching"}

Set(f, s, v) == [f EXCEPT ![s] = v]

-----------------------------------------------------------------------------
(***************************************************************************)
(* The guard.                                                              *)
(***************************************************************************)
\* Skip, never queue; the flag is up before the worker runs.
StartRefresh(s) ==
  IF inFlight[s] THEN UNCHANGED <<inFlight, worker>>
  ELSE /\ inFlight' = Set(inFlight, s, TRUE)
       /\ worker' = Set(worker, s, "scheduled")

\* Mutant: the refresh does not wait for the prefetch.
FetchAtOnce(s) == worker' = Set(worker, s, "fetching")

\* Past the prefetch, or behind it, whoever's manager it is for.
JoinOrFetch(s) ==
  worker' = Set(worker, s, IF prefetch = "running" THEN "joining" ELSE "fetching")

Begin(s) ==
  /\ worker[s] = "scheduled" /\ s \notin cancelled
  /\ IF prefetch = "pending"
       THEN worker' = Set(worker, s, "yielding")
       ELSE JoinOrFetch(s)
  /\ UNCHANGED <<app, top, screenVars, inFlight, cancelled, prefetch>>

\* One iteration of the loop later the prefetch is no longer pending.
Yielded(s) ==
  /\ worker[s] = "yielding" /\ s \notin cancelled /\ prefetch # "pending"
  /\ JoinOrFetch(s)
  /\ UNCHANGED <<app, top, screenVars, inFlight, cancelled, prefetch>>

Joined(s) ==
  /\ worker[s] = "joining" /\ s \notin cancelled /\ prefetch = "done"
  /\ worker' = Set(worker, s, "fetching")
  /\ UNCHANGED <<app, top, screenVars, inFlight, cancelled, prefetch>>

LowerFlag(s) ==
  /\ worker' = Set(worker, s, "none")
  /\ inFlight' = Set(inFlight, s, FALSE)

Refreshed(s) ==
  /\ worker[s] = "fetching" /\ s \notin cancelled
  /\ LowerFlag(s)
  /\ UNCHANGED <<app, top, screenVars, cancelled, prefetch>>

\* Mutant: only a refresh that ends well lowers the flag.
FlagStaysUp(s) ==
  /\ worker[s] = "fetching" /\ s \notin cancelled
  /\ worker' = Set(worker, s, "none")
  /\ UNCHANGED <<app, top, screenVars, inFlight, cancelled, prefetch>>

\* The refresh raises.
RefreshFailed(s) ==
  /\ worker[s] = "fetching" /\ s \notin cancelled
  /\ LowerFlag(s)
  /\ UNCHANGED <<app, top, screenVars, cancelled, prefetch>>

\* Mutant: the wait for the prefetch swallows the cancellation of the waiter.
CancelSwallowed(s) ==
  /\ worker[s] = "joining"
  /\ worker' = Set(worker, s, "fetching")
  /\ UNCHANGED inFlight

\* _join lets the cancellation of the waiter through.
JoinCancelled(s) == worker[s] = "joining" /\ LowerFlag(s)

\* The cancellation arrives at the worker's await.  A coroutine that never ran
\* has no finally to run: its flag stays up.
Cancelled(s) ==
  /\ s \in cancelled
  /\ \/ /\ worker[s] = "scheduled"
        /\ worker' = Set(worker, s, "none")
        /\ UNCHANGED inFlight
     \/ worker[s] \in {"yielding", "fetching"} /\ LowerFlag(s)
     \/ JoinCancelled(s)
  /\ cancelled' = cancelled \ {s}
  /\ UNCHANGED <<app, top, screenVars, prefetch>>

-----------------------------------------------------------------------------
(***************************************************************************)
(* The screen's handlers.                                                  *)
(***************************************************************************)
Handled(s, m) == mail[s] # <<>> /\ Head(mail[s]) = m /\ mail' = Set(mail, s, Tail(mail[s]))

\* on_screen_resume
Resume(s) ==
  /\ app # "exited" /\ Handled(s, "resume")
  /\ StartRefresh(s)
  /\ timers' = Set(timers, s, IF timers[s] < MaxTimers THEN timers[s] + 1 ELSE timers[s])
  /\ timer' = Set(timer, s, TRUE)
  /\ UNCHANGED <<app, top, cancelled, prefetch>>

\* Mutant: the handle is dropped, the timer goes on.
HandleDropped(s) == timer' = Set(timer, s, FALSE) /\ UNCHANGED timers

StopTimer(s) ==
  /\ timer' = Set(timer, s, FALSE)
  /\ timers' = IF timer[s] THEN Set(timers, s, timers[s] - 1) ELSE timers

\* on_screen_suspend; a refresh in flight goes on.
Suspend(s) ==
  /\ app # "exited" /\ Handled(s, "suspend")
  /\ StopTimer(s)
  /\ UNCHANGED <<app, top, inFlight, worker, cancelled, prefetch>>

Tick(s) ==
  /\ app # "exited" /\ timers[s] > 0
  /\ StartRefresh(s)
  /\ UNCHANGED <<app, top, screenVars, cancelled, prefetch>>

\* action_refresh, the key "r"
Key(s) ==
  /\ app = "running" /\ top = s
  /\ StartRefresh(s)
  /\ UNCHANGED <<app, top, screenVars, cancelled, prefetch>>

-----------------------------------------------------------------------------
(***************************************************************************)
(* The app.                                                                *)
(***************************************************************************)
Posted(s, m) == Len(mail[s]) < MaxMail /\ mail' = Set(mail, s, Append(mail[s], m))

\* A game is selected in the menu.
Launch(s) ==
  /\ app = "running" /\ top = Menu
  /\ top' = s /\ Posted(s, "resume")
  /\ UNCHANGED <<app, timers, timer, inFlight, worker, cancelled, prefetch>>

\* action_switch_game, the key "tab"; any other screen may be the next one.
Switch(s) ==
  /\ app = "running" /\ top \in Screens \ {s}
  /\ Len(mail[s]) < MaxMail /\ Len(mail[top]) < MaxMail
  /\ mail' = [mail EXCEPT ![top] = Append(@, "suspend"), ![s] = Append(@, "resume")]
  /\ top' = s
  /\ UNCHANGED <<app, timers, timer, inFlight, worker, cancelled, prefetch>>

\* action_show_menu, the key "m"
ShowMenu ==
  /\ app = "running" /\ top \in Screens
  /\ Posted(top, "suspend") /\ top' = Menu
  /\ UNCHANGED <<app, timers, timer, inFlight, worker, cancelled, prefetch>>

PrefetchBegins ==
  /\ prefetch = "pending" /\ prefetch' = "running"
  /\ UNCHANGED <<app, top, screenVars, inFlight, worker, cancelled>>

\* It has fetched, failed or been cancelled.
PrefetchEnds ==
  /\ prefetch = "running" /\ prefetch' = "done"
  /\ UNCHANGED <<app, top, screenVars, inFlight, worker, cancelled>>

\* action_quit closes the managers, one await after the other: keys wait,
\* timers and workers do not.
Quit ==
  /\ app = "running" /\ app' = "closing"
  /\ UNCHANGED <<top, screenVars, inFlight, worker, cancelled, prefetch>>

\* Then the app exits, and every worker is cancelled.
Exit ==
  /\ app = "closing" /\ app' = "exited"
  /\ cancelled' = {s \in Screens : worker[s] # "none"}
  /\ UNCHANGED <<top, screenVars, inFlight, worker, prefetch>>

Init ==
  /\ app = "running" /\ top = Menu
  /\ mail = [s \in Screens |-> <<>>]
  /\ timers = [s \in Screens |-> 0] /\ timer = [s \in Screens |-> FALSE]
  /\ inFlight = [s \in Screens |-> FALSE]
  /\ worker = [s \in Screens |-> "none"]
  /\ cancelled = {}
  /\ prefetch \in {"pending", "done"}

WorkerStep(s) ==
  Begin(s) \/ Yielded(s) \/ Joined(s) \/ Refreshed(s) \/ RefreshFailed(s) \/ Cancelled(s)

Next ==
  \/ \E s \in Screens :
       WorkerStep(s) \/ Resume(s) \/ Suspend(s) \/ Tick(s) \/ Key(s) \/ Launch(s) \/ Switch(s)
  \/ ShowMenu \/ PrefetchBegins \/ PrefetchEnds \/ Quit \/ Exit

Spec == Init /\ [][Next]_vars

\* The loop runs what is ready, requests are answered or time out, messages
\* are handled and timers tick.  Nobody has to press a key.
Fairness ==
  /\ WF_vars(PrefetchBegins) /\ WF_vars(PrefetchEnds)
  /\ \A s \in Screens :
       /\ WF_vars(WorkerStep(s))
       /\ WF_vars(Resume(s) \/ Suspend(s))
       /\ WF_vars(Tick(s))

LiveSpec == Spec /\ Fairness

-----------------------------------------------------------------------------
\* Every variable has its type.
TypeOK ==
  /\ app \in {"running", "closing", "exited"}
  /\ top \in Screens \cup {Menu}
  /\ mail \in [Screens -> Seq({"resume", "suspend"})]
  /\ timers \in [Screens -> 0..MaxTimers] /\ timer \in [Screens -> BOOLEAN]
  /\ inFlight \in [Screens -> BOOLEAN] /\ worker \in [Screens -> WorkerStates]
  /\ cancelled \subseteq Screens
  /\ prefetch \in {"pending", "running", "done"}

\* A manager is fetched from once at a time: neither does a screen fetch while
\* the prefetch runs, nor is a refresh running that the guard does not know of
\* and a tick could start a second one beside.
OneFetchPerManager ==
  /\ prefetch # "done" => \A s \in Screens : worker[s] # "fetching"
  /\ \A s \in Screens : worker[s] # "none" => inFlight[s]

\* The flag of a screen is up only while a worker is there to lower it, unless
\* the app has exited.
NeverWedged ==
  app # "exited" => \A s \in Screens : inFlight[s] => worker[s] # "none"

\* However fast the user navigates, a screen polls with one timer while it is
\* on top and with none when it is not.
OneTimer ==
  \A s \in Screens :
    /\ timers[s] <= 1
    /\ app # "exited" /\ mail[s] = <<>> => (timers[s] = 1 <=> top = s)

\* Once the app has exited no refresh begins to fetch.
NoFetchAfterExit ==
  [][app = "exited" =>
       \A s \in Screens : worker'[s] = "fetching" => worker[s] = "fetching"]_vars

\* What makes the first three inductive.
AllAsked ==
  /\ cancelled # {} => app = "exited"
  /\ app = "exited" => \A s \in Screens : worker[s] # "none" => s \in cancelled

NamedTimers == \A s \in Screens : timer[s] => timers[s] > 0

GuardInv == TypeOK /\ NamedTimers /\ OneFetchPerManager /\ NeverWedged /\ AllAsked

\* A refresh comes to its end however often the timer ticks meanwhile.
RefreshEnds == \A s \in Screens : worker[s] # "none" ~> worker[s] = "none"

\* The screen the user stays on fetches again and again, whether its refreshes
\* fail or not.
KeepsRefreshing ==
  \A s \in Screens :
    <>[](top = s /\ app = "running") => []<>(worker[s] = "fetching")

\* A screen the user has left for good stops fetching.
HiddenScreenStops ==
  \A s \in Screens : <>[](top # s) => <>[](worker[s] = "none")
=============================================================================
