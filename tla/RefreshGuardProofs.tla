------------------------- MODULE RefreshGuardProofs -------------------------
(***************************************************************************)
(* Proofs about RefreshGuard, for any number of screens: one fetch per     *)
(* manager at a time, no screen wedged, no fetch after the app has exited, *)
(* and one timer.  GuardInv is inductive; a step of a screen's worker or   *)
(* handlers changes the flag and the worker of that screen only.  With     *)
(* TimerInv it is inductive about the timers and the unread messages too.  *)
(***************************************************************************)
EXTENDS RefreshGuard, SequenceTheorems, TLAPS

USE DEF Set

LEMMA InitGuardInv == Init => GuardInv
<1> SUFFICES ASSUME Init PROVE GuardInv
  OBVIOUS
<1>1. mail \in [Screens -> Seq({"resume", "suspend"})]
  BY DEF Init
<1>2. TypeOK
  BY <1>1 DEF Init, TypeOK, MaxTimers, WorkerStates
<1>3. OneFetchPerManager /\ NeverWedged /\ AllAsked /\ NamedTimers
  BY DEF Init, OneFetchPerManager, NeverWedged, AllAsked, NamedTimers
<1>4. QED
  BY <1>2, <1>3 DEF GuardInv

\* A worker that steps keeps the invariant.
LEMMA WorkerStepKeepsInv ==
  ASSUME GuardInv, NEW s \in Screens, WorkerStep(s)
  PROVE  GuardInv'
<1>0. /\ worker \in [Screens -> WorkerStates] /\ inFlight \in [Screens -> BOOLEAN]
      /\ app \in {"running", "closing", "exited"}
      /\ prefetch \in {"pending", "running", "done"}
  BY DEF GuardInv, TypeOK, AllAsked
<1>1. CASE Begin(s) \/ Yielded(s) \/ Joined(s)
  <2>1. PICK w \in {"yielding", "joining", "fetching"} :
          /\ worker' = [worker EXCEPT ![s] = w]
          /\ w = "fetching" => prefetch # "running"
          /\ w = "fetching" => prefetch # "pending"
    BY <1>1 DEF Begin, Yielded, Joined, JoinOrFetch
  <2>2. /\ worker[s] # "none" /\ s \notin cancelled
        /\ UNCHANGED <<app, top, mail, timers, timer, inFlight, cancelled, prefetch>>
    BY <1>1 DEF Begin, Yielded, Joined, screenVars
  <2>3. TypeOK' /\ NamedTimers'
    BY <1>0, <2>1, <2>2 DEF GuardInv, TypeOK, NamedTimers, WorkerStates
  <2>4. \A t \in Screens :
          /\ worker'[t] # "none" <=> worker[t] # "none"
          /\ worker'[t] = "fetching" => prefetch = "done" \/ worker[t] = "fetching"
    <3>1. /\ worker'[s] = w /\ w # "none"
          /\ w = "fetching" => prefetch = "done"
          /\ \A t \in Screens \ {s} : worker'[t] = worker[t]
      BY <1>0, <2>1
    <3> QED BY <2>2, <3>1
  <2>5. OneFetchPerManager'
    <3>1. ASSUME prefetch # "done", NEW t \in Screens PROVE worker'[t] # "fetching"
      BY <2>4, <3>1 DEF GuardInv, OneFetchPerManager
    <3>2. ASSUME NEW t \in Screens, worker'[t] # "none" PROVE inFlight[t]
      BY <2>4, <3>2 DEF GuardInv, OneFetchPerManager
    <3> QED BY <2>2, <3>1, <3>2 DEF OneFetchPerManager
  <2>6. NeverWedged'
    <3>1. ASSUME app # "exited", NEW t \in Screens, inFlight[t] PROVE worker'[t] # "none"
      BY <2>4, <3>1 DEF GuardInv, NeverWedged
    <3> QED BY <2>2, <3>1 DEF NeverWedged
  <2>7. AllAsked'
    <3>1. ASSUME app = "exited", NEW t \in Screens, worker'[t] # "none" PROVE t \in cancelled
      BY <2>4, <3>1 DEF GuardInv, AllAsked
    <3> QED BY <2>2, <3>1 DEF GuardInv, AllAsked
  <2> QED BY <2>3, <2>5, <2>6, <2>7 DEF GuardInv
<1>4. CASE Refreshed(s) \/ RefreshFailed(s)
  <2>1. /\ worker' = [worker EXCEPT ![s] = "none"] /\ inFlight' = [inFlight EXCEPT ![s] = FALSE]
        /\ UNCHANGED <<app, top, mail, timers, timer, cancelled, prefetch>>
    BY <1>4 DEF Refreshed, RefreshFailed, LowerFlag, screenVars
  <2>2. TypeOK' /\ NamedTimers'
    BY <1>0, <2>1 DEF GuardInv, TypeOK, NamedTimers, WorkerStates
  <2>3. /\ worker'[s] = "none" /\ ~inFlight'[s]
        /\ \A t \in Screens \ {s} : worker'[t] = worker[t] /\ inFlight'[t] = inFlight[t]
    BY <1>0, <2>1
  <2>4. OneFetchPerManager' /\ NeverWedged' /\ AllAsked'
    BY <2>1, <2>3 DEF GuardInv, OneFetchPerManager, NeverWedged, AllAsked
  <2> QED BY <2>2, <2>4 DEF GuardInv
<1>5. CASE Cancelled(s)
  <2>1. app = "exited" /\ app' = "exited"
    BY <1>5 DEF Cancelled, GuardInv, AllAsked
  <2>2. /\ worker' = [worker EXCEPT ![s] = "none"]
        /\ \/ inFlight' = inFlight
           \/ inFlight' = [inFlight EXCEPT ![s] = FALSE]
        /\ cancelled' = cancelled \ {s}
        /\ UNCHANGED <<app, top, mail, timers, timer, prefetch>>
    BY <1>5 DEF Cancelled, JoinCancelled, LowerFlag, screenVars
  <2>3. TypeOK'
    BY <2>2 DEF GuardInv, TypeOK, WorkerStates
  <2>4. OneFetchPerManager' /\ NeverWedged' /\ AllAsked' /\ NamedTimers'
    BY <2>1, <2>2
    DEF GuardInv, TypeOK, OneFetchPerManager, NeverWedged, AllAsked, NamedTimers
  <2>5. QED
    BY <2>3, <2>4 DEF GuardInv
<1>6. QED
  BY <1>1, <1>4, <1>5 DEF WorkerStep

\* So does the guard, whoever asks for a refresh before the app has exited.
LEMMA StartKeepsInv ==
  ASSUME GuardInv, app # "exited", NEW s \in Screens, StartRefresh(s),
         mail' \in [Screens -> Seq({"resume", "suspend"})],
         timers' \in [Screens -> 0..MaxTimers], timer' \in [Screens -> BOOLEAN],
         NamedTimers', UNCHANGED <<app, top, cancelled, prefetch>>
  PROVE  GuardInv'
<1>1. TypeOK'
  BY DEF StartRefresh, GuardInv, TypeOK, WorkerStates
<1>2. OneFetchPerManager' /\ NeverWedged' /\ AllAsked'
  <2>1. CASE inFlight[s]
    BY <2>1 DEF StartRefresh, GuardInv, OneFetchPerManager, NeverWedged, AllAsked
  <2>2. CASE ~inFlight[s]
    <3>1. /\ inFlight' = [inFlight EXCEPT ![s] = TRUE]
          /\ worker' = [worker EXCEPT ![s] = "scheduled"]
      BY <2>2 DEF StartRefresh
    <3>2. /\ worker'[s] = "scheduled" /\ inFlight'[s]
          /\ \A t \in Screens \ {s} : worker'[t] = worker[t] /\ inFlight'[t] = inFlight[t]
      BY <3>1 DEF GuardInv, TypeOK
    <3> QED BY <3>2 DEF GuardInv, OneFetchPerManager, NeverWedged, AllAsked
  <2> QED BY <2>1, <2>2
<1>3. QED
  BY <1>1, <1>2 DEF GuardInv

\* What leaves flags, workers, prefetch and exit alone keeps it.
LEMMA OtherKeepsInv ==
  ASSUME GuardInv, TypeOK', NamedTimers', UNCHANGED <<inFlight, worker, cancelled, prefetch>>,
         (app' = "exited") <=> (app = "exited")
  PROVE  GuardInv'
BY DEF GuardInv, OneFetchPerManager, NeverWedged, AllAsked

\* Messages stay messages.
LEMMA MailTypes ==
  ASSUME NEW S, NEW f \in [Screens -> Seq(S)], NEW s \in Screens
  PROVE  /\ \A m \in S : [f EXCEPT ![s] = Append(f[s], m)] \in [Screens -> Seq(S)]
         /\ f[s] # <<>> => [f EXCEPT ![s] = Tail(f[s])] \in [Screens -> Seq(S)]
<1>1. f[s] \in Seq(S)
  OBVIOUS
<1>2. \A m \in S : Append(f[s], m) \in Seq(S)
  BY <1>1
<1>3. f[s] # <<>> => Tail(f[s]) \in Seq(S)
  BY <1>1
<1>4. QED
  BY <1>2, <1>3

LEMMA NextKeepsInv == GuardInv /\ [Next]_vars => GuardInv'
<1> SUFFICES ASSUME GuardInv, [Next]_vars PROVE GuardInv'
  OBVIOUS
<1>1. ASSUME NEW s \in Screens, WorkerStep(s) PROVE GuardInv'
  BY <1>1, WorkerStepKeepsInv
<1>2. ASSUME NEW s \in Screens, Resume(s) PROVE GuardInv'
  <2>1. mail' \in [Screens -> Seq({"resume", "suspend"})]
    BY <1>2, MailTypes DEF Resume, Handled, GuardInv, TypeOK
  <2>2. timers' \in [Screens -> 0..MaxTimers] /\ timer' \in [Screens -> BOOLEAN]
    BY <1>2 DEF Resume, GuardInv, TypeOK, MaxTimers
  <2>3. NamedTimers'
    <3>1. timers'[s] > 0
      <4>1. timers[s] \in 0..2 /\ timers \in [Screens -> 0..2]
        BY DEF GuardInv, TypeOK, MaxTimers
      <4>2. timers'[s] = IF timers[s] < 2 THEN timers[s] + 1 ELSE timers[s]
        BY <1>2, <4>1 DEF Resume, MaxTimers
      <4>3. QED
        BY <4>1, <4>2
    <3>2. \A t \in Screens \ {s} : timers'[t] = timers[t] /\ timer'[t] = timer[t]
      BY <1>2 DEF Resume, GuardInv, TypeOK
    <3>3. QED
      BY <3>1, <3>2 DEF GuardInv, NamedTimers
  <2>4. QED
    BY <1>2, <2>1, <2>2, <2>3, StartKeepsInv DEF Resume
<1>3. ASSUME NEW s \in Screens, Suspend(s) PROVE GuardInv'
  <2>1. mail' \in [Screens -> Seq({"resume", "suspend"})]
    BY <1>3, MailTypes DEF Suspend, Handled, GuardInv, TypeOK
  <2>2. timers' \in [Screens -> 0..MaxTimers] /\ timer' \in [Screens -> BOOLEAN]
    BY <1>3 DEF Suspend, StopTimer, GuardInv, NamedTimers, TypeOK, MaxTimers
  <2>3. NamedTimers'
    BY <1>3 DEF Suspend, StopTimer, GuardInv, TypeOK, NamedTimers, MaxTimers
  <2>4. QED
    BY <1>3, <2>1, <2>2, <2>3, OtherKeepsInv DEF Suspend, GuardInv, TypeOK
<1>4. ASSUME NEW s \in Screens, Tick(s) \/ Key(s) PROVE GuardInv'
  BY <1>4, StartKeepsInv DEF Tick, Key, GuardInv, TypeOK, NamedTimers, screenVars
<1>5. ASSUME NEW s \in Screens, Launch(s) PROVE GuardInv'
  <2>1. mail' \in [Screens -> Seq({"resume", "suspend"})]
    BY <1>5, MailTypes DEF Launch, Posted, GuardInv, TypeOK
  <2>2. QED
    BY <1>5, <2>1, OtherKeepsInv DEF Launch, GuardInv, TypeOK, NamedTimers
<1>6. ASSUME NEW s \in Screens, Switch(s) PROVE GuardInv'
  <2>1. mail' \in [Screens -> Seq({"resume", "suspend"})]
    <3>1. mail' = [[mail EXCEPT ![top] = Append(mail[top], "suspend")]
                     EXCEPT ![s] = Append(mail[s], "resume")]
      BY <1>6 DEF Switch, GuardInv, TypeOK
    <3>2. [mail EXCEPT ![top] = Append(mail[top], "suspend")]
            \in [Screens -> Seq({"resume", "suspend"})]
      BY <1>6, MailTypes DEF Switch, GuardInv, TypeOK
    <3>3. Append(mail[s], "resume") \in Seq({"resume", "suspend"})
      BY DEF GuardInv, TypeOK
    <3>4. QED
      BY <3>1, <3>2, <3>3
  <2>2. QED
    BY <1>6, <2>1, OtherKeepsInv DEF Switch, GuardInv, TypeOK, NamedTimers
<1>7. CASE ShowMenu
  <2>1. mail' \in [Screens -> Seq({"resume", "suspend"})]
    BY <1>7, MailTypes DEF ShowMenu, Posted, GuardInv, TypeOK
  <2>2. QED
    BY <1>7, <2>1, OtherKeepsInv DEF ShowMenu, GuardInv, TypeOK, NamedTimers
<1>8. CASE PrefetchBegins \/ PrefetchEnds
  BY <1>8 DEF PrefetchBegins, PrefetchEnds, GuardInv, TypeOK, OneFetchPerManager,
              NeverWedged, AllAsked, NamedTimers, screenVars
<1>9. CASE Quit
  BY <1>9, OtherKeepsInv DEF Quit, GuardInv, TypeOK, NamedTimers, screenVars
<1>10. CASE Exit
  BY <1>10 DEF Exit, GuardInv, TypeOK, OneFetchPerManager, NeverWedged, AllAsked,
               NamedTimers, screenVars
<1>11. CASE UNCHANGED vars
  BY <1>11, OtherKeepsInv DEF vars, screenVars, GuardInv, TypeOK, NamedTimers
<1>12. QED
  BY <1>1, <1>2, <1>3, <1>4, <1>5, <1>6, <1>7, <1>8, <1>9, <1>10, <1>11 DEF Next

-----------------------------------------------------------------------------
\* The inductive invariant of the guard holds in every reachable state.
THEOREM GuardInvariant == Spec => []GuardInv
BY InitGuardInv, NextKeepsInv, PTL DEF Spec

\* No screen fetches while the prefetch does, and no refresh runs unguarded.
THEOREM SingleFlight == Spec => []OneFetchPerManager
<1>1. GuardInv => OneFetchPerManager
  BY DEF GuardInv
<1>2. QED
  BY <1>1, GuardInvariant, PTL

\* No failed, skipped or finished refresh leaves a screen's flag up.
THEOREM NoScreenWedged == Spec => []NeverWedged
<1>1. GuardInv => NeverWedged
  BY DEF GuardInv
<1>2. QED
  BY <1>1, GuardInvariant, PTL

\* After the exit the only step of a worker is to be cancelled, and waiting
\* for the prefetch does not swallow that.
THEOREM ExitIsFinal == Spec => NoFetchAfterExit
<1> DEFINE Quiet == app = "exited" =>
                      \A s \in Screens : worker'[s] = "fetching" => worker[s] = "fetching"
<1>1. GuardInv /\ [Next]_vars => [Quiet]_vars
  <2> SUFFICES ASSUME GuardInv, Next, app = "exited",
                      NEW t \in Screens, worker'[t] = "fetching"
               PROVE  worker[t] = "fetching"
    BY DEF vars
  <2>1. ASSUME NEW s \in Screens, Begin(s) \/ Yielded(s) \/ Joined(s) PROVE FALSE
    BY <2>1 DEF Begin, Yielded, Joined, GuardInv, AllAsked
  <2>2. ASSUME NEW s \in Screens, Refreshed(s) \/ RefreshFailed(s) \/ Cancelled(s)
        PROVE  worker[t] = "fetching"
    <3>1. worker' = [worker EXCEPT ![s] = "none"]
      BY <2>2 DEF Refreshed, RefreshFailed, Cancelled, JoinCancelled, LowerFlag
    <3>2. QED
      BY <3>1 DEF GuardInv, TypeOK
  <2>3. ASSUME NEW s \in Screens,
               Resume(s) \/ Suspend(s) \/ Tick(s) \/ Key(s) \/ Launch(s) \/ Switch(s)
        PROVE  FALSE
    BY <2>3 DEF Resume, Suspend, Tick, Key, Launch, Switch
  <2>4. CASE ShowMenu \/ PrefetchBegins \/ PrefetchEnds \/ Quit \/ Exit
    BY <2>4 DEF ShowMenu, PrefetchBegins, PrefetchEnds, Quit, Exit
  <2>5. QED
    BY <2>1, <2>2, <2>3, <2>4 DEF Next, WorkerStep
<1>2. QED
  BY <1>1, GuardInvariant, PTL DEF Spec, NoFetchAfterExit
-----------------------------------------------------------------------------
(***************************************************************************)
(* One timer.  The messages a screen has yet to handle alternate, from     *)
(* what its timer says of it now to what is on top: so resumes and         *)
(* suspends never pile up, however many are unread.                        *)
(***************************************************************************)
Messages == {"resume", "suspend"}

\* The messages q lead a screen whose timer is on, or not, to being up, or not.
Told(q, on, up) ==
  /\ q = <<>> => (on <=> up)
  /\ q # <<>> => /\ q[1] = IF on THEN "suspend" ELSE "resume"
                 /\ q[Len(q)] = IF up THEN "resume" ELSE "suspend"
  /\ \A i \in 1..(Len(q) - 1) : q[i + 1] # q[i]

TimerInv ==
  \A s \in Screens :
    /\ timers[s] = IF timer[s] THEN 1 ELSE 0
    /\ Told(mail[s], timer[s], top = s)

\* A message is posted exactly when the screen comes to the top or leaves it.
LEMMA ToldPosted ==
  ASSUME NEW q \in Seq(Messages), NEW on \in BOOLEAN, NEW up \in BOOLEAN, Told(q, on, up)
  PROVE  Told(Append(q, IF up THEN "suspend" ELSE "resume"), on, ~up)
<1> DEFINE m == IF up THEN "suspend" ELSE "resume"
           r == Append(q, m)
           n == Len(q)
<1>1. m \in Messages /\ n \in Nat
  BY LenProperties DEF Messages
<1>2. /\ r \in Seq(Messages) /\ r # <<>> /\ Len(r) = n + 1
      /\ \A i \in 1..n : r[i] = q[i]
      /\ r[n + 1] = m
  BY <1>1, AppendProperties
<1>3. n = 0 <=> q = <<>>
  BY EmptySeq
<1> HIDE DEF r
<1>4. r[1] = IF on THEN "suspend" ELSE "resume"
  <2>1. CASE n = 0
    BY <1>2, <1>3, <2>1 DEF Told
  <2>2. CASE n # 0
    BY <1>1, <1>2, <1>3, <2>2 DEF Told
  <2> QED BY <2>1, <2>2
<1>5. ASSUME NEW i \in 1..n PROVE r[i + 1] # r[i]
  <2>1. CASE i = n
    BY <1>1, <1>2, <1>3, <2>1 DEF Told
  <2>2. CASE i # n
    <3>1. i \in 1..(n - 1) /\ i + 1 \in 1..n
      BY <1>1, <2>2
    <3> QED BY <1>2, <3>1 DEF Told
  <2> QED BY <2>1, <2>2
<1>6. r[Len(r)] = IF ~up THEN "resume" ELSE "suspend"
  BY <1>2
<1>7. Told(r, on, ~up)
  BY <1>1, <1>2, <1>4, <1>5, <1>6 DEF Told
<1> QED BY <1>7 DEF r

LEMMA ToldRaisedLowered ==
  ASSUME NEW q \in Seq(Messages), NEW on \in BOOLEAN
  PROVE  /\ Told(q, on, FALSE) => Told(Append(q, "resume"), on, TRUE)
         /\ Told(q, on, TRUE) => Told(Append(q, "suspend"), on, FALSE)
<1>1. ASSUME Told(q, on, FALSE) PROVE Told(Append(q, "resume"), on, TRUE)
  <2>1. Told(Append(q, IF FALSE THEN "suspend" ELSE "resume"), on, ~FALSE)
    BY <1>1, ToldPosted
  <2> QED BY <2>1
<1>2. ASSUME Told(q, on, TRUE) PROVE Told(Append(q, "suspend"), on, FALSE)
  <2>1. Told(Append(q, IF TRUE THEN "suspend" ELSE "resume"), on, ~TRUE)
    BY <1>2, ToldPosted
  <2> QED BY <2>1
<1> QED BY <1>1, <1>2

\* The first message turns the timer of the screen on or off.
LEMMA ToldHandled ==
  ASSUME NEW q \in Seq(Messages), q # <<>>, NEW on \in BOOLEAN, NEW up \in BOOLEAN,
         Told(q, on, up)
  PROVE  /\ Head(q) = IF on THEN "suspend" ELSE "resume"
         /\ Told(Tail(q), ~on, up)
<1> DEFINE r == Tail(q)
           n == Len(q)
<1>1. /\ n \in Nat \ {0} /\ r \in Seq(Messages) /\ Len(r) = n - 1
      /\ \A i \in 1..(n - 1) : r[i] = q[i + 1]
  BY EmptySeq, HeadTailProperties
<1>2. r = <<>> <=> n = 1
  BY <1>1, EmptySeq
<1>3. Head(q) = q[1]
  OBVIOUS
<1>4. \A i \in 1..n : q[i] \in Messages
  BY LenProperties
<1> HIDE DEF r
<1>5. CASE n = 1
  <2>1. (on <=> ~up) /\ Head(q) = IF on THEN "suspend" ELSE "resume"
    BY <1>1, <1>3, <1>5 DEF Told
  <2>2. r = <<>> /\ Len(r) = 0
    BY <1>1, <1>2, <1>5
  <2>3. Told(r, ~on, up)
    BY <2>1, <2>2 DEF Told
  <2> QED BY <2>1, <2>3 DEF r
<1>6. CASE n # 1
  <2>1. r[1] = q[2] /\ q[2] # q[1] /\ q[1] \in Messages /\ q[2] \in Messages
    BY <1>1, <1>4, <1>6 DEF Told
  <2>2. r[Len(r)] = q[n]
    BY <1>1, <1>6
  <2>3. \A i \in 1..(Len(r) - 1) : r[i + 1] # r[i]
    <3> SUFFICES ASSUME NEW i \in 1..(n - 2) PROVE r[i + 1] # r[i]
      BY <1>1
    <3>1. r[i] = q[i + 1] /\ r[i + 1] = q[i + 2] /\ i + 1 \in 1..(n - 1)
      BY <1>1
    <3> QED BY <1>1, <3>1 DEF Told
  <2>4. r[1] = IF ~on THEN "suspend" ELSE "resume"
    BY <2>1 DEF Told, Messages
  <2> QED BY <1>2, <1>3, <1>6, <2>2, <2>3, <2>4 DEF Told, r
<1> QED BY <1>5, <1>6

\* No message, no timer and no change of the top: nothing to prove.
LEMMA TimersLeft ==
  ASSUME TimerInv, UNCHANGED <<mail, timers, timer, top>>
  PROVE  TimerInv'
BY DEF TimerInv, Told

LEMMA TimerInvInit == Init => TimerInv
<1> SUFFICES ASSUME Init, NEW s \in Screens
             PROVE  /\ timers[s] = IF timer[s] THEN 1 ELSE 0
                    /\ Told(mail[s], timer[s], top = s)
  BY DEF TimerInv
<1>1. mail[s] = <<>> /\ ~timer[s] /\ timers[s] = 0 /\ top # s
  BY ScreenAssumption DEF Init, Menu
<1> QED BY <1>1, EmptySeq DEF Told

LEMMA TimerInvStep == GuardInv /\ TimerInv /\ [Next]_vars => TimerInv'
<1> SUFFICES ASSUME GuardInv, TimerInv, [Next]_vars PROVE TimerInv'
  OBVIOUS
<1>1. /\ mail \in [Screens -> Seq(Messages)] /\ timer \in [Screens -> BOOLEAN]
      /\ timers \in [Screens -> 0..MaxTimers] /\ top \in Screens \cup {Menu}
      /\ Menu \notin Screens
  BY ScreenAssumption DEF GuardInv, TypeOK, Messages, Menu
<1>2. ASSUME NEW s \in Screens, Resume(s) \/ Suspend(s) PROVE TimerInv'
  <2>1. /\ mail[s] # <<>> /\ mail' = [mail EXCEPT ![s] = Tail(mail[s])] /\ top' = top
        /\ Head(mail[s]) = "resume" \/ Head(mail[s]) = "suspend"
    BY <1>2 DEF Resume, Suspend, Handled
  <2>2. /\ Head(mail[s]) = IF timer[s] THEN "suspend" ELSE "resume"
        /\ Told(Tail(mail[s]), ~timer[s], top = s)
    <3>1. mail[s] \in Seq(Messages) /\ timer[s] \in BOOLEAN /\ (top = s) \in BOOLEAN
      BY <1>1
    <3>2. Told(mail[s], timer[s], top = s)
      BY DEF TimerInv
    <3> QED BY <2>1, <3>1, <3>2, ToldHandled
  <2>3. timers[s] = IF timer[s] THEN 1 ELSE 0
    BY DEF TimerInv
  <2>4. /\ timer' = [timer EXCEPT ![s] = ~timer[s]]
        /\ timers'[s] = IF timer[s] THEN 0 ELSE 1
        /\ \A t \in Screens \ {s} : timers'[t] = timers[t]
    <3>1. CASE timer[s]
      <4>1. Suspend(s)
        BY <1>2, <2>2, <3>1 DEF Resume, Handled
      <4>2. timer' = [timer EXCEPT ![s] = FALSE] /\ timers' = [timers EXCEPT ![s] = timers[s] - 1]
        BY <3>1, <4>1 DEF Suspend, StopTimer
      <4>3. timer[s] = TRUE /\ ~timer[s] = FALSE
        BY <1>1, <3>1
      <4>4. timer' = [timer EXCEPT ![s] = ~timer[s]]
        BY <4>2, <4>3, Zenon
      <4>5. /\ timers'[s] = IF timer[s] THEN 0 ELSE 1
            /\ \A t \in Screens \ {s} : timers'[t] = timers[t]
        BY <1>1, <2>3, <3>1, <4>2 DEF MaxTimers
      <4> QED BY <4>4, <4>5
    <3>2. CASE ~timer[s]
      <4>1. Resume(s)
        BY <1>2, <2>2, <3>2 DEF Suspend, Handled
      <4>2. timer' = [timer EXCEPT ![s] = TRUE] /\ timers' = [timers EXCEPT ![s] = timers[s] + 1]
        BY <2>3, <3>2, <4>1 DEF Resume, MaxTimers
      <4>3. timer[s] = FALSE /\ ~timer[s] = TRUE
        BY <1>1, <3>2
      <4>4. timer' = [timer EXCEPT ![s] = ~timer[s]]
        BY <4>2, <4>3, Zenon
      <4>5. /\ timers'[s] = IF timer[s] THEN 0 ELSE 1
            /\ \A t \in Screens \ {s} : timers'[t] = timers[t]
        BY <1>1, <2>3, <3>2, <4>2 DEF MaxTimers
      <4> QED BY <4>4, <4>5
    <3> QED BY <3>1, <3>2
  <2>5. ASSUME NEW t \in Screens
        PROVE  /\ timers'[t] = IF timer'[t] THEN 1 ELSE 0
               /\ Told(mail'[t], timer'[t], top' = t)
    <3>1. CASE t = s
      BY <1>1, <2>1, <2>2, <2>4, <3>1
    <3>2. CASE t # s
      BY <1>1, <2>1, <2>4, <3>2 DEF TimerInv
    <3> QED BY <3>1, <3>2
  <2> QED BY <2>5 DEF TimerInv, Told
<1>3. ASSUME NEW s \in Screens, Launch(s) \/ Switch(s) PROVE TimerInv'
  <2>1. /\ top # s /\ top' = s /\ UNCHANGED <<timers, timer>>
        /\ mail'[s] = Append(mail[s], "resume")
        /\ \A t \in Screens \ {s} :
             mail'[t] = IF top = t THEN Append(mail[t], "suspend") ELSE mail[t]
    BY <1>1, <1>3 DEF Launch, Switch, Posted
  <2>2. ASSUME NEW t \in Screens
        PROVE  /\ timers'[t] = IF timer'[t] THEN 1 ELSE 0
               /\ Told(mail'[t], timer'[t], top' = t)
    <3>1. /\ timers[t] = IF timer[t] THEN 1 ELSE 0
          /\ Told(mail[t], timer[t], top = t)
          /\ mail[t] \in Seq(Messages) /\ timer[t] \in BOOLEAN
      BY <1>1 DEF TimerInv
    <3>3. timer'[t] = timer[t] /\ timers'[t] = timers[t]
      BY <2>1
    <3>4. CASE t = s
      <4>1. mail'[t] = Append(mail[t], "resume") /\ top # t /\ top' = t
        BY <2>1, <3>4
      <4>2. Told(mail[t], timer[t], FALSE)
        BY <3>1, <4>1 DEF Told
      <4>3. Told(Append(mail[t], "resume"), timer[t], TRUE)
        BY <3>1, <4>2, ToldRaisedLowered
      <4> QED BY <3>1, <3>3, <4>1, <4>3 DEF Told
    <3>5. CASE t # s /\ top = t
      <4>1. mail'[t] = Append(mail[t], "suspend") /\ top' # t
        BY <2>1, <3>5
      <4>2. Told(mail[t], timer[t], TRUE)
        BY <3>1, <3>5 DEF Told
      <4>3. Told(Append(mail[t], "suspend"), timer[t], FALSE)
        BY <3>1, <4>2, ToldRaisedLowered
      <4> QED BY <3>1, <3>3, <4>1, <4>3 DEF Told
    <3>6. CASE t # s /\ top # t
      <4>1. mail'[t] = mail[t] /\ top' # t
        BY <2>1, <3>6
      <4> QED BY <3>1, <3>3, <3>6, <4>1 DEF Told
    <3> QED BY <3>4, <3>5, <3>6
  <2> QED BY <2>2 DEF TimerInv, Told
<1>4. CASE ShowMenu
  <2>1. /\ top \in Screens /\ top' = Menu /\ UNCHANGED <<timers, timer>>
        /\ \A t \in Screens :
             mail'[t] = IF top = t THEN Append(mail[t], "suspend") ELSE mail[t]
    BY <1>1, <1>4 DEF ShowMenu, Posted
  <2>2. ASSUME NEW t \in Screens
        PROVE  /\ timers'[t] = IF timer'[t] THEN 1 ELSE 0
               /\ Told(mail'[t], timer'[t], top' = t)
    <3>1. /\ timers[t] = IF timer[t] THEN 1 ELSE 0
          /\ Told(mail[t], timer[t], top = t)
          /\ mail[t] \in Seq(Messages) /\ timer[t] \in BOOLEAN
      BY <1>1 DEF TimerInv
    <3>3. timer'[t] = timer[t] /\ timers'[t] = timers[t] /\ top' # t
      BY <1>1, <2>1
    <3>4. CASE top = t
      <4>1. mail'[t] = Append(mail[t], "suspend")
        BY <2>1, <3>4
      <4>2. Told(mail[t], timer[t], TRUE)
        BY <3>1, <3>4 DEF Told
      <4>3. Told(Append(mail[t], "suspend"), timer[t], FALSE)
        BY <3>1, <4>2, ToldRaisedLowered
      <4> QED BY <3>1, <3>3, <4>1, <4>3 DEF Told
    <3>5. CASE top # t
      <4>1. mail'[t] = mail[t]
        BY <2>1, <3>5
      <4> QED BY <3>1, <3>3, <3>5, <4>1 DEF Told
    <3> QED BY <3>4, <3>5
  <2> QED BY <2>2 DEF TimerInv, Told
<1>5. ASSUME NEW s \in Screens, WorkerStep(s) \/ Tick(s) \/ Key(s) PROVE TimerInv'
  <2>1. UNCHANGED <<mail, timers, timer, top>>
    BY <1>5 DEF WorkerStep, Begin, Yielded, Joined, Refreshed, RefreshFailed, Cancelled,
                Tick, Key, screenVars
  <2> QED BY <2>1, TimersLeft
<1>6. CASE PrefetchBegins \/ PrefetchEnds \/ Quit \/ Exit \/ UNCHANGED vars
  BY <1>6, TimersLeft DEF PrefetchBegins, PrefetchEnds, Quit, Exit, vars, screenVars
<1> QED BY <1>2, <1>3, <1>4, <1>5, <1>6 DEF Next

\* A screen never polls with two timers, and with none once it knows that it
\* is not on top, however long its queue of messages has been.
THEOREM TimersAreSingle == Spec => []OneTimer
<1>1. GuardInv /\ TimerInv => OneTimer
  <2> SUFFICES ASSUME GuardInv, TimerInv, NEW s \in Screens
               PROVE  /\ timers[s] <= 1
                      /\ mail[s] = <<>> => (timers[s] = 1 <=> top = s)
    BY DEF OneTimer
  <2>1. timer[s] \in BOOLEAN
    BY DEF GuardInv, TypeOK
  <2> QED BY <2>1 DEF TimerInv, Told
<1> QED BY <1>1, TimerInvInit, TimerInvStep, GuardInvariant, PTL DEF Spec
=============================================================================
