------------------------------ MODULE LogPager ------------------------------
(***************************************************************************)
(* The adaptive paging of event logs in the Talismans client               *)
(* (src/maxpane_dashboard/data/talismans_client.py, rpc_classify.py).      *)
(*                                                                         *)
(* _get_logs reads a block range page by page and reports how far it got.  *)
(* Every page goes through _rpc, which asks one endpoint after the other   *)
(* and, when all have failed, raises the failure a narrower page can cure  *)
(* if there is one.  The page is then narrowed and asked for again.  The   *)
(* window so learned outlives the scan and grows back after a run of clean *)
(* pages.                                                                  *)
(***************************************************************************)
EXTENDS Integers, Sequences

CONSTANTS
  Style,        \* one entry per endpoint: "any", "capped" or "depth"
  Cap,          \* the block limit an endpoint's refusals name
  MaxBlock,     \* bound: the blocks a scan may ask for
  RangePerCall, \* _LOG_RANGE_PER_CALL, the widest window
  MaxShrinks,   \* _MAX_LOG_SHRINKS, per page
  GrowthAfter,  \* _LOG_WINDOW_GROWTH_AFTER
  MaxRetries,   \* _MAX_RETRIES, attempts per endpoint
  Hints         \* the ends of ranges a provider may suggest

Endpoints == 1..Len(Style)
Blocks == 1..MaxBlock
Spans == 1..RangePerCall

\* An endpoint of style "any" may answer anything.  One of style "capped"
\* serves a page within its limit and refuses a wider one; one of style
\* "depth" refuses every page with the same words, for it means the age of
\* the blocks.
ASSUME EndpointAssumption ==
  /\ Style \in Seq({"any", "capped", "depth"}) /\ Style # <<>>
  /\ Cap \in [Endpoints -> Nat \ {0}]

ASSUME PagingAssumption ==
  /\ MaxBlock \in Nat /\ RangePerCall \in Nat \ {0}
  /\ MaxShrinks \in Nat /\ GrowthAfter \in Nat \ {0} /\ MaxRetries \in Nat \ {0}
  /\ Hints \subseteq Nat

VARIABLES
  window,   \* _log_window
  okPages,  \* _log_window_ok
  pc,       \* "idle", or "rpc" while a page is being asked for
  range,    \* the range of the scan, as <<from_block, to_block>>
  cursor,   \* first block of the page
  end,      \* chunk_end, last block of the page
  shrinks,  \* times this page has been narrowed
  ep,       \* the endpoint being asked
  attempt,  \* the attempt at it
  chosen,   \* the failure _rpc would raise
  reach,    \* what the last scan reported
  covered,  \* history: how often this scan has delivered a block
  silent,   \* history: this scan has met an endpoint that did not answer
  clear     \* history: from now on every endpoint serves every page

vars == <<window, okPages, pc, range, cursor, end, shrinks, ep, attempt, chosen,
          reach, covered, silent, clear>>

Kinds == {"range_cap", "result_cap", "timeout", "rate_limit", "archive", "dead",
          "transport", "rpc"}

\* _SHRINKABLE
Shrinkable == {"range_cap", "result_cap", "timeout"}

NoHint == 0
Failure(k, hint) == [kind |-> k, hint |-> hint]
NoFailure == Failure("rpc", NoHint)

Smaller(a, b) == IF a <= b THEN a ELSE b
Larger(a, b) == IF a >= b THEN a ELSE b
Span == end - cursor + 1

-----------------------------------------------------------------------------
(***************************************************************************)
(* What an endpoint answers, as _classify_rpc_error reads it.              *)
(***************************************************************************)
\* Mutant: a complaint about the range is taken at its word.
RangeRefusalAtItsWord(limit, span) == Failure("range_cap", NoHint)

\* A limit the request already meets is not about the request.
RangeRefusal(limit, span) ==
  IF span <= limit THEN Failure("rpc", NoHint) ELSE Failure("range_cap", NoHint)

\* The refusals of an endpoint; only these two kinds carry a suggestion.
Refusals(e) ==
  CASE Style[e] = "any" ->
         {Failure(k, NoHint) : k \in Kinds \ {"transport"}}
         \cup {Failure(k, h) : k \in {"range_cap", "result_cap"}, h \in Hints}
    [] Style[e] = "capped" ->
         IF Span <= Cap[e] THEN {} ELSE {RangeRefusal(Cap[e], Span)}
    [] Style[e] = "depth" -> {RangeRefusal(Cap[e], Span)}

Serves(e) ==
  \/ clear
  \/ Style[e] = "any"
  \/ Style[e] = "capped" /\ Span <= Cap[e]

\* Mutant: the failure seen last is the one raised.
LastFailure(old, new) == new

\* The first shrinkable failure is raised, else the last one.
Prefer(old, new) == IF old.kind \in Shrinkable THEN old ELSE new

-----------------------------------------------------------------------------
(***************************************************************************)
(* The page.                                                               *)
(***************************************************************************)
AskFrom(first, width, last) ==
  /\ cursor' = first
  /\ end' = Smaller(first + width - 1, last)
  /\ ep' = 1 /\ attempt' = 1 /\ chosen' = NoFailure

Ask(first, width, last) == AskFrom(first, width, last) /\ shrinks' = 0

Stop(reached) ==
  /\ pc' = "idle" /\ reach' = reached
  /\ UNCHANGED <<cursor, end, shrinks, ep, attempt, chosen>>

\* A suggestion counts if it lies in the page and drops a tenth of it.
Material(hint) ==
  /\ cursor <= hint /\ hint < end
  /\ 10 * (hint - cursor + 1) <= 9 * Span

\* _shrunk_end
ShrunkEnd(hint) ==
  IF hint # NoHint /\ Material(hint)
    THEN hint
    ELSE cursor + Larger(1, Span \div 2) - 1

CanShrink(f) == f.kind \in Shrinkable /\ shrinks < MaxShrinks /\ end > cursor

\* Mutant: a page that cannot be narrowed any more is asked for again.
PageAskedAgain(f) ==
  /\ window' = IF CanShrink(f) THEN ShrunkEnd(f.hint) - cursor + 1 ELSE window
  /\ end' = IF CanShrink(f) THEN ShrunkEnd(f.hint) ELSE end
  /\ okPages' = 0
  /\ shrinks' = IF CanShrink(f) THEN shrinks + 1 ELSE shrinks
  /\ ep' = 1 /\ attempt' = 1 /\ chosen' = NoFailure
  /\ UNCHANGED <<pc, cursor, reach>>

\* _rpc has raised f.
PageFailed(f) ==
  \/ /\ CanShrink(f)
     /\ window' = ShrunkEnd(f.hint) - cursor + 1
     /\ end' = ShrunkEnd(f.hint)
     /\ okPages' = 0 /\ shrinks' = shrinks + 1
     /\ ep' = 1 /\ attempt' = 1 /\ chosen' = NoFailure
     /\ UNCHANGED <<pc, cursor, reach>>
  \/ /\ ~CanShrink(f)
     /\ Stop(cursor - 1)
     /\ UNCHANGED <<window, okPages>>

\* This endpoint has failed with f: on to the next one.
EndpointFailed(f) ==
  LET raised == Prefer(chosen, f)
  IN  \/ /\ ep < Len(Style)
         /\ ep' = ep + 1 /\ attempt' = 1 /\ chosen' = raised
         /\ UNCHANGED <<window, okPages, pc, cursor, end, shrinks, reach>>
      \/ /\ ep = Len(Style)
         /\ PageFailed(raised)

\* Mutant: the run of clean pages is forgotten with every page.
ForgetfulGrown ==
  IF window < RangePerCall /\ GrowthAfter = 1
    THEN <<Smaller(RangePerCall, 2 * window), 0>>
    ELSE <<window, 0>>

\* The window and the run of clean pages after one more clean page.
Grown ==
  IF window >= RangePerCall THEN <<window, okPages>>
  ELSE IF okPages + 1 >= GrowthAfter
    THEN <<Smaller(RangePerCall, 2 * window), 0>>
    ELSE <<window, okPages + 1>>

\* Mutant: the next page starts a window further, not behind this page.
NextCursorByWindow == cursor + Grown[1]

NextCursor == end + 1

-----------------------------------------------------------------------------
\* _get_logs is called; an empty range is done at once.
StartScan ==
  /\ pc = "idle"
  /\ \E from \in Blocks, to \in Blocks :
       /\ from <= to + 1
       /\ range' = <<from, to>>
       /\ \/ /\ from > to
             /\ Stop(to)
          \/ /\ from <= to
             /\ pc' = "rpc" /\ Ask(from, window, to)
             /\ UNCHANGED reach
  /\ covered' = [b \in Blocks |-> 0] /\ silent' = FALSE
  /\ UNCHANGED <<window, okPages, clear>>

\* The endpoint has answered the page with a list of logs.
Served ==
  /\ pc = "rpc" /\ Serves(ep)
  /\ covered' = [b \in Blocks |->
                   IF b \in cursor..end THEN Smaller(2, covered[b] + 1) ELSE covered[b]]
  /\ window' = Grown[1] /\ okPages' = Grown[2]
  /\ \/ /\ NextCursor > range[2]
        /\ Stop(range[2])
     \/ /\ NextCursor <= range[2]
        /\ Ask(NextCursor, Grown[1], range[2])
        /\ UNCHANGED <<pc, reach>>
  /\ UNCHANGED <<range, silent, clear>>

\* The endpoint has answered with something that is not a list.
NotAList ==
  /\ pc = "rpc" /\ Style[ep] = "any" /\ ~clear
  /\ Stop(cursor - 1)
  /\ UNCHANGED <<window, okPages, range, covered, silent, clear>>

\* The endpoint has refused the page; it is not asked again.
Refused ==
  /\ pc = "rpc" /\ ~clear
  /\ \E f \in Refusals(ep) : EndpointFailed(f)
  /\ UNCHANGED <<range, covered, silent, clear>>

\* The endpoint did not answer, or with a 5xx: once more, then the next one.
NoAnswer ==
  /\ pc = "rpc" /\ ~clear
  /\ silent' = TRUE
  /\ \/ /\ attempt < MaxRetries
        /\ attempt' = attempt + 1
        /\ UNCHANGED <<window, okPages, pc, cursor, end, shrinks, ep, chosen, reach>>
     \/ /\ attempt = MaxRetries
        /\ EndpointFailed(Failure("transport", NoHint))
  /\ UNCHANGED <<range, covered, clear>>

\* The network recovers for good.
ClearUp ==
  /\ ~clear
  /\ clear' = TRUE
  /\ UNCHANGED <<window, okPages, pc, range, cursor, end, shrinks, ep, attempt,
                 chosen, reach, covered, silent>>

Init ==
  /\ window = RangePerCall /\ okPages = 0
  /\ pc = "idle" /\ range = <<1, 0>> /\ reach = 0
  /\ cursor = 1 /\ end = 0 /\ shrinks = 0
  /\ ep = 1 /\ attempt = 1 /\ chosen = NoFailure
  /\ covered = [b \in Blocks |-> 0] /\ silent = FALSE
  /\ clear = FALSE

Next == StartScan \/ Served \/ NotAList \/ Refused \/ NoAnswer \/ ClearUp

Spec == Init /\ [][Next]_vars

\* The poll timer keeps asking for logs and blocks keep being mined, so that
\* some range is not empty; a request is answered or times out.
Fairness ==
  /\ WF_vars(StartScan /\ pc' = "rpc")
  /\ WF_vars(Served \/ NotAList \/ Refused \/ NoAnswer)

LiveSpec == Spec /\ Fairness

-----------------------------------------------------------------------------
\* Every variable has its type; the window is never empty or too wide, a page
\* is never empty and never leaves the range.
TypeOK ==
  /\ window \in Spans
  /\ okPages \in 0..GrowthAfter - 1
  /\ pc \in {"idle", "rpc"}
  /\ range \in Nat \X Nat
  /\ cursor \in Nat /\ end \in Nat /\ reach \in Int
  /\ shrinks \in 0..MaxShrinks
  /\ ep \in Endpoints /\ attempt \in 1..MaxRetries
  /\ chosen \in [kind : Kinds, hint : Nat]
  /\ covered \in [Blocks -> 0..2]
  /\ silent \in BOOLEAN /\ clear \in BOOLEAN
  /\ pc = "rpc" => range[1] <= cursor /\ cursor <= end /\ end <= range[2]

\* What a scan reports is what it delivered: every block up to it exactly
\* once and none behind it, however often pages were refused and narrowed.
ReachIsDelivered ==
  pc = "idle" =>
    covered = [b \in Blocks |-> IF b \in range[1]..reach THEN 1 ELSE 0]

\* Whatever becomes of its pages, to its caller a scan is one question and one
\* report, which says how far it has delivered: the watermark of a cycle may
\* follow it (_get_logs, and _scan_operations of the manager).
Scans == INSTANCE RangeScan WITH
  delivered <- [b \in Blocks |-> IF pc = "idle" THEN covered[b] ELSE 0]
IsAScan == Scans!Spec

\* Inside a scan, the pages served tile the blocks before the cursor.
PagesTile ==
  pc = "rpc" =>
    covered = [b \in Blocks |-> IF b \in range[1]..cursor - 1 THEN 1 ELSE 0]

LimitsAreNamed ==
  /\ \A e \in Endpoints : Style[e] \in {"capped", "depth"}
  /\ \A e \in Endpoints : Cap[e] <= RangePerCall

\* No refusal drives the window below half of the smallest limit any endpoint
\* names, even from an endpoint that refuses every page with those words.
WindowKeepsHalf ==
  LimitsAreNamed => \E e \in Endpoints : 2 * window >= Cap[e]

\* How wide a page that started at the full width is after so many shrinks.
Halvings ==
  {w \in [0..MaxShrinks -> 0..RangePerCall] :
     w[0] = RangePerCall /\ \A n \in 1..MaxShrinks : w[n] = w[n - 1] \div 2}

\* Shrinking as often as allowed takes every page below the limit of e, which
\* serves what is below.
Sufficing(e, w) == Style[e] = "capped" /\ w[MaxShrinks] <= Cap[e]

ShrinksSuffice == \E e \in Endpoints, w \in Halvings : Sufficing(e, w)

\* Limits alone never stop a scan: where the endpoints only limit the span of a
\* page, and the shrinks suffice to get below the limit of one that serves, a
\* scan stops short only after an endpoint did not answer it, whatever the
\* other endpoints say of its pages and whatever window earlier scans left.
LimitsNeverStop ==
  LimitsAreNamed /\ ShrinksSuffice /\ pc = "idle" /\ ~silent => reach = range[2]

\* A scan ends, in whatever way its pages are refused.
ScanEnds == pc = "rpc" ~> pc = "idle"

\* The requests a scan may still make: of every block of the range that is left,
\* with every shrink, at every endpoint, in every attempt.
RequestsLeft ==
  (((range[2] - cursor) * (MaxShrinks + 1) + (MaxShrinks - shrinks)) * Len(Style)
     + (Len(Style) - ep)) * MaxRetries + (MaxRetries - attempt)

\* No answer is for nothing: after each one fewer requests are left, so a scan
\* of n blocks makes at most n times the shrinks, endpoints and attempts, in
\* whatever order its pages are served, refused and narrowed.  This is what
\* ScanEnds rests on.
EveryAnswerCounts ==
  [][pc = "rpc" /\ pc' = "rpc" /\ UNCHANGED clear
       => RequestsLeft' \in Nat /\ RequestsLeft' < RequestsLeft]_vars

\* Once the network is well, the window grows back to its full width, even
\* when each scan has one page only.
WindowRecovers == clear ~> window = RangePerCall
-----------------------------------------------------------------------------
\* No page is wider than one request may be.
PageFits == pc = "rpc" => Span <= RangePerCall

\* What makes ReachIsDelivered inductive.
IInv == TypeOK /\ ReachIsDelivered /\ PagesTile /\ PageFits

\* What makes WindowKeepsHalf inductive: a failure that narrows the page comes
\* from an endpoint whose limit the page exceeds.
Excessive(f) ==
  /\ f.hint = NoHint
  /\ f.kind \in Shrinkable => \E e \in Endpoints : Span > Cap[e]

HalfInv ==
  LimitsAreNamed =>
    /\ \E e \in Endpoints : 2 * window >= Cap[e]
    /\ pc = "rpc" => Excessive(chosen)

\* What makes LimitsNeverStop inductive, for an endpoint that suffices: the
\* page is no wider than its shrinks have left it, once the endpoint has been
\* passed the page is above its limit and a failure that narrows is kept, and
\* a scan that is over has reached its end.
NarrowInv ==
  LimitsAreNamed /\ ~silent =>
    \A e \in Endpoints, w \in Halvings : Sufficing(e, w) =>
      /\ pc = "idle" => reach = range[2]
      /\ pc = "rpc" =>
           /\ Span <= Larger(1, w[shrinks])
           /\ e < ep => Span > Cap[e] /\ chosen.kind \in Shrinkable
=============================================================================
