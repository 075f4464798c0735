----------------------------- MODULE MCLogPager -----------------------------
(* Instances of LogPager for TLC. *)
EXTENDS LogPager

AnyTwo == <<"any", "any">>
AnyCap == <<1, 1>>

\* An endpoint that names a limit it does not mean, before and behind one
\* that serves narrow pages.
DepthAround == <<"depth", "capped", "depth">>
WideCap == <<5, 4, 7>>
=============================================================================
