---------------------------- MODULE EventLedger ----------------------------
(***************************************************************************)
(* What counting events off a chain promises, whatever pages, tails and    *)
(* files it is made of: the totals are those of one prefix of the chain.   *)
(* Reading makes the prefix longer, a stop forgets it, and a start resumes *)
(* the prefix that was saved, or begins again if there is no file to read. *)
(***************************************************************************)
EXTENDS Naturals, FiniteSets

CONSTANTS
  Events, \* everything that may be logged
  Kinds,  \* the event types
  KindOf  \* the type of each event

VARIABLES
  at,    \* the block of each event, 0 while it has not happened
  upto,  \* the totals are those of the blocks up to here
  saved, \* the prefix a start may resume
  total  \* per type: the events counted

vars == <<at, upto, saved, total>>

\* The events of type k in the blocks from..to.
Between(k, from, to) == {e \in Events : KindOf[e] = k /\ at[e] \in from..to}
Tally == [k \in Kinds |-> Cardinality(Between(k, 1, upto))]

Init == at \in [Events -> Nat] /\ upto = 0 /\ saved = 0 /\ total = Tally

\* Events happen in blocks that nobody has read.
Happen ==
  /\ at' \in [Events -> Nat]
  /\ \A e \in Events : at'[e] = at[e] \/ (at[e] = 0 /\ at'[e] > upto)
  /\ UNCHANGED <<upto, saved, total>>

Read ==
  /\ upto' \in Nat /\ upto' >= upto
  /\ total' = Tally'
  /\ saved' \in {saved, upto'}
  /\ UNCHANGED at

Stop ==
  /\ upto' = 0 /\ total' = Tally'
  /\ saved' \in {saved, upto}
  /\ UNCHANGED at

Resume ==
  /\ upto = 0 /\ upto' \in {0, saved}
  /\ total' = Tally'
  /\ UNCHANGED <<at, saved>>

Next == Happen \/ Read \/ Stop \/ Resume
Spec == Init /\ [][Next]_vars
=============================================================================
