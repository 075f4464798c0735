----------------------------- MODULE MCTTTScan -----------------------------
(* Small instances of TTTScan for TLC. *)
EXTENDS TTTScan

\* The name of a transaction says its event, "l", "d" or "b" for Launched,
\* Deposited or Bought, and its token, "1" or "2".
NamedTopics ==
  [l \in Logs |-> IF l \in {"l1", "l2"} THEN "Launched"
                  ELSE IF l \in {"d1", "d2"} THEN "Deposited" ELSE "Bought"]
NamedTokens ==
  [l \in Logs |-> IF l \in {"l1", "d1", "b1"} THEN "t1" ELSE "t2"]
=============================================================================
