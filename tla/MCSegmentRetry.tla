--------------------------- MODULE MCSegmentRetry ---------------------------
(***************************************************************************)
(* Instances of SegmentRetry for TLC: three exits, up to two segments      *)
(* planned on any of them, and the default policy of three attempts.       *)
(***************************************************************************)
EXTENDS SegmentRetry

ThreeExits == 0..2

\* Every outcome occurs, no exit is dependable.
UnreliableOutcomes ==
    [e \in 0..2 |-> CASE e = 0 -> {"serve", "refuse", "truncate"}
                      [] e = 1 -> {"serve", "truncate", "stall"}
                      [] e = 2 -> {"refuse", "reject"}]

\* Two exits fail or stall now and then; the one with the highest id, which the
\* tie-break never favours, delivers.
OneReliableOutcomes ==
    [e \in 0..2 |-> CASE e = 0 -> {"serve", "refuse", "truncate"}
                      [] e = 1 -> {"serve", "truncate", "stall"}
                      [] e = 2 -> {"serve"}]
=============================================================================
