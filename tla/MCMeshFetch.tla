----------------------------- MODULE MCMeshFetch -----------------------------
(***************************************************************************)
(* MeshFetch for TLC: three exits, up to two segments, three attempts.     *)
(***************************************************************************)
EXTENDS MeshFetch

ThreeExits == 0..2

\* 0 is a neighbour that does not list the household, 1 a neighbour with a quota, through
\* which everything can happen, and 2, which a tie never favours, the household's own.
OneWillingPath ==
    [e \in 0..2 |-> IF e = 1 THEN {"serve", "refuse", "truncate", "reject", "stall"}
                    ELSE {"serve"}]
=============================================================================
