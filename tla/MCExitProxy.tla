----------------------------- MODULE MCExitProxy -----------------------------
(***************************************************************************)
(* ExitProxy for TLC: connections are interchangeable.                     *)
(***************************************************************************)
EXTENDS ExitProxy, TLC

Symmetry == Permutations(Connections)
=============================================================================
