------------------------------ MODULE MCFetchRun ------------------------------
(***************************************************************************)
(* FetchRun for TLC: the places of the invocations are interchangeable.    *)
(***************************************************************************)
EXTENDS FetchRun, TLC

Symmetry == Permutations(Slots)
=============================================================================
