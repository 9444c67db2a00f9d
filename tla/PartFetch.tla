------------------------------ MODULE PartFetch ------------------------------
(***************************************************************************)
(* What run_segments_with_policy (sn-fetch, exec.rs) promises the runner:  *)
(* the part files of the planned segments come and go in any order while   *)
(* the call runs, Ok is returned only over complete files, and nothing     *)
(* touches them after that.  After an error the detached tasks may still   *)
(* write.  SegmentRetry implements this specification.                     *)
(***************************************************************************)
EXTENDS Naturals

CONSTANTS PlanIds, MaxSegments

VARIABLES plan, part, result

partVars == <<plan, part, result>>

Index == 1..MaxSegments
Planned == DOMAIN plan

Init ==
    /\ \E n \in Index : plan \in [1..n -> PlanIds]
    /\ part \in [Index -> {"none", "stale"}]
    /\ result = "idle"

\* The directory is made, the plan is validated against the registry and the tasks are spawned.
Begin ==
    /\ result = "idle"
    /\ result' \in {"running", "no_directory", "unknown_exit"}
    /\ UNCHANGED <<plan, part>>

\* A task may touch part file s until the call has returned Ok.
Writable(s) ==
    /\ s \in Planned
    /\ result \in {"running", "err"}

\* An attempt got its 206 and truncates the file.
Open(s) ==
    /\ Writable(s)
    /\ part' = [part EXCEPT ![s] = "partial"]
    /\ UNCHANGED <<plan, result>>

\* An attempt has written the whole range.
Finish(s) ==
    /\ Writable(s)
    /\ part[s] = "partial"
    /\ part' = [part EXCEPT ![s] = "full"]
    /\ UNCHANGED <<plan, result>>

\* A failed attempt removes its file.
Remove(s) ==
    /\ Writable(s)
    /\ part[s] # "full"
    /\ part' = [part EXCEPT ![s] = "none"]
    /\ UNCHANGED <<plan, result>>

ReturnOkEarly ==   \* mutant: Ok without waiting for the last segment
    /\ result = "running"
    /\ \E s \in Planned : part[s] = "full"
    /\ result' = "ok"
    /\ UNCHANGED <<plan, part>>

ReturnOk ==
    /\ result = "running"
    /\ \A s \in Planned : part[s] = "full"
    /\ result' = "ok"
    /\ UNCHANGED <<plan, part>>

ReturnErr ==
    /\ result = "running"
    /\ result' = "err"
    /\ UNCHANGED <<plan, part>>

Step ==
    \/ Begin \/ ReturnOk \/ ReturnErr
    \/ \E s \in Index : Open(s) \/ Finish(s) \/ Remove(s)

Spec == Init /\ [][Step]_partVars
=============================================================================
