---------------------------- MODULE SegmentRetry ----------------------------
(***************************************************************************)
(* One call of run_segments_with_policy (sn-fetch, exec.rs): every planned *)
(* segment is downloaded by a task of its own; the tasks share the         *)
(* ExitSelector (the last failure of every exit) and the parts directory;  *)
(* the caller joins them in plan order.  The first error it meets is       *)
(* returned, and the tasks it has not joined keep running detached.        *)
(*                                                                         *)
(* What a request through an exit can come to is a constant, Outcomes[e].  *)
(* Local I/O errors are retryable failures of the attempt and are counted  *)
(* with the exit the attempt goes through, as the code does.               *)
(***************************************************************************)
EXTENDS Naturals, FiniteSets

CONSTANTS
    Exits,         \* the ids of the exit registry (u32, ordered)
    PlanIds,       \* the exit ids a plan may name
    MaxSegments,   \* bound: the longest plan
    MaxAttempts,   \* RetryPolicy::max_attempts (NonZeroU32)
    Outcomes,      \* for every exit, what a request through it can come to
    RemoveMayFail  \* whether the best-effort removal of a part file can fail

\* "serve":    206 with the whole range
\* "refuse":   connect or transport error, 5xx: retryable, no part file opened
\* "truncate": 206 whose body breaks off or has another length: retryable
\* "reject":   4xx or any other status than 206: not retryable
\* "stall":    no answer, or a body that stops coming: nothing times it out
Outcome == {"serve", "refuse", "truncate", "reject", "stall"}

ASSUME RetryAssumption ==
    /\ Exits \subseteq Nat /\ IsFiniteSet(Exits) /\ Exits # {}
    /\ PlanIds \subseteq Nat
    /\ MaxSegments \in Nat \ {0}
    /\ MaxAttempts \in Nat \ {0}
    /\ Outcomes \in [Exits -> SUBSET Outcome] /\ \A e \in Exits : Outcomes[e] # {}
    /\ RemoveMayFail \in BOOLEAN

VARIABLES
    plan,       \* the exit planned for each segment; its domain is 1..n
    phase,      \* where the task of each segment is
    exit,       \* the exit of the task's current attempt
    attempt,    \* the number of attempts the task has started
    tried,      \* the exits the task failed on (the SegmentFailed events)
    part,       \* the content of each part file seg-NNNNNN.part
    failedAt,   \* ExitSelector::last_failed; 0 stands for "never failed"
    clock,      \* Instant::now(): does not decrease, may stand still
    joined,     \* how many handles the caller has joined
    result      \* what the call has returned, "running" until then

taskVars == <<phase, exit, attempt, tried>>
vars == <<plan, phase, exit, attempt, tried, part, failedAt, clock, joined, result>>

Index == 1..MaxSegments
Planned == DOMAIN plan
Ended == {"ok", "aborted", "exhausted"}

TypeOK ==
    /\ \E n \in Index : plan \in [1..n -> PlanIds]
    /\ phase \in [Index -> Ended \cup {"none", "loop", "sent", "streaming",
                                       "failed", "fatal", "cleaned", "picking", "stalled"}]
    /\ exit \in [Index -> PlanIds \cup Exits]
    /\ attempt \in [Index -> 0..MaxAttempts]
    /\ tried \in [Index -> SUBSET Exits]
    /\ part \in [Index -> {"none", "stale", "partial", "full"}]
    /\ failedAt \in [Exits -> Nat]
    /\ clock \in Nat
    /\ joined \in 0..MaxSegments
    /\ result \in {"idle", "no_directory", "unknown_exit", "running", "ok", "err"}

\* The parts directory outlives the run: it may hold files of earlier runs.
Init ==
    /\ \E n \in Index : plan \in [1..n -> PlanIds]
    /\ phase = [s \in Index |-> "none"]
    /\ exit = [s \in Index |-> IF s \in Planned THEN plan[s] ELSE plan[1]]
    /\ attempt = [s \in Index |-> 0]
    /\ tried = [s \in Index |-> {}]
    /\ part \in [Index -> {"none", "stale"}]
    /\ failedAt = [e \in Exits |-> 0]
    /\ clock = 1
    /\ joined = 0
    /\ result = "idle"

(***************************************************************************)
(* The caller.                                                             *)
(***************************************************************************)

\* The parts directory is made, which may fail, and every planned exit must be
\* registered; then one task per segment.
Start ==
    /\ result = "idle"
    /\ \/ result' = "no_directory" /\ UNCHANGED phase
       \/ /\ \E s \in Planned : plan[s] \notin Exits
          /\ result' = "unknown_exit"
          /\ UNCHANGED phase
       \/ /\ \A s \in Planned : plan[s] \in Exits
          /\ result' = "running"
          /\ phase' = [s \in Index |-> IF s \in Planned THEN "loop" ELSE "none"]
    /\ UNCHANGED <<plan, exit, attempt, tried, part, failedAt, clock, joined>>

\* The handles are joined in plan order; the first error is the result.
JoinIgnoresTaskResult ==   \* mutant: only a panic of the task is an error
    LET s == joined + 1
    IN  /\ result = "running"
        /\ phase[s] \in Ended
        /\ joined' = s
        /\ result' = IF s + 1 \in Planned THEN "running" ELSE "ok"
        /\ UNCHANGED <<plan, taskVars, part, failedAt, clock>>

Join ==
    LET s == joined + 1
    IN  /\ result = "running"
        /\ phase[s] \in Ended
        /\ joined' = s
        /\ result' = IF phase[s] # "ok" THEN "err"
                     ELSE IF s + 1 \in Planned THEN "running" ELSE "ok"
        /\ UNCHANGED <<plan, taskVars, part, failedAt, clock>>

(***************************************************************************)
(* One attempt (download_attempt).                                         *)
(***************************************************************************)

\* The next attempt starts: SegmentStarted, and the range request is sent.
StartAttempt(s) ==
    /\ phase[s] = "loop"
    /\ phase' = [phase EXCEPT ![s] = "sent"]
    /\ attempt' = [attempt EXCEPT ![s] = @ + 1]
    /\ UNCHANGED <<plan, exit, tried, part, failedAt, clock, joined, result>>

\* 206: the part file is created, truncating whatever was there.
OpenPart(s) ==
    /\ phase[s] = "sent"
    /\ Outcomes[exit[s]] \cap {"serve", "truncate", "stall"} # {}
    /\ phase' = [phase EXCEPT ![s] = "streaming"]
    /\ part' = [part EXCEPT ![s] = "partial"]
    /\ UNCHANGED <<plan, exit, attempt, tried, failedAt, clock, joined, result>>

\* The body is complete and has the length of the range.  Only the bytes this
\* attempt wrote are counted: the file is whole if the attempt began it anew.
Complete(s) ==
    /\ phase[s] = "streaming"
    /\ "serve" \in Outcomes[exit[s]]
    /\ phase' = [phase EXCEPT ![s] = "ok"]
    /\ part' = [part EXCEPT ![s] = IF @ = "partial" THEN "full" ELSE @]
    /\ UNCHANGED <<plan, exit, attempt, tried, failedAt, clock, joined, result>>

\* The attempt fails; is_retryable decides between "failed" and "fatal".
FailSilently(s) ==   \* mutant: SegmentFailed is sent after the test of is_retryable
    /\ \/ /\ phase[s] = "sent"
          /\ \/ /\ "refuse" \in Outcomes[exit[s]]
                /\ phase' = [phase EXCEPT ![s] = "failed"]
             \/ /\ "reject" \in Outcomes[exit[s]]
                /\ phase' = [phase EXCEPT ![s] = "fatal"]
       \/ /\ phase[s] = "streaming"
          /\ "truncate" \in Outcomes[exit[s]]
          /\ phase' = [phase EXCEPT ![s] = "failed"]
    /\ tried' = [tried EXCEPT ![s] = IF phase'[s] = "fatal" THEN @ ELSE @ \cup {exit[s]}]
    /\ UNCHANGED <<plan, exit, attempt, part, failedAt, clock, joined, result>>

Fail(s) ==
    /\ \/ /\ phase[s] = "sent"
          /\ \/ /\ "refuse" \in Outcomes[exit[s]]
                /\ phase' = [phase EXCEPT ![s] = "failed"]
             \/ /\ "reject" \in Outcomes[exit[s]]
                /\ phase' = [phase EXCEPT ![s] = "fatal"]
       \/ /\ phase[s] = "streaming"
          /\ "truncate" \in Outcomes[exit[s]]
          /\ phase' = [phase EXCEPT ![s] = "failed"]
    /\ tried' = [tried EXCEPT ![s] = @ \cup {exit[s]}]
    /\ UNCHANGED <<plan, exit, attempt, part, failedAt, clock, joined, result>>

\* The peer stops answering: the client has a connect timeout and no other.
Stall(s) ==
    /\ phase[s] \in {"sent", "streaming"}
    /\ "stall" \in Outcomes[exit[s]]
    /\ phase' = [phase EXCEPT ![s] = "stalled"]
    /\ UNCHANGED <<plan, exit, attempt, tried, part, failedAt, clock, joined, result>>

(***************************************************************************)
(* What follows a failed attempt (download_with_retry, ExitSelector).      *)
(***************************************************************************)

\* The part file is removed; a non-retryable error ends the task.
CleanAfterMismatchOnly(s) ==   \* mutant: only download_attempt's own removal
    /\ phase[s] \in {"failed", "fatal"}
    /\ UNCHANGED part
    /\ phase' = [phase EXCEPT ![s] = IF @ = "fatal" THEN "aborted" ELSE "cleaned"]
    /\ UNCHANGED <<plan, exit, attempt, tried, failedAt, clock, joined, result>>

Clean(s) ==
    /\ phase[s] \in {"failed", "fatal"}
    /\ \/ part' = [part EXCEPT ![s] = "none"]
       \/ RemoveMayFail /\ UNCHANGED part
    /\ phase' = [phase EXCEPT ![s] = IF @ = "fatal" THEN "aborted" ELSE "cleaned"]
    /\ UNCHANGED <<plan, exit, attempt, tried, failedAt, clock, joined, result>>

\* The failure is stamped under the lock.  The last attempt gives up.
MarkAfterGivingUp(s) ==   \* mutant: only the last attempt stamps its exit
    /\ phase[s] = "cleaned"
    /\ \E now \in {clock, clock + 1} :
          /\ clock' = now
          /\ failedAt' = IF attempt[s] >= MaxAttempts
                         THEN [failedAt EXCEPT ![exit[s]] = now] ELSE failedAt
    /\ phase' = [phase EXCEPT ![s] = IF attempt[s] >= MaxAttempts
                                      THEN "exhausted" ELSE "picking"]
    /\ UNCHANGED <<plan, exit, attempt, tried, part, joined, result>>

MarkFailedOffByOne(s) ==   \* mutant: one attempt too many
    /\ phase[s] = "cleaned"
    /\ \E now \in {clock, clock + 1} :
          /\ clock' = now
          /\ failedAt' = [failedAt EXCEPT ![exit[s]] = now]
    /\ phase' = [phase EXCEPT ![s] = IF attempt[s] > MaxAttempts
                                      THEN "exhausted" ELSE "picking"]
    /\ UNCHANGED <<plan, exit, attempt, tried, part, joined, result>>

MarkFailed(s) ==
    /\ phase[s] = "cleaned"
    /\ \E now \in {clock, clock + 1} :
          /\ clock' = now
          /\ failedAt' = [failedAt EXCEPT ![exit[s]] = now]
    /\ phase' = [phase EXCEPT ![s] = IF attempt[s] >= MaxAttempts
                                      THEN "exhausted" ELSE "picking"]
    /\ UNCHANGED <<plan, exit, attempt, tried, part, joined, result>>

\* Of the exits other than the one just failed on, the one that failed least
\* recently: never failed before oldest stamp, ties to the lower id.
IsBestIgnoringStamps(e, avoid) ==   \* mutant: the lowest other id
    \/ Exits = {avoid} /\ e = avoid
    \/ /\ e \in Exits \ {avoid}
       /\ \A d \in Exits \ {avoid} : e <= d

IsBest(e, avoid) ==
    \/ Exits = {avoid} /\ e = avoid
    \/ /\ e \in Exits \ {avoid}
       /\ \A d \in Exits \ {avoid} :
            \/ failedAt[e] < failedAt[d]
            \/ failedAt[e] = failedAt[d] /\ e <= d

PickRetry(s) ==
    /\ phase[s] = "picking"
    /\ \E e \in Exits : /\ IsBest(e, exit[s])
                        /\ exit' = [exit EXCEPT ![s] = e]
    /\ phase' = [phase EXCEPT ![s] = "loop"]
    /\ UNCHANGED <<plan, attempt, tried, part, failedAt, clock, joined, result>>

(***************************************************************************)
(* The specification.                                                      *)
(***************************************************************************)

TaskStep(s) ==
    \/ StartAttempt(s) \/ OpenPart(s) \/ Complete(s) \/ Fail(s) \/ Stall(s)
    \/ Clean(s) \/ MarkFailed(s) \/ PickRetry(s)

\* Nothing left to do: the call has returned or waits for a stalled task.
Quiet ==
    /\ result # "idle"
    /\ \A s \in Index : phase[s] \in Ended \cup {"none", "stalled"}
    /\ result = "running" => phase[joined + 1] = "stalled"
    /\ UNCHANGED vars

Next ==
    \/ Start
    \/ Join
    \/ \E s \in Index : TaskStep(s)
    \/ Quiet

\* The runtime keeps polling the caller and every spawned task; a task that
\* waits for the network is either answered or stalls.
Fairness ==
    /\ WF_vars(Start)
    /\ WF_vars(Join)
    /\ \A s \in Index : WF_vars(TaskStep(s))

Spec == Init /\ [][Next]_vars
FairSpec == Spec /\ Fairness

(***************************************************************************)
(* Properties.                                                             *)
(***************************************************************************)

Reliable == {e \in Exits : Outcomes[e] = {"serve"}}

\* There are fewer unreliable exits than attempts.
RetriesSuffice ==
    Reliable # {} /\ Cardinality(Exits \ Reliable) < MaxAttempts

\* A segment goes back to an exit it has already failed on only when every
\* exit has failed for some segment of the run (pick_retry with mark_failed,
\* whatever the other tasks do between the two).
RepeatOnlyWhenAllFailed ==
    \A s \in Index :
        phase[s] \in {"loop", "sent", "streaming"} /\ exit[s] \in tried[s]
            => \A e \in Exits : failedAt[e] # 0

\* With one exit that always delivers and fewer other exits than attempts, no
\* segment runs out of attempts, whatever exits were planned and however the
\* failures of the segments interleave (download_with_retry).
ReliableExitWins ==
    RetriesSuffice => \A s \in Index : phase[s] # "exhausted"

\* The call returns Ok only when every planned segment has its whole range on
\* disk, even if earlier attempts or runs left part files that could not be
\* removed (run_segments_with_policy, download_attempt).
OkMeansComplete ==
    result = "ok" => \A s \in Planned : part[s] = "full"

\* When removals succeed, a failed attempt leaves no part file, not even one
\* of an earlier run, neither between attempts nor when the task gives up.
NoLeftoverPart ==
    ~RemoveMayFail =>
        \A s \in Index :
            phase[s] \in {"cleaned", "picking", "aborted", "exhausted"}
                \/ (phase[s] = "loop" /\ attempt[s] > 0)
            => part[s] = "none"

\* The call keeps the contract its caller relies on: Ok only over complete part
\* files, which nothing touches afterwards (module PartFetch).
Contract == INSTANCE PartFetch
ImplementsPartFetch == Contract!Spec

\* With enough attempts for the unreliable exits and no refusal by the target, every
\* planned fetch over known exits succeeds, unless a transfer stalls for good or there
\* is no parts directory.
ReliableFetchSucceeds ==
    (/\ RetriesSuffice
     /\ \A e \in Exits : "reject" \notin Outcomes[e]
     /\ PlanIds \subseteq Exits)
        => <>(\/ result \in {"ok", "no_directory"}
              \/ \E s \in Index : phase[s] = "stalled")
=============================================================================
