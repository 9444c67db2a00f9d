------------------------------ MODULE MeshFetch ------------------------------
(***************************************************************************)
(* A fetch through the exits of neighbours: the segment tasks of sn-fetch  *)
(* (exec.rs, exit.rs) composed with the answers of sn-exit (proxy.rs).  An *)
(* exit can refuse a connection itself, and what the task makes of that    *)
(* depends on the scheme of the target: an http request is answered by the *)
(* exit as if it were the target, an https one fails with its CONNECT.     *)
(*                                                                         *)
(* The tasks take the steps of SegmentRetry; what is added is who answers  *)
(* a request, and with what.                                               *)
(***************************************************************************)
EXTENDS Naturals, FiniteSets

CONSTANTS
    Exits, PlanIds, MaxSegments, MaxAttempts, RemoveMayFail,   \* see SegmentRetry
    Local,       \* exits that are the household's own uplink
    Listing,     \* exits of neighbours that have the household on their allowlist
    Limited,     \* exits of neighbours with a quota
    Path         \* for every exit, what a request that is let through can come to

VARIABLES
    plan, phase, exit, attempt, tried, part, failedAt, clock, joined, result,
    scheme,      \* of the target
    answer       \* history: who ended the last failed attempt of each segment

retryVars == <<plan, phase, exit, attempt, tried, part, failedAt, clock, joined, result>>
meshVars == <<scheme, answer>>
vars == <<retryVars, meshVars>>

Mesh == Exits \ Local

\* What the task can see of an exit: the path's outcomes, if the connection is let in,
\* the 503 of a quota, and the 403 of an allowlist, which over https is a failed CONNECT.
Outcomes ==
    [e \in Exits |->
        IF e \in Mesh \ Listing THEN {"refuse", "reject"}
        ELSE Path[e] \cup (IF e \in Limited THEN {"refuse"} ELSE {})]

Retry == INSTANCE SegmentRetry WITH Outcomes <- Outcomes

ASSUME MeshAssumption ==
    /\ Exits \subseteq Nat /\ IsFiniteSet(Exits) /\ Exits # {}
    /\ PlanIds \subseteq Nat
    /\ MaxSegments \in Nat \ {0} /\ MaxAttempts \in Nat \ {0}
    /\ RemoveMayFail \in BOOLEAN
    /\ Local \subseteq Exits /\ Listing \subseteq Exits \ Local /\ Limited \subseteq Exits \ Local
    /\ Path \in [Exits -> (SUBSET {"serve", "refuse", "truncate", "reject", "stall"}) \ {{}}]

Index == 1..MaxSegments

TypeOK ==
    /\ Retry!TypeOK
    /\ scheme \in {"http", "https"}
    /\ answer \in [Index -> {"none", "exit", "path", "target"}]
    /\ \A s \in Index : answer[s] = "none" <=> tried[s] = {}

Init ==
    /\ Retry!Init
    /\ scheme \in {"http", "https"}
    /\ answer = [s \in Index |-> "none"]

(***************************************************************************)
(* What a request comes to.                                                *)
(***************************************************************************)
Fails(s, place, who) ==
    /\ phase' = [phase EXCEPT ![s] = place]
    /\ answer' = [answer EXCEPT ![s] = who]
    /\ UNCHANGED scheme
    /\ Retry!Fail(s)

\* 403: a 4xx like any other if the request was an http one; the client of a tunnel
\* reports that it could not connect, which has no status.
RefusalByStatus == "fatal"   \* mutant: the status of a failed CONNECT counts as well

Refusal == IF scheme = "http" THEN "fatal" ELSE "failed"

Forbidden(s) ==
    /\ phase[s] = "sent" /\ exit[s] \in Mesh \ Listing
    /\ Fails(s, Refusal, "exit")

\* 503, a status that is_retryable lets through, or a failed CONNECT.
QuotaExhausted(s) ==
    /\ phase[s] = "sent" /\ exit[s] \in Listing \cap Limited
    /\ Fails(s, "failed", "exit")

LetIn(s) == exit[s] \in Local \cup Listing

\* The name does not resolve, nothing connects, or the transfer breaks off: after 206,
\* and in a tunnel also after the 200 that the exit sends before it connects.
Broken(s) ==
    /\ LetIn(s)
    /\ \/ phase[s] = "sent" /\ "refuse" \in Path[exit[s]]
       \/ phase[s] = "streaming"
    /\ Fails(s, "failed", "path")

\* A 4xx, or any other status than 206, of the target.
Rejected(s) ==
    /\ LetIn(s) /\ phase[s] = "sent" /\ "reject" \in Path[exit[s]]
    /\ Fails(s, "fatal", "target")

Answered(s) ==
    /\ LetIn(s)
    /\ UNCHANGED meshVars
    /\ Retry!OpenPart(s) \/ Retry!Complete(s) \/ Retry!Stall(s)

(***************************************************************************)
(* The specification.                                                      *)
(***************************************************************************)
Request(s) ==
    Forbidden(s) \/ QuotaExhausted(s) \/ Broken(s) \/ Rejected(s) \/ Answered(s)

\* The rest of a task, and of the call, does not know about exits.
TaskStep(s) ==
    \/ Request(s)
    \/ /\ UNCHANGED meshVars
       /\ Retry!StartAttempt(s) \/ Retry!Clean(s) \/ Retry!MarkFailed(s) \/ Retry!PickRetry(s)

Caller == UNCHANGED meshVars /\ (Retry!Start \/ Retry!Join)

Next ==
    \/ Caller
    \/ \E s \in Index : TaskStep(s)
    \/ UNCHANGED meshVars /\ Retry!Quiet

Spec == Init /\ [][Next]_vars

\* As in SegmentRetry: the runtime polls the caller and every task.
FairSpec == Spec /\ WF_vars(Caller) /\ \A s \in Index : WF_vars(TaskStep(s))

(***************************************************************************)
(* Properties.                                                             *)
(***************************************************************************)

\* What ends a fetch early is the target's refusal, or, over plain http only, an exit
\* that does not list the household: never a quota, a tunnel or a broken path.
OnlyARefusalEndsTheFetch ==
    \A s \in Index : phase[s] \in {"fatal", "aborted"} =>
        \/ answer[s] = "target"
        \/ answer[s] = "exit" /\ scheme = "http" /\ exit[s] \in Mesh \ Listing

\* Exits that take every connection of the household and bring every segment.
Willing == {e \in Local \cup (Listing \ Limited) : Path[e] = {"serve"}}

Enough == Willing # {} /\ Cardinality(Exits \ Willing) < MaxAttempts

\* With one willing exit and fewer others than attempts, no segment runs out of attempts,
\* over either scheme: a task that is turned away by neighbours gets to the willing exit
\* in time, although the other tasks' failures decide with its own where it goes next.
WillingExitSuffices == Enough => \A s \in Index : phase[s] # "exhausted"

\* With one willing exit and fewer others than attempts, a fetch of an https target ends
\* in success, whoever has a quota, does not list the household, or acknowledges tunnels
\* it cannot connect, unless the target refuses, a transfer stalls for good, or there is
\* no parts directory.
WillingFetchSucceeds ==
    Enough /\ PlanIds \subseteq Exits
        => (scheme = "https" ~>
               \/ result \in {"ok", "no_directory"}
               \/ \E s \in Index : phase[s] = "stalled" \/ answer[s] = "target")

\* "Non-retryable: 4xx range rejections [...] - retrying those on another exit cannot
\* succeed" (is_retryable).
RetryCannotSucceed ==
    \A s \in Index : phase[s] = "aborted" => Willing = {}
=============================================================================
