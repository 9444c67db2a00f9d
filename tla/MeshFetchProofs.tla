--------------------------- MODULE MeshFetchProofs ---------------------------
(***************************************************************************)
(* What ends a fetch early is a refusal, and what is proved of the segment *)
(* executor holds beside allowlists and quotas, too, for any exits and     *)
(* plans: SegmentRetryProofs is instantiated with the answers of the exits *)
(* and its theorems are cited.  That MeshFetch takes the executor's steps  *)
(* is by its definitions, and a lemma here.                                *)
(***************************************************************************)
EXTENDS MeshFetch, FiniteSetTheorems, TLAPS

Executor == INSTANCE SegmentRetryProofs WITH Outcomes <- Outcomes

Phases == {"ok", "aborted", "exhausted", "none", "loop", "sent", "streaming",
           "failed", "fatal", "cleaned", "picking", "stalled"}

\* What the refusal of a task rests on.
RefusalInv ==
    /\ phase \in [Index -> Phases]
    /\ exit = [s \in Index |-> exit[s]]
    /\ answer \in [Index -> {"none", "exit", "path", "target"}]
    /\ OnlyARefusalEndsTheFetch

LEMMA InitRefusal == Init => RefusalInv
BY DEF Init, Retry!Init, Retry!Index, Index, RefusalInv, Phases, OnlyARefusalEndsTheFetch

\* The answers of an exit, and of the path behind it, are failures of an attempt or steps
\* of the task as it is.
LEMMA RequestIsRetry ==
    ASSUME NEW s \in Index, Request(s)
    PROVE  Retry!TaskStep(s)
BY DEF Request, Forbidden, QuotaExhausted, Broken, Rejected, Answered, Fails, Retry!TaskStep

LEMMA StepIsRetryStep ==
    ASSUME [Next]_vars
    PROVE  [Retry!Next]_(Retry!vars)
<1>1. CASE Caller
  BY <1>1 DEF Caller, Retry!Next
<1>2. ASSUME NEW s \in Index, TaskStep(s) PROVE Retry!Next
  <2>1. Retry!TaskStep(s)
    BY <1>2, RequestIsRetry DEF TaskStep, Retry!TaskStep
  <2> QED  BY <2>1 DEF Retry!Next, Retry!Index, Index
<1>3. CASE Retry!Quiet
  BY <1>3 DEF Retry!Next
<1>4. CASE UNCHANGED vars
  BY <1>4 DEF vars, retryVars, Retry!vars
<1> QED  BY <1>1, <1>2, <1>3, <1>4 DEF Next

\* MeshFetch takes no other steps than those of SegmentRetry.
LEMMA MeshIsRetry == Spec => Retry!Spec
<1>1. Init => Retry!Init
  BY DEF Init
<1>2. [Next]_vars => [Retry!Next]_(Retry!vars)
  BY StepIsRetryStep
<1> QED  BY <1>1, <1>2, PTL DEF Spec, Retry!Spec

-----------------------------------------------------------------------------

\* Only a rejection that the exit or the target has made is fatal.
LEMMA FailsRefusal ==
    ASSUME RefusalInv, NEW s \in Index,
           Forbidden(s) \/ QuotaExhausted(s) \/ Broken(s) \/ Rejected(s)
    PROVE  RefusalInv'
<1>1. UNCHANGED <<exit, scheme>>
  BY DEF Forbidden, QuotaExhausted, Broken, Rejected, Fails, Retry!Fail
<1>2. PICK place \in {"failed", "fatal"}, who \in {"exit", "path", "target"} :
        /\ phase' = [phase EXCEPT ![s] = place]
        /\ answer' = [answer EXCEPT ![s] = who]
        /\ place = "fatal" => \/ who = "target"
                              \/ who = "exit" /\ scheme = "http" /\ exit[s] \in Mesh \ Listing
  BY DEF Forbidden, QuotaExhausted, Broken, Rejected, Fails, Refusal
<1>3. phase' \in [Index -> Phases] /\ answer' \in [Index -> {"none", "exit", "path", "target"}]
  BY <1>2 DEF RefusalInv, Phases
<1>4. OnlyARefusalEndsTheFetch'
  BY <1>1, <1>2 DEF RefusalInv, OnlyARefusalEndsTheFetch
<1>5. exit' = [t \in Index |-> exit'[t]]
  BY <1>1 DEF RefusalInv
<1> QED  BY <1>3, <1>4, <1>5 DEF RefusalInv

\* The other steps of a task keep who refused it, and its exit while it is refused.
LEMMA TaskRefusal ==
    ASSUME RefusalInv, NEW s \in Index, UNCHANGED meshVars,
           \/ Retry!OpenPart(s) \/ Retry!Complete(s) \/ Retry!Stall(s)
           \/ Retry!StartAttempt(s) \/ Retry!Clean(s) \/ Retry!MarkFailed(s)
           \/ Retry!PickRetry(s)
    PROVE  RefusalInv'
<1> USE DEF Retry!OpenPart, Retry!Complete, Retry!Stall, Retry!StartAttempt,
            Retry!Clean, Retry!MarkFailed, Retry!PickRetry
<1>1. PICK place \in Phases :
        /\ phase' = [phase EXCEPT ![s] = place]
        /\ place \in {"fatal", "aborted"} => phase[s] \in {"fatal", "aborted"} /\ UNCHANGED exit
  BY DEF Phases
<1>2. \A t \in Index : phase'[t] \in {"fatal", "aborted"} =>
        phase[t] \in {"fatal", "aborted"} /\ exit'[t] = exit[t]
  <2>1. \A t \in Index \ {s} : phase'[t] = phase[t]
    BY <1>1 DEF RefusalInv
  <2>2. UNCHANGED exit \/ \E e \in Exits : exit' = [exit EXCEPT ![s] = e]
    OBVIOUS
  <2>3. \A t \in Index \ {s} : exit'[t] = exit[t]
    <3>1. exit = [t \in Index |-> exit[t]]
      BY DEF RefusalInv
    <3> QED  BY <2>2, <3>1
  <2>4. phase'[s] = place
    BY <1>1 DEF RefusalInv
  <2> QED  BY <1>1, <2>1, <2>3, <2>4
<1>3. exit' = [t \in Index |-> exit'[t]]
  BY DEF RefusalInv
<1> QED  BY <1>1, <1>2, <1>3 DEF RefusalInv, OnlyARefusalEndsTheFetch, meshVars

LEMMA CallerRefusal == ASSUME RefusalInv, Caller PROVE RefusalInv'
<1>1. UNCHANGED <<exit, scheme, answer>>
  BY DEF Caller, meshVars, Retry!Start, Retry!Join, Retry!taskVars
<1>2. phase' = phase \/ phase' = [s \in Index |-> IF s \in DOMAIN plan THEN "loop" ELSE "none"]
  BY DEF Caller, Retry!Start, Retry!Join, Retry!taskVars, Retry!Planned, Retry!Index, Index
<1> QED  BY <1>1, <1>2 DEF RefusalInv, OnlyARefusalEndsTheFetch, Phases

\* A quota, a broken path and a tunnel that comes to nothing never end a fetch; a
\* neighbour that does not list the household does, but only over plain http.
THEOREM RefusalsEndFetches == Spec => []OnlyARefusalEndsTheFetch
<1>1. RefusalInv /\ [Next]_vars => RefusalInv'
  <2> SUFFICES ASSUME RefusalInv, [Next]_vars PROVE RefusalInv'
    OBVIOUS
  <2>1. CASE Caller
    BY <2>1, CallerRefusal
  <2>2. ASSUME NEW s \in Index, TaskStep(s) PROVE RefusalInv'
    BY <2>2, FailsRefusal, TaskRefusal DEF TaskStep, Request, Answered
  <2>3. CASE UNCHANGED meshVars /\ Retry!Quiet
    BY <2>3 DEF meshVars, Retry!Quiet, Retry!vars, RefusalInv, OnlyARefusalEndsTheFetch
  <2>4. CASE UNCHANGED vars
    BY <2>4 DEF vars, retryVars, meshVars, RefusalInv, OnlyARefusalEndsTheFetch
  <2> QED  BY <2>1, <2>2, <2>3, <2>4 DEF Next
<1>2. RefusalInv => OnlyARefusalEndsTheFetch
  BY DEF RefusalInv
<1> QED  BY <1>1, <1>2, InitRefusal, PTL DEF Spec

-----------------------------------------------------------------------------
(* What the mesh inherits from the executor.                               *)

\* The answers of the exits are outcomes that the executor knows.
LEMMA ExecutorAssumption ==
    /\ Exits \subseteq Nat /\ Executor!IsFiniteSet(Exits) /\ Exits # {}
    /\ PlanIds \subseteq Nat
    /\ MaxSegments \in Nat \ {0}
    /\ MaxAttempts \in Nat \ {0}
    /\ Outcomes \in [Exits -> SUBSET Executor!Outcome] /\ \A e \in Exits : Outcomes[e] # {}
    /\ RemoveMayFail \in BOOLEAN
<1>1. Executor!IsFiniteSet(Exits)
  BY MeshAssumption DEF IsFiniteSet, Executor!IsFiniteSet
<1>2. Outcomes \in [Exits -> SUBSET Executor!Outcome] /\ \A e \in Exits : Outcomes[e] # {}
  BY MeshAssumption DEF Outcomes, Executor!Outcome, Mesh
<1> QED  BY <1>1, <1>2, MeshAssumption

\* The two instances of SegmentRetry are the same specification.
LEMMA SameExecutor == Spec => Executor!Spec
<1> USE DEF Retry!Index, Retry!Planned, Retry!Ended, Retry!vars, Retry!taskVars,
            Executor!Index, Executor!Planned, Executor!Ended, Executor!vars, Executor!taskVars
<1>1. Retry!Init => Executor!Init
  BY DEF Retry!Init, Executor!Init
<1>2. [Retry!Next]_(Retry!vars) => [Executor!Next]_(Executor!vars)
  <2> SUFFICES ASSUME Retry!Next PROVE Executor!Next
    OBVIOUS
  <2>1. CASE Retry!Start
    BY <2>1 DEF Retry!Start, Executor!Start, Executor!Next
  <2>2. CASE Retry!Join
    BY <2>2 DEF Retry!Join, Executor!Join, Executor!Next
  <2>3. ASSUME NEW s \in Retry!Index, Retry!TaskStep(s) PROVE Executor!TaskStep(s)
    <3>1. CASE Retry!StartAttempt(s)
      BY <3>1 DEF Retry!StartAttempt, Executor!StartAttempt, Executor!TaskStep
    <3>2. CASE Retry!OpenPart(s)
      BY <3>2 DEF Retry!OpenPart, Executor!OpenPart, Executor!TaskStep
    <3>3. CASE Retry!Complete(s)
      BY <3>3 DEF Retry!Complete, Executor!Complete, Executor!TaskStep
    <3>4. CASE Retry!Fail(s)
      BY <3>4 DEF Retry!Fail, Executor!Fail, Executor!TaskStep
    <3>5. CASE Retry!Stall(s)
      BY <3>5 DEF Retry!Stall, Executor!Stall, Executor!TaskStep
    <3>6. CASE Retry!Clean(s)
      BY <3>6 DEF Retry!Clean, Executor!Clean, Executor!TaskStep
    <3>7. CASE Retry!MarkFailed(s)
      BY <3>7 DEF Retry!MarkFailed, Executor!MarkFailed, Executor!TaskStep
    <3>8. CASE Retry!PickRetry(s)
      BY <3>8 DEF Retry!PickRetry, Executor!PickRetry, Retry!IsBest, Executor!IsBest,
                  Executor!TaskStep
    <3> QED
      BY <2>3, <3>1, <3>2, <3>3, <3>4, <3>5, <3>6, <3>7, <3>8 DEF Retry!TaskStep
  <2>4. CASE Retry!Quiet
    BY <2>4 DEF Retry!Quiet, Executor!Quiet, Executor!Next
  <2> QED  BY <2>1, <2>2, <2>3, <2>4 DEF Retry!Next, Executor!Next
<1> QED
  BY <1>1, <1>2, MeshIsRetry, PTL DEF Retry!Spec, Executor!Spec

\* The executor's safety in the mesh: no early repeat of an exit, no exhausted segment
\* beside an exit that always delivers, Ok only over complete part files, and no part
\* file left over, whatever the exits' allowlists and quotas answer.
THEOREM MeshKeepsTheExecutorSafe ==
    Spec => [](/\ Retry!RepeatOnlyWhenAllFailed /\ Retry!ReliableExitWins
               /\ Retry!OkMeansComplete /\ Retry!NoLeftoverPart)
<1>1. Executor!RepeatOnlyWhenAllFailed => Retry!RepeatOnlyWhenAllFailed
  BY DEF Executor!RepeatOnlyWhenAllFailed, Retry!RepeatOnlyWhenAllFailed,
         Executor!Index, Retry!Index
<1>2. Executor!ReliableExitWins => Retry!ReliableExitWins
  BY DEF Executor!ReliableExitWins, Retry!ReliableExitWins, Executor!RetriesSuffice,
         Retry!RetriesSuffice, Executor!Reliable, Retry!Reliable, Executor!Index, Retry!Index,
         Executor!Cardinality, Retry!Cardinality
<1>3. Executor!OkMeansComplete => Retry!OkMeansComplete
  BY DEF Executor!OkMeansComplete, Retry!OkMeansComplete, Executor!Planned, Retry!Planned
<1>4. Executor!NoLeftoverPart => Retry!NoLeftoverPart
  BY DEF Executor!NoLeftoverPart, Retry!NoLeftoverPart, Executor!Index, Retry!Index
<1>5. /\ Executor!Spec => []Executor!RepeatOnlyWhenAllFailed
      /\ Executor!Spec => []Executor!ReliableExitWins
      /\ Executor!Spec => []Executor!OkMeansComplete
      /\ Executor!Spec => []Executor!NoLeftoverPart
  BY ExecutorAssumption, Executor!NoEarlyRepeat, Executor!ReliableExitAlwaysWins,
     Executor!OkAlwaysMeansComplete, Executor!NoPartLeftOver
<1> QED  BY <1>1, <1>2, <1>3, <1>4, <1>5, SameExecutor, PTL

-----------------------------------------------------------------------------
(* The types.                                                              *)

\* Who ended the last failed attempt is known as soon as there was one.
AnswerInv ==
    /\ scheme \in {"http", "https"}
    /\ answer \in [Index -> {"none", "exit", "path", "target"}]
    /\ \A s \in Index : answer[s] = "none" <=> tried[s] = {}

LEMMA AnswerStep ==
    ASSUME Retry!TypeOK, AnswerInv, [Next]_vars
    PROVE  AnswerInv'
<1>1. tried \in [Index -> SUBSET Exits]
  BY DEF Retry!TypeOK, Retry!Index, Index
<1>2. ASSUME UNCHANGED <<tried, scheme, answer>> PROVE AnswerInv'
  BY <1>2 DEF AnswerInv
<1>3. ASSUME NEW s \in Index,
             Forbidden(s) \/ QuotaExhausted(s) \/ Broken(s) \/ Rejected(s)
      PROVE  AnswerInv'
  <2>1. PICK who \in {"exit", "path", "target"} :
          /\ answer' = [answer EXCEPT ![s] = who]
          /\ UNCHANGED scheme
          /\ tried' = [tried EXCEPT ![s] = @ \cup {exit[s]}]
    BY <1>3 DEF Forbidden, QuotaExhausted, Broken, Rejected, Fails, Retry!Fail
  <2>2. \A t \in Index : /\ t = s => answer'[t] = who /\ tried'[t] # {}
                         /\ t # s => answer'[t] = answer[t] /\ tried'[t] = tried[t]
    BY <1>1, <2>1 DEF AnswerInv
  <2> QED  BY <2>1, <2>2 DEF AnswerInv
<1>4. ASSUME NEW s \in Index, TaskStep(s) PROVE AnswerInv'
  <2>1. CASE Forbidden(s) \/ QuotaExhausted(s) \/ Broken(s) \/ Rejected(s)
    BY <1>3, <2>1
  <2>2. CASE UNCHANGED <<tried, scheme, answer>>
    BY <1>2, <2>2
  <2> QED
    BY <1>4, <2>1, <2>2
       DEF TaskStep, Request, Answered, meshVars, Retry!OpenPart, Retry!Complete, Retry!Stall,
           Retry!StartAttempt, Retry!Clean, Retry!MarkFailed, Retry!PickRetry
<1>5. CASE Caller
  BY <1>2, <1>5 DEF Caller, meshVars, Retry!Start, Retry!Join, Retry!taskVars
<1>6. CASE UNCHANGED meshVars /\ Retry!Quiet
  BY <1>2, <1>6 DEF meshVars, Retry!Quiet, Retry!vars
<1>7. CASE UNCHANGED vars
  BY <1>2, <1>7 DEF vars, retryVars, meshVars
<1> QED  BY <1>4, <1>5, <1>6, <1>7 DEF Next

\* Type correctness of the fetch through exits, with what it remembers of the answers.
THEOREM MeshTypeCorrect == Spec => []TypeOK
<1>1. Spec => []Retry!TypeOK
  <2>1. Executor!TypeOK => Retry!TypeOK
    BY DEF Executor!TypeOK, Retry!TypeOK, Executor!Ended, Retry!Ended, Executor!Index, Retry!Index
  <2>2. Executor!Spec => []Executor!TypeOK
    BY ExecutorAssumption, Executor!TypeCorrect
  <2> QED  BY <2>1, <2>2, SameExecutor, PTL
<1>2. Init => AnswerInv
  BY DEF Init, AnswerInv, Retry!Init, Retry!Index, Index
<1>3. Retry!TypeOK /\ AnswerInv /\ [Next]_vars => AnswerInv'
  BY AnswerStep
<1>4. Retry!TypeOK /\ AnswerInv => TypeOK
  BY DEF TypeOK, AnswerInv
<1> QED  BY <1>1, <1>2, <1>3, <1>4, PTL DEF Spec

\* Beside a willing exit, with fewer others than attempts, no segment runs out of
\* attempts, whatever the unwilling neighbours do (download_with_retry and pick_retry,
\* with the answers of handle_connection).
THEOREM WillingExitWins == Spec => []WillingExitSuffices
<1>1. Willing \subseteq Retry!Reliable
  BY MeshAssumption DEF Willing, Retry!Reliable, Outcomes, Mesh
<1>2. Enough => Retry!RetriesSuffice
  <2> SUFFICES ASSUME Willing # {}, Cardinality(Exits \ Willing) < MaxAttempts
               PROVE  Retry!Reliable # {} /\ Cardinality(Exits \ Retry!Reliable) < MaxAttempts
    BY DEF Enough, Retry!RetriesSuffice, Retry!Cardinality, Cardinality
  <2>1. /\ IsFiniteSet(Exits \ Willing)
        /\ Exits \ Retry!Reliable \subseteq Exits \ Willing
    BY <1>1, MeshAssumption, FS_Subset
  <2>2. /\ Cardinality(Exits \ Retry!Reliable) \in Nat /\ Cardinality(Exits \ Willing) \in Nat
        /\ Cardinality(Exits \ Retry!Reliable) <= Cardinality(Exits \ Willing)
    BY <2>1, FS_Subset, FS_CardinalityType
  <2> QED  BY <1>1, <2>2, MeshAssumption
<1>3. Retry!ReliableExitWins => WillingExitSuffices
  BY <1>2 DEF WillingExitSuffices, Retry!ReliableExitWins, Retry!Index, Index
<1>4. Spec => []Retry!ReliableExitWins
  BY MeshKeepsTheExecutorSafe, PTL
<1> QED  BY <1>3, <1>4, PTL
=============================================================================
