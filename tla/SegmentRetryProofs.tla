------------------------- MODULE SegmentRetryProofs -------------------------
(***************************************************************************)
(* The safety properties of SegmentRetry, for every registry of exits,     *)
(* every plan, every number of attempts and every behaviour of the exits.  *)
(*                                                                         *)
(* None of them is inductive.  IInv adds what the tasks keep between their *)
(* steps: the exits a task failed on are the stamped ones, except the one  *)
(* it is about to stamp (StampInv); a dependable exit is never stamped     *)
(* (ReliableInv); attempts are counted by the exits failed on (CountInv);  *)
(* the handles joined so far belong to complete part files (PartInv).      *)
(***************************************************************************)
EXTENDS SegmentRetry, FiniteSetTheorems, WellFoundedInduction, TLAPS

Failing == {"failed", "fatal", "cleaned"}   \* failed, not yet stamped
Trying == {"loop", "sent", "streaming"}

\* The caller joins handles 1..n in order, and every handle has a task.
CallerInv ==
    /\ result \in {"idle", "running"} => joined + 1 \in Planned
    /\ result = "idle" =>
         /\ joined = 0
         /\ \A s \in Index : phase[s] = "none" /\ attempt[s] = 0 /\ tried[s] = {}
         /\ \A s \in Planned : exit[s] = plan[s]
    /\ result \in {"no_directory", "unknown_exit"} => \A s \in Index : phase[s] = "none"
    /\ \A s \in Index : phase[s] # "none" => s \in Planned /\ exit[s] \in Exits

\* Complete part files stay, and joined segments are complete.
PartInv ==
    /\ \A s \in Index : phase[s] = "streaming" => part[s] = "partial"
    /\ \A s \in Index : phase[s] = "ok" <=> part[s] = "full"
    /\ result = "running" => \A s \in 1..joined : phase[s] = "ok"
    /\ result = "ok" => \A s \in Planned : phase[s] = "ok"

\* A task picks an exit, and starts an attempt, only while attempts are left.
LimitInv ==
    \A s \in Index : phase[s] \in {"loop", "picking"} => attempt[s] < MaxAttempts

\* Every exit a task failed on has a stamp, or is about to get it.
StampInv ==
    /\ clock > 0
    /\ \A s \in Index : phase[s] \in Failing \cup {"picking"} => exit[s] \in tried[s]
    /\ \A s \in Index : \A e \in tried[s] :
         \/ failedAt[e] # 0
         \/ e = exit[s] /\ phase[s] \in Failing \cup {"aborted"}

\* Dependable exits never fail.
ReliableInv ==
    /\ \A s \in Index : tried[s] \cap Reliable = {}
    /\ \A e \in Reliable : failedAt[e] = 0

\* While a dependable exit exists, a task never fails twice on one exit.
CountInv ==
    Reliable # {} => \A s \in Index :
        /\ phase[s] \in {"loop", "picking", "exhausted"} \cup Failing
             => attempt[s] = Cardinality(tried[s])
        /\ phase[s] \in {"sent", "streaming"}
             => attempt[s] = Cardinality(tried[s]) + 1
        /\ phase[s] = "exhausted" => attempt[s] >= MaxAttempts

IInv ==
    /\ TypeOK
    /\ CallerInv
    /\ PartInv
    /\ LimitInv
    /\ StampInv
    /\ RepeatOnlyWhenAllFailed
    /\ ReliableInv
    /\ CountInv

-----------------------------------------------------------------------------

\* The number of exits a task failed on: finite, and one more with each new one.
LEMMA TriedCount ==
    ASSUME TypeOK, NEW s \in Index, NEW e \in Exits, e \notin tried[s]
    PROVE  /\ IsFiniteSet(tried[s])
           /\ Cardinality(tried[s]) \in Nat
           /\ Cardinality(tried[s] \cup {e}) = Cardinality(tried[s]) + 1
  <1>1. IsFiniteSet(tried[s])
    BY RetryAssumption, FS_Subset DEF TypeOK
  <1>2. QED
    BY <1>1, FS_CardinalityType, FS_AddElement

LEMMA InitIInv == Init => IInv
  <1> SUFFICES ASSUME Init PROVE IInv
    OBVIOUS
  <1> PICK n \in Index : plan \in [1..n -> PlanIds]
    BY DEF Init
  <1>0. Planned = 1..n /\ 1 \in Planned /\ plan[1] \in PlanIds
    BY RetryAssumption DEF Planned, Index
  <1>1. TypeOK
    BY <1>0, RetryAssumption DEF Init, TypeOK, Ended, Index, Planned
  <1>2. CallerInv
    BY <1>0, RetryAssumption DEF Init, CallerInv, Index, Planned
  <1>3. PartInv /\ LimitInv
    BY DEF Init, PartInv, LimitInv
  <1>4. StampInv /\ RepeatOnlyWhenAllFailed
    BY DEF Init, StampInv, RepeatOnlyWhenAllFailed, Failing
  <1>5. ReliableInv
    BY DEF Init, ReliableInv, Reliable
  <1>6. CountInv
    BY DEF Init, CountInv, Failing
  <1>7. QED
    BY <1>1, <1>2, <1>3, <1>4, <1>5, <1>6 DEF IInv

-----------------------------------------------------------------------------
(* One lemma per action: each preserves the invariant.                     *)

LEMMA StartStep == IInv /\ Start => IInv'
  <1> SUFFICES ASSUME IInv, Start PROVE IInv'
    OBVIOUS
  <1> USE DEF IInv, TypeOK, Start, Planned
  <1>1. TypeOK'
    BY DEF Ended
  <1>2. CallerInv'
    BY DEF CallerInv
  <1>3. PartInv' /\ LimitInv'
    BY RetryAssumption DEF CallerInv, PartInv, LimitInv, Index
  <1>4. StampInv' /\ RepeatOnlyWhenAllFailed'
    BY DEF CallerInv, StampInv, RepeatOnlyWhenAllFailed, Failing
  <1>5. ReliableInv'
    BY DEF ReliableInv, Reliable
  <1>6. CountInv'
    BY FS_EmptySet DEF CallerInv, CountInv, Reliable, Failing
  <1>7. QED
    BY <1>1, <1>2, <1>3, <1>4, <1>5, <1>6 DEF IInv

LEMMA JoinStep == IInv /\ Join => IInv'
  <1> SUFFICES ASSUME IInv, Join PROVE IInv'
    OBVIOUS
  <1> USE DEF IInv, TypeOK, Join, Planned, taskVars
  <1> PICK n \in Index : plan \in [1..n -> PlanIds]
    OBVIOUS
  <1>0. joined + 1 \in Planned /\ joined + 1 \in Index
    BY RetryAssumption DEF CallerInv, Index
  <1>1. TypeOK'
    BY <1>0 DEF Index
  <1>2. CallerInv'
    BY <1>0 DEF CallerInv, Index
  <1>3. PartInv'
    <2>2. ASSUME phase[joined + 1] = "ok" PROVE \A s \in 1..joined' : phase'[s] = "ok"
      BY <1>0, <2>2 DEF PartInv
    <2>3. ASSUME result' = "ok" PROVE \A s \in Planned : phase'[s] = "ok"
      BY <1>0, <2>2, <2>3 DEF Index
    <2>4. QED
      BY <1>0, <2>2, <2>3 DEF PartInv
  <1>4. LimitInv' /\ StampInv' /\ RepeatOnlyWhenAllFailed'
    BY DEF LimitInv, StampInv, RepeatOnlyWhenAllFailed
  <1>5. ReliableInv' /\ CountInv'
    BY DEF ReliableInv, CountInv, Reliable
  <1>6. QED
    BY <1>1, <1>2, <1>3, <1>4, <1>5 DEF IInv

LEMMA StartAttemptStep ==
    ASSUME IInv, NEW s \in Index, StartAttempt(s) PROVE IInv'
  <1> USE DEF IInv, TypeOK, StartAttempt, Planned
  <1>1. TypeOK'
    BY RetryAssumption DEF LimitInv, Ended
  <1>2. CallerInv'
    BY DEF CallerInv
  <1>3. PartInv' /\ LimitInv'
    BY DEF PartInv, LimitInv, CallerInv, Index
  <1>4. StampInv' /\ RepeatOnlyWhenAllFailed'
    BY DEF StampInv, RepeatOnlyWhenAllFailed, Failing
  <1>5. ReliableInv'
    BY DEF ReliableInv, Reliable
  <1>6. CountInv'
    BY DEF CountInv, Reliable, Failing
  <1>7. QED
    BY <1>1, <1>2, <1>3, <1>4, <1>5, <1>6 DEF IInv

\* OpenPart and Complete touch the phase and the part file of one task.
LEMMA OpenPartStep ==
    ASSUME IInv, NEW s \in Index, OpenPart(s) PROVE IInv'
  <1> USE DEF IInv, TypeOK, OpenPart, Planned
  <1>1. TypeOK'
    BY DEF Ended
  <1>2. CallerInv' /\ PartInv' /\ LimitInv'
    BY DEF CallerInv, PartInv, LimitInv, Index
  <1>3. StampInv' /\ RepeatOnlyWhenAllFailed'
    BY DEF StampInv, RepeatOnlyWhenAllFailed, Failing
  <1>4. ReliableInv' /\ CountInv'
    BY DEF ReliableInv, CountInv, Reliable, Failing
  <1>5. QED
    BY <1>1, <1>2, <1>3, <1>4 DEF IInv

LEMMA CompleteStep ==
    ASSUME IInv, NEW s \in Index, Complete(s) PROVE IInv'
  <1> USE DEF IInv, TypeOK, Complete, Planned
  <1>1. TypeOK'
    BY DEF Ended
  <1>2. CallerInv' /\ PartInv' /\ LimitInv'
    BY DEF CallerInv, PartInv, LimitInv, Index
  <1>3. StampInv' /\ RepeatOnlyWhenAllFailed'
    BY DEF StampInv, RepeatOnlyWhenAllFailed, Failing
  <1>4. ReliableInv' /\ CountInv'
    BY DEF ReliableInv, CountInv, Reliable, Failing
  <1>5. QED
    BY <1>1, <1>2, <1>3, <1>4 DEF IInv

\* A failing attempt adds its exit to the ones the task failed on.
LEMMA FailStep ==
    ASSUME IInv, NEW s \in Index, Fail(s) PROVE IInv'
  <1> USE DEF IInv, TypeOK, Planned
  <1>0. exit[s] \in Exits /\ exit[s] \notin Reliable
    BY DEF CallerInv, Fail, Reliable
  <1>1. TypeOK'
    BY <1>0 DEF Ended, Fail
  <1>2. CallerInv' /\ PartInv' /\ LimitInv'
    <2>1. CallerInv'
      BY DEF CallerInv, Fail
    <2>2. PartInv'
      <3>1. /\ \A t \in Index \ {s} : phase'[t] = phase[t] /\ part'[t] = part[t]
            /\ phase[s] # "ok" /\ phase'[s] \notin {"ok", "streaming"}
            /\ part'[s] # "full"
            /\ result' = result /\ joined' = joined /\ plan' = plan
        BY DEF Fail, PartInv
      <3>2. 1..joined \subseteq Index /\ Planned \subseteq Index
        BY RetryAssumption DEF Index
      <3>3. QED
        BY <3>1, <3>2 DEF PartInv
    <2>3. LimitInv'
      BY DEF LimitInv, Fail
    <2>4. QED
      BY <2>1, <2>2, <2>3
  <1>3. StampInv' /\ RepeatOnlyWhenAllFailed'
    BY DEF StampInv, RepeatOnlyWhenAllFailed, Failing, Fail
  <1>4. ReliableInv'
    BY <1>0 DEF ReliableInv, Reliable, Fail
  <1>5. CountInv'
    <2>1. SUFFICES ASSUME Reliable # {}
                   PROVE  attempt'[s] = Cardinality(tried'[s])
      BY DEF CountInv, Reliable, Failing, Fail
    <2>2. exit[s] \notin tried[s]
      BY <2>1 DEF RepeatOnlyWhenAllFailed, ReliableInv, Reliable, Fail
    <2>3. attempt[s] = Cardinality(tried[s]) + 1
      BY <2>1 DEF CountInv, Fail
    <2>4. QED
      BY <1>0, <2>2, <2>3, TriedCount DEF Fail
  <1>6. QED
    BY <1>1, <1>2, <1>3, <1>4, <1>5 DEF IInv

LEMMA StallStep ==
    ASSUME IInv, NEW s \in Index, Stall(s) PROVE IInv'
  <1> USE DEF IInv, TypeOK, Stall, Planned
  <1>1. TypeOK'
    BY DEF Ended
  <1>2. CallerInv' /\ PartInv' /\ LimitInv'
    BY DEF CallerInv, PartInv, LimitInv, Index
  <1>3. StampInv' /\ RepeatOnlyWhenAllFailed'
    BY DEF StampInv, RepeatOnlyWhenAllFailed, Failing
  <1>4. ReliableInv' /\ CountInv'
    BY DEF ReliableInv, CountInv, Reliable, Failing
  <1>5. QED
    BY <1>1, <1>2, <1>3, <1>4 DEF IInv

LEMMA CleanStep ==
    ASSUME IInv, NEW s \in Index, Clean(s) PROVE IInv'
  <1> USE DEF IInv, TypeOK, Clean, Planned
  <1>1. TypeOK'
    BY DEF Ended
  <1>2. CallerInv' /\ PartInv' /\ LimitInv'
    <2>1. CallerInv'
      BY DEF CallerInv
    <2>2. PartInv'
      <3>1. /\ \A t \in Index \ {s} : phase'[t] = phase[t] /\ part'[t] = part[t]
            /\ phase[s] # "ok" /\ phase'[s] \notin {"ok", "streaming"}
            /\ part'[s] # "full"
            /\ result' = result /\ joined' = joined /\ plan' = plan
        BY DEF PartInv
      <3>2. 1..joined \subseteq Index /\ Planned \subseteq Index
        BY RetryAssumption DEF Index
      <3>3. QED
        BY <3>1, <3>2 DEF PartInv
    <2>3. LimitInv'
      BY DEF LimitInv
    <2>4. QED
      BY <2>1, <2>2, <2>3
  <1>3. StampInv' /\ RepeatOnlyWhenAllFailed'
    BY DEF StampInv, RepeatOnlyWhenAllFailed, Failing
  <1>4. ReliableInv' /\ CountInv'
    BY DEF ReliableInv, CountInv, Reliable, Failing
  <1>5. QED
    BY <1>1, <1>2, <1>3, <1>4 DEF IInv

\* Stamps are only added: what failed stays failed, for every task.
LEMMA MarkFailedStep ==
    ASSUME IInv, NEW s \in Index, MarkFailed(s) PROVE IInv'
  <1> USE DEF IInv, TypeOK, Planned
  <1>0. exit[s] \in Exits /\ exit[s] \in tried[s]
    BY DEF CallerInv, StampInv, MarkFailed, Failing
  <1> PICK now \in {clock, clock + 1} :
        clock' = now /\ failedAt' = [failedAt EXCEPT ![exit[s]] = now]
    BY DEF MarkFailed
  <1>1. now \in Nat /\ now > 0
    BY DEF StampInv
  <1>2. \A e \in Exits : failedAt[e] # 0 \/ e = exit[s] => failedAt'[e] # 0
    BY <1>0, <1>1
  <1>3. TypeOK'
    BY <1>0, <1>1 DEF Ended, MarkFailed
  <1>4. CallerInv' /\ PartInv' /\ LimitInv'
    BY RetryAssumption DEF CallerInv, PartInv, LimitInv, Index, MarkFailed
  <1>5. StampInv'
    BY <1>0, <1>1, <1>2 DEF StampInv, Failing, MarkFailed
  <1>6. RepeatOnlyWhenAllFailed'
    BY <1>2 DEF RepeatOnlyWhenAllFailed, MarkFailed
  <1>7. ReliableInv'
    BY <1>0 DEF ReliableInv, Reliable, MarkFailed
  <1>8. CountInv'
    BY RetryAssumption DEF CountInv, Reliable, Failing, MarkFailed
  <1>9. QED
    BY <1>3, <1>4, <1>5, <1>6, <1>7, <1>8 DEF IInv

\* An exit that is picked although the task failed on it has a stamp, and so
\* has every exit it was preferred to.
LEMMA PickRetryStep ==
    ASSUME IInv, NEW s \in Index, PickRetry(s) PROVE IInv'
  <1> USE DEF IInv, TypeOK, Planned
  <1> PICK e \in Exits : IsBest(e, exit[s]) /\ exit' = [exit EXCEPT ![s] = e]
    BY DEF PickRetry
  <1>0. exit[s] \in Exits /\ failedAt[exit[s]] # 0
    BY DEF CallerInv, StampInv, PickRetry, Failing
  <1>1. e \in tried[s] => failedAt[e] # 0
    BY DEF StampInv, PickRetry, Failing
  <1>2. ASSUME e \in tried[s], NEW d \in Exits PROVE failedAt[d] # 0
    <2>1. CASE d = exit[s]
      BY <1>0, <2>1
    <2>2. CASE d # exit[s]
      <3>1. failedAt[e] \in Nat /\ failedAt[d] \in Nat /\ failedAt[e] # 0
        BY <1>1, <1>2
      <3>2. failedAt[e] < failedAt[d] \/ failedAt[e] = failedAt[d]
        BY <2>2 DEF IsBest
      <3>3. QED
        BY <3>1, <3>2
    <2>3. QED
      BY <2>1, <2>2
  <1>3. TypeOK'
    BY DEF Ended, PickRetry
  <1>4. CallerInv' /\ PartInv' /\ LimitInv'
    BY DEF CallerInv, PartInv, LimitInv, Index, PickRetry
  <1>5. StampInv'
    BY DEF StampInv, Failing, PickRetry
  <1>6. RepeatOnlyWhenAllFailed'
    BY <1>2 DEF RepeatOnlyWhenAllFailed, PickRetry
  <1>7. ReliableInv' /\ CountInv'
    BY DEF ReliableInv, CountInv, Reliable, Failing, PickRetry
  <1>8. QED
    BY <1>3, <1>4, <1>5, <1>6, <1>7 DEF IInv

-----------------------------------------------------------------------------

LEMMA NextStep == IInv /\ [Next]_vars => IInv'
  <1> SUFFICES ASSUME IInv, [Next]_vars PROVE IInv'
    OBVIOUS
  <1>1. CASE Start
    BY <1>1, StartStep
  <1>2. CASE Join
    BY <1>2, JoinStep
  <1>3. ASSUME NEW s \in Index, TaskStep(s) PROVE IInv'
    BY <1>3, StartAttemptStep, OpenPartStep, CompleteStep, FailStep, StallStep,
       CleanStep, MarkFailedStep, PickRetryStep DEF TaskStep
  <1>4. CASE UNCHANGED vars
    BY <1>4 DEF vars, IInv, TypeOK, CallerInv, PartInv, LimitInv, StampInv,
       RepeatOnlyWhenAllFailed, ReliableInv, CountInv, Reliable, Planned, Index
  <1>5. QED
    BY <1>1, <1>2, <1>3, <1>4 DEF Next, Quiet

THEOREM Invariance == Spec => []IInv
  BY InitIInv, NextStep, PTL DEF Spec

\* The variables keep their types; in particular no task starts more than
\* max_attempts attempts and the caller joins only handles it has.
THEOREM TypeCorrect == Spec => []TypeOK
  <1>1. IInv => TypeOK
    BY DEF IInv
  <1>2. QED
    BY <1>1, Invariance, PTL

\* A segment returns to an exit it failed on only when all exits have failed.
THEOREM NoEarlyRepeat == Spec => []RepeatOnlyWhenAllFailed
  <1>1. IInv => RepeatOnlyWhenAllFailed
    BY DEF IInv
  <1>2. QED
    BY <1>1, Invariance, PTL

\* One dependable exit and more attempts than undependable exits are enough
\* for every segment, under every interleaving of the tasks.
THEOREM ReliableExitAlwaysWins == Spec => []ReliableExitWins
  <1>1. IInv => ReliableExitWins
    <2> SUFFICES ASSUME IInv, RetriesSuffice, NEW s \in Index, phase[s] = "exhausted"
                 PROVE  FALSE
      BY DEF ReliableExitWins
    <2>1. IsFiniteSet(Exits \ Reliable) /\ Reliable \subseteq Exits
      BY RetryAssumption, FS_Subset DEF Reliable
    <2>2. tried[s] \subseteq Exits \ Reliable
      BY DEF IInv, TypeOK, ReliableInv
    <2>3. /\ Cardinality(tried[s]) \in Nat
          /\ Cardinality(Exits \ Reliable) \in Nat
          /\ Cardinality(tried[s]) <= Cardinality(Exits \ Reliable)
      BY <2>1, <2>2, FS_Subset, FS_CardinalityType
    <2>4. Cardinality(tried[s]) >= MaxAttempts
      BY DEF IInv, CountInv, RetriesSuffice
    <2>5. QED
      BY <2>3, <2>4, RetryAssumption DEF RetriesSuffice
  <1>2. QED
    BY <1>1, Invariance, PTL

\* Ok is returned only over complete part files.
THEOREM OkAlwaysMeansComplete == Spec => []OkMeansComplete
  <1>1. IInv => OkMeansComplete
    <2>1. ASSUME IInv PROVE Planned \subseteq Index
      BY <2>1, RetryAssumption DEF IInv, TypeOK, Planned, Index
    <2>2. QED
      BY <2>1 DEF IInv, PartInv, OkMeansComplete
  <1>2. QED
    BY <1>1, Invariance, PTL

\* Clean empties the place of the part file, and no other step of a task fills it
\* before the next attempt is under way.
LEMMA NoLeftoverStep ==
    ASSUME IInv, NoLeftoverPart, [Next]_vars PROVE NoLeftoverPart'
  <1> SUFFICES ASSUME ~RemoveMayFail, NEW s \in Index,
                      \/ phase'[s] \in {"cleaned", "picking", "aborted", "exhausted"}
                      \/ phase'[s] = "loop" /\ attempt'[s] > 0
               PROVE  part'[s] = "none"
    BY DEF NoLeftoverPart
  <1>0. \A t \in Index :
          phase[t] \in {"cleaned", "picking", "aborted", "exhausted"}
              \/ (phase[t] = "loop" /\ attempt[t] > 0)
          => part[t] = "none"
    BY Zenon DEF NoLeftoverPart
  <1> USE DEF IInv, TypeOK
  <1>1. CASE Start
    BY <1>1 DEF Start, CallerInv
  <1>2. CASE Join
    BY <1>0, <1>2 DEF Join, taskVars
  <1>3. ASSUME NEW t \in Index, TaskStep(t) PROVE part'[s] = "none"
    <2>1. CASE t # s
      <3>1. phase'[s] = phase[s] /\ attempt'[s] = attempt[s] /\ part'[s] = part[s]
        BY <1>3, <2>1 DEF TaskStep, StartAttempt, OpenPart, Complete, Fail, Stall, Clean,
           MarkFailed, PickRetry
      <3>2. QED
        BY <1>0, <3>1
    <2>2. CASE t = s /\ (StartAttempt(t) \/ OpenPart(t) \/ Complete(t) \/ Fail(t) \/ Stall(t))
      BY <2>2 DEF StartAttempt, OpenPart, Complete, Fail, Stall
    <2>3. CASE t = s /\ Clean(t)
      BY <2>3 DEF Clean
    <2>4. CASE t = s /\ (MarkFailed(t) \/ PickRetry(t))
      BY <1>0, <2>4 DEF MarkFailed, PickRetry
    <2>5. QED
      BY <1>3, <2>1, <2>2, <2>3, <2>4 DEF TaskStep
  <1>4. CASE UNCHANGED vars
    BY <1>0, <1>4 DEF vars
  <1>5. QED
    BY <1>1, <1>2, <1>3, <1>4 DEF Next, Quiet

\* Where removals succeed, nothing of a failed attempt, or of an earlier run, is left
\* for the next attempt, and nothing of the last one for the next run.
THEOREM NoPartLeftOver == Spec => []NoLeftoverPart
  <1>1. Init => NoLeftoverPart
    BY DEF Init, NoLeftoverPart
  <1>2. QED
    BY <1>1, NoLeftoverStep, Invariance, PTL DEF Spec

-----------------------------------------------------------------------------

\* A task that still runs belongs to a call that has not returned Ok.
LEMMA TaskIsWritable ==
    ASSUME IInv, NEW s \in Index, phase[s] \notin Ended \cup {"none"}
    PROVE  Contract!Writable(s)
  <1>1. s \in Planned /\ result \notin {"idle", "no_directory", "unknown_exit"}
    BY DEF IInv, CallerInv
  <1>2. result # "ok"
    BY <1>1 DEF IInv, PartInv, Ended
  <1>3. QED
    BY <1>1, <1>2 DEF IInv, TypeOK, Contract!Writable, Contract!Planned, Planned

\* Every step of the call is a step of its contract, or none of its business.
LEMMA StepIsContractStep ==
    IInv /\ [Next]_vars => [Contract!Step]_(Contract!partVars)
  <1> SUFFICES ASSUME IInv, [Next]_vars PROVE [Contract!Step]_(Contract!partVars)
    OBVIOUS
  <1> USE DEF Contract!Step, Contract!partVars, Contract!Index, Contract!Planned,
              Index, Planned
  <1>1. CASE Start
    BY <1>1 DEF Start, Contract!Begin
  <1>2. CASE Join
    <2> PICK n \in Index : plan \in [1..n -> PlanIds]
      BY DEF IInv, TypeOK
    <2>1. n \in Nat /\ joined \in Nat /\ joined + 1 \in 1..n /\ 1..n \subseteq Index
      BY <1>2, RetryAssumption DEF Join, IInv, TypeOK, CallerInv
    <2>2. ASSUME phase[joined + 1] = "ok", joined + 2 \notin Planned
          PROVE  \A s \in Planned : part[s] = "full"
      <3>1. Planned = 1..(joined + 1)
        BY <2>1, <2>2
      <3>2. \A s \in 1..(joined + 1) : phase[s] = "ok"
        BY <1>2, <2>1, <2>2 DEF Join, IInv, PartInv
      <3>3. QED
        BY <2>1, <3>1, <3>2 DEF IInv, PartInv
    <2>3. CASE result' = "ok"
      BY <1>2, <2>1, <2>2, <2>3 DEF Join, Contract!ReturnOk
    <2>4. CASE result' # "ok"
      BY <1>2, <2>4 DEF Join, Contract!ReturnErr
    <2>5. QED
      BY <2>3, <2>4
  <1>3. ASSUME NEW s \in Index, TaskStep(s) PROVE [Contract!Step]_(Contract!partVars)
    <2>1. phase[s] \notin Ended \cup {"none"}
      BY <1>3 DEF TaskStep, StartAttempt, OpenPart, Complete, Fail, Stall, Clean,
         MarkFailed, PickRetry, Ended
    <2>2. Contract!Writable(s)
      BY <2>1, TaskIsWritable
    <2>3. CASE OpenPart(s)
      BY <2>2, <2>3 DEF OpenPart, Contract!Open
    <2>4. CASE Complete(s)
      <3>1. part[s] = "partial"
        BY <2>4 DEF Complete, IInv, PartInv
      <3>2. part' = [part EXCEPT ![s] = "full"]
        BY <2>4, <3>1 DEF Complete, IInv, TypeOK
      <3>3. QED
        BY <2>2, <2>4, <3>1, <3>2 DEF Complete, Contract!Finish
    <2>5. CASE Clean(s)
      BY <2>2, <2>5 DEF Clean, Contract!Remove, IInv, PartInv
    <2>6. CASE StartAttempt(s) \/ Fail(s) \/ Stall(s) \/ MarkFailed(s) \/ PickRetry(s)
      BY <2>6 DEF StartAttempt, Fail, Stall, MarkFailed, PickRetry
    <2>7. QED
      BY <1>3, <2>3, <2>4, <2>5, <2>6 DEF TaskStep
  <1>4. CASE UNCHANGED vars
    BY <1>4 DEF vars
  <1>5. QED
    BY <1>1, <1>2, <1>3, <1>4 DEF Next, Quiet

\* run_segments_with_policy keeps its contract towards the runner.
THEOREM RetryImplementsPartFetch == Spec => ImplementsPartFetch
  <1>1. Init => Contract!Init
    BY DEF Init, Contract!Init, Contract!Index, Index
  <1>2. QED
    BY <1>1, Invariance, StepIsContractStep, PTL
       DEF Spec, ImplementsPartFetch, Contract!Spec

-----------------------------------------------------------------------------

\* Every non-empty set of naturals has a least element.
LEMMA NatMinimum ==
    ASSUME NEW T \in SUBSET Nat, T # {}
    PROVE  \E m \in T : \A x \in T : m <= x
  <1> DEFINE R == OpToRel(<, Nat)
  <1>1. IsWellFoundedOn(R, Nat)
    BY NatLessThanWellFounded
  <1>2. PICK m \in T : \A x \in T : <<x, m>> \notin R
    <2> HIDE DEF R
    <2>1. QED
      BY <1>1, WFMin
  <1>3. \A x \in T : ~(x < m)
    BY <1>2 DEF OpToRel
  <1>4. QED
    BY <1>3

\* pick_retry always finds an exit, and only one: the preference is a total
\* order, whatever the stamps, ties included.
THEOREM PickIsDeterministic ==
    ASSUME TypeOK, NEW avoid \in Exits
    PROVE  /\ \E e \in Exits : IsBest(e, avoid)
           /\ \A d, e \in Exits : IsBest(d, avoid) /\ IsBest(e, avoid) => d = e
  <1> DEFINE C == Exits \ {avoid}
  <1>0. /\ C \subseteq Nat
        /\ \A c \in C : failedAt[c] \in Nat
    BY RetryAssumption DEF TypeOK
  <1>1. CASE C = {}
    BY <1>1 DEF IsBest
  <1>2. CASE C # {}
    <2> DEFINE Stamps == {failedAt[c] : c \in C}
    <2>1. PICK m \in Stamps : \A x \in Stamps : m <= x
      <3>1. Stamps \subseteq Nat /\ Stamps # {}
        BY <1>0, <1>2
      <3>2. QED
        BY <3>1, NatMinimum
    <2> DEFINE Oldest == {c \in C : failedAt[c] = m}
    <2>2. PICK e \in Oldest : \A d \in Oldest : e <= d
      <3>1. Oldest \subseteq Nat /\ Oldest # {}
        BY <1>0, <2>1
      <3>2. QED
        BY <3>1, NatMinimum
    <2>3. e \in Exits /\ IsBest(e, avoid)
      <3>1. ASSUME NEW d \in C
            PROVE  failedAt[e] < failedAt[d] \/ (failedAt[e] = failedAt[d] /\ e <= d)
        <4>1. failedAt[e] = m /\ m \in Nat /\ failedAt[d] \in Nat /\ m <= failedAt[d]
          BY <1>0, <2>1, <2>2
        <4>2. failedAt[d] = m => e <= d
          BY <2>2
        <4>3. QED
          BY <4>1, <4>2
      <3>2. QED
        BY <2>2, <3>1 DEF IsBest
    <2>4. ASSUME NEW d1 \in Exits, NEW d2 \in Exits, IsBest(d1, avoid), IsBest(d2, avoid)
          PROVE  d1 = d2
      <3>1. d1 \in C /\ d2 \in C
        BY <1>2, <2>4 DEF IsBest
      <3>2. \A c, d \in {d1, d2} :
               failedAt[c] < failedAt[d] \/ (failedAt[c] = failedAt[d] /\ c <= d)
        BY <3>1, <2>4 DEF IsBest
      <3>3. QED
        BY <1>0, <3>1, <3>2
    <2>5. QED
      BY <2>3, <2>4
  <1>3. QED
    BY <1>1, <1>2
=============================================================================
