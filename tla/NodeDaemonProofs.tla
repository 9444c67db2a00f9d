--------------------------- MODULE NodeDaemonProofs ---------------------------
(***************************************************************************)
(* Proofs about the node daemon, for any number of starts.  TypeOK and     *)
(* IdentitySurvives are not inductive alone: PrepInv ties the key file and *)
(* the sidecar of this start to the point spawn_sidecar has reached, and   *)
(* says that later starts have no sidecar yet.                             *)
(***************************************************************************)
EXTENDS NodeDaemon, TLAPS

PrepInv ==
    /\ pc = "key" => keyFile = Torn
    /\ pc = "config" => keyFile \in Boots
    /\ pc \in {"prepare", "key", "config"} => sidecar[boot] = "none"
    /\ \A b \in Boots : b > boot => sidecar[b] = "none"

IInv == TypeOK /\ PrepInv /\ NoSidecarOutlivesDaemon /\ IdentitySurvives

USE DaemonAssumption

LEMMA InitIInv == Init => IInv
<1> SUFFICES ASSUME Init PROVE IInv
  OBVIOUS
<1>1. pc = "prepare" \/ pc = "poll"
  BY DEF Init
<1>2. TypeOK
  <2>1. signal \in BOOLEAN /\ late \in BOOLEAN
    BY Zenon DEF Init
  <2>2. boot \in Boots
    BY DEF Init, Boots
  <2>3. /\ sidecar \in [Boots -> {"none", "running", "killed", "dead"}]
        /\ identity \in [Boots -> Boots \cup {Absent}]
        /\ \A b \in Boots : sidecar[b] = "none" <=> identity[b] = Absent
    BY DEF Init
  <2> QED
    BY <1>1, <2>1, <2>2, <2>3 DEF Init, TypeOK, Waiting
<1>3. PrepInv
  BY <1>1 DEF Init, PrepInv, Boots
<1>4. NoSidecarOutlivesDaemon /\ IdentitySurvives
  BY <1>1 DEF Init, NoSidecarOutlivesDaemon, IdentitySurvives
<1> QED BY <1>2, <1>3, <1>4 DEF IInv

\* What kill_child does to pc, result and the sidecar, whoever calls it.
LEMMA KillLemma ==
    ASSUME IInv, NEW r \in {"ok", "err"}, KillAndReturn(r),
           UNCHANGED <<manage, sharing, boot, signal, late, keyFile, identity, admin>>,
           pc \notin {"prepare", "key", "config"}
    PROVE  IInv'
  BY DEF IInv, TypeOK, PrepInv, NoSidecarOutlivesDaemon, IdentitySurvives, KillAndReturn,
         HasChild, ChildDead, Boots, Absent, Torn, Waiting, Over

LEMMA TerminateLemma ==
    ASSUME IInv, Terminate,
           UNCHANGED <<manage, sharing, boot, signal, late, keyFile, identity, admin>>
    PROVE  IInv'
  BY DEF IInv, TypeOK, PrepInv, NoSidecarOutlivesDaemon, IdentitySurvives, Terminate,
         HasChild, Boots, Absent, Torn, Waiting, Over

LEMMA StepIInv == IInv /\ [Next]_vars => IInv'
<1> SUFFICES ASSUME IInv, [Next]_vars PROVE IInv'
  OBVIOUS
<1> USE DEF config
<1>1. CASE PrepareFails
  BY <1>1 DEF IInv, TypeOK, PrepInv, NoSidecarOutlivesDaemon, IdentitySurvives, PrepareFails,
              Boots, Absent, Torn, Waiting, Over
<1>2. CASE PrepareKey
  BY <1>2 DEF IInv, TypeOK, PrepInv, NoSidecarOutlivesDaemon, IdentitySurvives, PrepareKey,
              Boots, Absent, Torn, Waiting, Over
<1>3. CASE WriteKey
  BY <1>3 DEF IInv, TypeOK, PrepInv, NoSidecarOutlivesDaemon, IdentitySurvives, WriteKey,
              Boots, Absent, Torn, Waiting, Over
<1>4. CASE Spawn
  BY <1>4 DEF IInv, TypeOK, PrepInv, NoSidecarOutlivesDaemon, IdentitySurvives, Spawn,
              Boots, Absent, Torn, Waiting, Over
<1>5. CASE Poll
  <2>1. CASE late
    BY <1>5, <2>1, KillLemma DEF Poll
  <2>2. CASE ~late
    BY <1>5, <2>2 DEF IInv, TypeOK, PrepInv, NoSidecarOutlivesDaemon, IdentitySurvives, Poll,
                      Boots, Absent, Torn, Waiting, Over
  <2> QED BY <2>1, <2>2
<1>6. CASE SelectShutdown
  BY <1>6, TerminateLemma DEF SelectShutdown
<1>7. CASE SelectDeath
  BY <1>7, KillLemma DEF SelectDeath
<1>8. CASE SelectAnswer \/ Peers \/ Sleep
  BY <1>8 DEF IInv, TypeOK, PrepInv, NoSidecarOutlivesDaemon, IdentitySurvives,
              SelectAnswer, Peers, Sleep, Boots, Absent, Torn, Waiting, Over
<1>9. CASE Bind
  <2>1. CASE KillAndReturn("err")
    BY <1>9, <2>1, KillLemma DEF Bind
  <2>2. CASE pc' = "serve" /\ UNCHANGED <<result, sidecar>>
    BY <1>9, <2>2 DEF IInv, TypeOK, PrepInv, NoSidecarOutlivesDaemon, IdentitySurvives, Bind,
                      Boots, Absent, Torn, Waiting, Over
  <2> QED BY <1>9, <2>1, <2>2 DEF Bind
<1>10. CASE ServeEnds
  BY <1>10, TerminateLemma DEF ServeEnds
<1>11. CASE LeechEnds
  BY <1>11, TerminateLemma DEF LeechEnds
<1>12. CASE ServiceDeath
  BY <1>12, KillLemma DEF ServiceDeath
<1>13. CASE GraceOver
  BY <1>13, KillLemma DEF GraceOver
<1>14. CASE Reap
  BY <1>14 DEF IInv, TypeOK, PrepInv, NoSidecarOutlivesDaemon, IdentitySurvives, Reap,
               ChildDead, Boots, Absent, Torn, Waiting, Over
<1>15. CASE Signal \/ Deadline \/ AdminChanges
  <2>1. TypeOK
    BY DEF IInv
  <2>2. signal' \in BOOLEAN /\ late' \in BOOLEAN
    BY <1>15, <2>1, Zenon DEF TypeOK, Signal, Deadline, AdminChanges
  <2>3. UNCHANGED <<manage, sharing, pc, result, boot, keyFile, sidecar, identity>>
    BY <1>15 DEF Signal, Deadline, AdminChanges
  <2>4. admin' \in {"down", "ready", "mute"}
    BY <1>15, <2>1 DEF TypeOK, Signal, Deadline, AdminChanges
  <2> QED
    BY <2>2, <2>3, <2>4 DEF IInv, TypeOK, PrepInv, NoSidecarOutlivesDaemon, IdentitySurvives
<1>16. CASE Crash
  BY <1>16 DEF IInv, TypeOK, PrepInv, NoSidecarOutlivesDaemon, IdentitySurvives, Crash, Over
<1>19. CASE Restart
  <2>1. boot + 1 \in Boots /\ boot + 1 > boot
    BY <1>19 DEF IInv, TypeOK, Restart, Boots
  <2>2. sidecar[boot + 1] = "none"
    BY <2>1 DEF IInv, PrepInv
  <2>3. pc' = "prepare" \/ pc' = "poll"
    BY <1>19 DEF Restart
  <2>4. TypeOK'
    BY <1>19, <2>1, <2>3 DEF IInv, TypeOK, Restart, Waiting
  <2>5. PrepInv'
    BY <1>19, <2>1, <2>2, <2>3 DEF IInv, TypeOK, PrepInv, Restart, Boots
  <2>6. (NoSidecarOutlivesDaemon /\ IdentitySurvives)'
    BY <1>19, <2>3 DEF IInv, NoSidecarOutlivesDaemon, IdentitySurvives, Restart
  <2> QED BY <2>4, <2>5, <2>6 DEF IInv
<1>17. CASE \E b \in Boots : Dies(b)
  BY <1>17 DEF IInv, TypeOK, PrepInv, NoSidecarOutlivesDaemon, IdentitySurvives,
               Dies, Boots, Absent, Torn, Waiting, Over
<1>20. CASE AcceptFails
  BY <1>20, KillLemma DEF AcceptFails
<1>18. CASE UNCHANGED vars
  BY <1>18 DEF IInv, TypeOK, PrepInv, NoSidecarOutlivesDaemon, IdentitySurvives, vars,
               Boots, Absent, Torn, Waiting, Over
<1> QED
  BY <1>1, <1>2, <1>3, <1>4, <1>5, <1>6, <1>7, <1>8, <1>9, <1>10, <1>11, <1>12, <1>13, <1>14,
     <1>15, <1>16, <1>17, <1>18, <1>19, <1>20 DEF Next, Daemon, Finished

\* The inductive invariant holds in every state of the daemon.
THEOREM DaemonInvariance == Spec => []IInv
  BY InitIInv, StepIInv, PTL DEF Spec

\* The types of all variables.
THEOREM DaemonTypeCorrect == Spec => []TypeOK
  BY DaemonInvariance, PTL DEF IInv

\* A sidecar is gone when the run_daemon that spawned it has returned.
THEOREM SidecarGoneAfterDaemon == Spec => []NoSidecarOutlivesDaemon
  BY DaemonInvariance, PTL DEF IInv

\* The key on disk is the one every sidecar has run with, through all crashes.
THEOREM NodeIdentitySurvives == Spec => []IdentitySurvives
  BY DaemonInvariance, PTL DEF IInv
=============================================================================
