------------------------------ MODULE NodeDaemon ------------------------------
(***************************************************************************)
(* The node daemon (sn-node, daemon.rs): it prepares the node key and the  *)
(* configuration of the yggdrasil sidecar, spawns it, waits for the        *)
(* overlay, offers the exit or not, and stops the sidecar in the end.  It  *)
(* may crash at any point, without any of its clean-up, and be started     *)
(* again on the same state directory.  Every action is the code between    *)
(* two await points, or a file operation.                                  *)
(***************************************************************************)
EXTENDS Naturals

CONSTANTS
    MaxBoots   \* bound: starts of the daemon

ASSUME DaemonAssumption == MaxBoots \in Nat \ {0}

VARIABLES
    manage, sharing,   \* the configuration: managed sidecar, exit enabled
    pc,        \* where run_daemon is
    result,    \* what it will return, or has returned
    boot,      \* number of this start
    signal,    \* the shutdown future is complete
    late,      \* OVERLAY_WAIT has passed
    keyFile,   \* the node key: absent, torn, or the start that generated it
    sidecar,   \* the sidecar process of each start
    identity,  \* history: the key it runs with
    admin      \* the admin socket: down, ready, or accepting without an answer

config == <<manage, sharing>>
vars == <<manage, sharing, pc, result, boot, signal, late, keyFile, sidecar, identity, admin>>

Boots == 1..MaxBoots
Absent == 0
Torn == MaxBoots + 1
Waiting == {"poll", "select", "peers", "sleep"}
Over == {"returned", "crashed"}

TypeOK ==
    /\ manage \in BOOLEAN /\ sharing \in BOOLEAN
    /\ pc \in Waiting \cup Over \cup {"prepare", "key", "config", "bind", "serve", "leech", "term", "kill"}
    /\ result \in {"none", "ok", "err"}
    /\ boot \in Boots
    /\ signal \in BOOLEAN /\ late \in BOOLEAN
    /\ keyFile \in Boots \cup {Absent, Torn}
    /\ sidecar \in [Boots -> {"none", "running", "killed", "dead"}]
    /\ identity \in [Boots -> Boots \cup {Absent}]
    /\ \A b \in Boots : sidecar[b] = "none" <=> identity[b] = Absent
    /\ admin \in {"down", "ready", "mute"}

\* validate refuses a configuration that leaves the daemon nothing to do.
Configured == manage \/ sharing

Init ==
    /\ manage \in BOOLEAN /\ sharing \in BOOLEAN /\ Configured
    /\ pc = IF manage THEN "prepare" ELSE "poll"
    /\ result = "none"
    /\ boot = 1
    /\ signal = FALSE /\ late = FALSE
    /\ keyFile = Absent
    /\ sidecar = [b \in Boots |-> "none"]
    /\ identity = [b \in Boots |-> Absent]
    /\ admin = "down"

HasChild == sidecar[boot] # "none"
ChildDead == sidecar[boot] = "dead"

\* run_daemon returns r once its child is gone; a child that runs is killed first
\* (kill_child), and waited for.
KillAndReturn(r) ==
    /\ result' = r
    /\ IF HasChild /\ ~ChildDead
       THEN pc' = "kill" /\ sidecar' = [sidecar EXCEPT ![boot] = "killed"]
       ELSE pc' = "returned" /\ UNCHANGED sidecar

\* terminate_sidecar: SIGTERM, which the sidecar may heed or not, and the grace.
Terminate ==
    /\ result' = "ok"
    /\ pc' = IF HasChild THEN "term" ELSE "returned"
    /\ UNCHANGED sidecar

(***************************************************************************)
(* spawn_sidecar.                                                          *)
(***************************************************************************)

\* No directory, no yggdrasil, bad output, an unreadable or invalid key.
PrepareFails ==
    /\ pc \in {"prepare", "key", "config"}
    /\ pc' = "returned" /\ result' = "err"
    /\ UNCHANGED <<config, boot, signal, late, keyFile, sidecar, identity, admin>>

\* A key that is there is reused, a torn one is refused, a missing one is created.
\* The file is created before anything is written to it.
PrepareKeyAlways ==   \* mutant: a key that is there is created anew, too
    /\ pc = "prepare"
    /\ pc' = "key" /\ keyFile' = Torn
    /\ UNCHANGED <<config, result, boot, signal, late, sidecar, identity, admin>>

PrepareKeyUnparsed ==   \* mutant: the key that is there is not validated
    /\ pc = "prepare"
    /\ \/ keyFile # Absent /\ pc' = "config" /\ UNCHANGED keyFile
       \/ keyFile = Absent /\ pc' = "key" /\ keyFile' = Torn
    /\ UNCHANGED <<config, result, boot, signal, late, sidecar, identity, admin>>

PrepareKey ==
    /\ pc = "prepare"
    /\ \/ keyFile \in Boots /\ pc' = "config" /\ UNCHANGED keyFile
       \/ keyFile = Absent /\ pc' = "key" /\ keyFile' = Torn
    /\ UNCHANGED <<config, result, boot, signal, late, sidecar, identity, admin>>

WriteKey ==
    /\ pc = "key"
    /\ keyFile' = boot
    /\ pc' = "config"
    /\ UNCHANGED <<config, result, boot, signal, late, sidecar, identity, admin>>

\* The configuration is written and names the key file; the sidecar is spawned.
Spawn ==
    /\ pc = "config"
    /\ sidecar' = [sidecar EXCEPT ![boot] = "running"]
    /\ identity' = [identity EXCEPT ![boot] = keyFile]
    /\ pc' = "poll"
    /\ UNCHANGED <<config, result, boot, signal, late, keyFile, admin>>

(***************************************************************************)
(* wait_for_overlay.  The deadline is looked at between attempts only; the *)
(* select inside is biased: shutdown, then the child, then the answer.     *)
(***************************************************************************)
PollForever ==   \* mutant: the deadline is not looked at
    /\ pc = "poll"
    /\ pc' = "select"
    /\ UNCHANGED <<config, result, boot, signal, late, keyFile, sidecar, identity, admin>>

Poll ==
    /\ pc = "poll"
    /\ IF late
       THEN KillAndReturn("err")
       ELSE pc' = "select" /\ UNCHANGED <<result, sidecar>>
    /\ UNCHANGED <<config, boot, signal, late, keyFile, identity, admin>>

SelectShutdown ==
    /\ pc = "select" /\ signal
    /\ Terminate
    /\ UNCHANGED <<config, boot, signal, late, keyFile, identity, admin>>

SelectDeath ==
    /\ pc = "select" /\ ~signal /\ ChildDead
    /\ KillAndReturn("err")
    /\ UNCHANGED <<config, boot, signal, late, keyFile, identity, admin>>

\* A request succeeds, or fails in one of many ways; its connect has a timeout, and
\* what follows has none: a mute socket does not even make it fail.
RequestSucceeds == admin = "ready"
RequestFails == admin # "mute"

SelectAnswer ==
    /\ pc = "select" /\ ~signal /\ ~ChildDead
    /\ \/ RequestSucceeds /\ pc' = "peers"
       \/ RequestFails /\ pc' = "sleep"
    /\ UNCHANGED <<config, result, boot, signal, late, keyFile, sidecar, identity, admin>>

\* get_peers, inside the select's arm: nothing else is polled.  Its outcome is logged.
Peers ==
    /\ pc = "peers"
    /\ RequestSucceeds \/ RequestFails
    /\ pc' = IF sharing THEN "bind" ELSE "leech"
    /\ UNCHANGED <<config, result, boot, signal, late, keyFile, sidecar, identity, admin>>

\* The pause between two attempts, inside the arm, too.
Sleep ==
    /\ pc = "sleep"
    /\ pc' = "poll"
    /\ UNCHANGED <<config, result, boot, signal, late, keyFile, sidecar, identity, admin>>

(***************************************************************************)
(* The service.                                                            *)
(***************************************************************************)
Bind ==
    /\ pc = "bind"
    /\ \/ pc' = "serve" /\ UNCHANGED <<result, sidecar>>
       \/ KillAndReturn("err")
    /\ UNCHANGED <<config, boot, signal, late, keyFile, identity, admin>>

\* serve_until returns after the signal.
ServeEndsNever == FALSE   \* mutant: serve is awaited, which looks at no signal

ServeEnds ==
    /\ pc = "serve" /\ signal
    /\ Terminate
    /\ UNCHANGED <<config, boot, signal, late, keyFile, identity, admin>>

LeechEnds ==
    /\ pc = "leech" /\ signal
    /\ Terminate
    /\ UNCHANGED <<config, boot, signal, late, keyFile, identity, admin>>

ServiceDeathLeeching ==   \* mutant: the sidecar of an exit is not supervised
    /\ pc = "leech" /\ ChildDead
    /\ KillAndReturn("err")
    /\ UNCHANGED <<config, boot, signal, late, keyFile, identity, admin>>

\* The child is dead when its wait returns: one that fails has no process to wait for.
ServiceDeath ==
    /\ pc \in {"serve", "leech"} /\ ChildDead
    /\ KillAndReturn("err")
    /\ UNCHANGED <<config, boot, signal, late, keyFile, identity, admin>>

\* The grace is over and the sidecar still there: start_kill.
GraceOverGivesUp ==   \* mutant: the sidecar is not killed
    /\ pc = "term" /\ ~ChildDead
    /\ pc' = "returned"
    /\ UNCHANGED <<config, result, boot, signal, late, keyFile, sidecar, identity, admin>>

GraceOver ==
    /\ pc = "term" /\ ~ChildDead
    /\ KillAndReturn("ok")
    /\ UNCHANGED <<config, boot, signal, late, keyFile, identity, admin>>

Reap ==
    /\ pc \in {"term", "kill"} /\ ChildDead
    /\ pc' = "returned"
    /\ UNCHANGED <<config, result, boot, signal, late, keyFile, sidecar, identity, admin>>

Daemon ==
    \/ PrepareFails \/ PrepareKey \/ WriteKey \/ Spawn
    \/ Poll \/ SelectShutdown \/ SelectDeath \/ SelectAnswer \/ Peers \/ Sleep
    \/ Bind \/ ServeEnds \/ LeechEnds \/ ServiceDeath \/ GraceOver \/ Reap

(***************************************************************************)
(* The surroundings.                                                       *)
(***************************************************************************)

\* accept fails, of whatever connection, and serve_until returns its error.
AcceptFails ==
    /\ pc = "serve"
    /\ KillAndReturn("err")
    /\ UNCHANGED <<config, boot, signal, late, keyFile, identity, admin>>

\* SIGINT or SIGTERM once the handler is there, which is from the first select on;
\* an earlier one ends the process, like a crash.
Signal ==
    /\ pc \notin Over \cup {"prepare", "key", "config"} /\ ~signal
    /\ signal' = TRUE
    /\ UNCHANGED <<config, pc, result, boot, late, keyFile, sidecar, identity, admin>>

Deadline ==
    /\ pc \in Waiting /\ ~late
    /\ late' = TRUE
    /\ UNCHANGED <<config, pc, result, boot, signal, keyFile, sidecar, identity, admin>>

\* Something listens on the admin socket: a sidecar that runs, of an earlier start
\* perhaps, or an overlay that is not managed.
AdminUp == ~manage \/ \E b \in Boots : sidecar[b] \in {"running", "killed"}

AdminChanges ==
    /\ AdminUp /\ admin # "mute"
    /\ admin' \in {"down", "ready", "mute"}
    /\ UNCHANGED <<config, pc, result, boot, signal, late, keyFile, sidecar, identity>>

\* A sidecar dies, by itself, of SIGTERM, or killed.  The connections to it break; a
\* mute socket stays mute until then.
Dies(b) ==
    /\ sidecar[b] \in {"running", "killed"}
    /\ sidecar' = [sidecar EXCEPT ![b] = "dead"]
    /\ admin' = IF \E a \in Boots \ {b} : sidecar[a] \in {"running", "killed"}
                THEN admin ELSE "down"
    /\ UNCHANGED <<config, pc, result, boot, signal, late, keyFile, identity>>

\* Nothing of the clean-up runs: the child is not killed on drop.
Crash ==
    /\ pc \notin Over
    /\ pc' = "crashed"
    /\ UNCHANGED <<config, result, boot, signal, late, keyFile, sidecar, identity, admin>>

Restart ==
    /\ pc \in Over /\ boot < MaxBoots
    /\ boot' = boot + 1
    /\ pc' = IF manage THEN "prepare" ELSE "poll"
    /\ result' = "none"
    /\ signal' = FALSE /\ late' = FALSE
    /\ UNCHANGED <<config, keyFile, sidecar, identity, admin>>

Finished ==
    /\ pc \in Over /\ boot = MaxBoots
    /\ \A b \in Boots : sidecar[b] \in {"none", "dead"}
    /\ UNCHANGED vars

Killed == \E b \in Boots : sidecar[b] = "killed" /\ Dies(b)

Next ==
    \/ Daemon \/ AcceptFails
    \/ Signal \/ Deadline \/ AdminChanges \/ Crash \/ Restart \/ Finished
    \/ \E b \in Boots : Dies(b)

Spec == Init /\ [][Next]_vars

\* The runtime polls the daemon and its timers, and a killed process dies.  Nothing
\* is assumed of signals, crashes, a failing accept, answers, or a sidecar that is
\* asked to stop: a daemon may serve or leech for ever.
FairSpec == Spec /\ WF_vars(Daemon) /\ WF_vars(Deadline) /\ WF_vars(Killed)

(***************************************************************************)
(* Properties.                                                             *)
(***************************************************************************)

\* The sidecar does not outlive a run_daemon that returns, whichever way it does
\* and whatever the sidecar does with SIGTERM.
NoSidecarOutlivesDaemon ==
    pc = "returned" => sidecar[boot] \in {"none", "dead"}

\* "The node identity must survive restarts": a key a sidecar ever ran with is the
\* key on disk, through crashes and failed starts, and so the same for all.
IdentitySurvives ==
    \A b \in Boots : identity[b] # Absent => keyFile = identity[b]

\* The three liveness properties except an admin socket that accepts a request and
\* does not answer it: requests have no timeout (AdminClient::request).

\* A sidecar that dies ends the daemon (supervisor duty), unless it sits in a request
\* to a mute socket of an earlier sidecar.
DeathEndsTheDaemon ==
    \A b \in Boots :
        (sidecar[b] = "dead" /\ boot = b) ~> (boot # b \/ pc \in Over \/ admin = "mute")

\* A shutdown ends the daemon, whatever the sidecar makes of SIGTERM.
ShutdownEndsTheDaemon == signal ~> (~signal \/ pc \in Over \/ admin = "mute")

\* The wait for the overlay ends: it is up, or the deadline or something else ends it.
OverlayWaitEnds == pc \in Waiting ~> (pc \notin Waiting \/ admin = "mute")

\* "Aborts on shutdown and on unexpected sidecar death" (wait_for_overlay), without
\* an exception.
AbortsOnShutdown == signal ~> (~signal \/ pc \in Over)
=============================================================================
