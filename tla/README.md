# SpiderNet in TLA+

SpiderNet pools the uplinks of neighbouring households. `sn-fetch` downloads a
file in byte ranges through several exits, `sn-exit` is the exit a household
offers, `sn-node` is the daemon that runs the overlay (a yggdrasil sidecar) and
the exit, `sn-fair` divides a capacity between participants. This directory
holds TLA+ models of these programs, written from the code under
`src/server/crates/`, the TLC runs that check them, and TLAPS proofs.

1. [The system](#the-system)
2. [Modules](#modules)
3. [Runs](#runs)
4. [Proofs](#proofs)
5. [What the work found](#what-the-work-found)
6. [Not modelled](#not-modelled)
7. [Plan](#plan)

## The system

| Part | State | Operations | Correct if |
|---|---|---|---|
| Segment executor, `sn-fetch/src/exec.rs` | a task per segment (exit, attempt), the shared map `last_failed`, the part files | `run_segments_with_policy`, `download_with_retry`, `download_attempt`, `mark_failed`, `pick_retry` | Ok only over complete part files; a dependable exit is found in time; no early return to an exit that failed |
| Planner, `plan.rs` | none between calls; loops over exits and assignments | `FetchPlan::build`, `even_subsplit`, `merge_tiny_segments`, `validate` | every byte in one segment, none too small, the strongest exits kept |
| Runner, probe, assembly, `runner.rs`, `probe.rs`, `exec.rs:421-497`, `main.rs` | parts directory and output file; both outlive the process, and invocations that overlap share them | `probe`, `run_ranged`, `run_whole`, `assemble` | success means the whole file, and with a digest the version it names |
| Exit clients, `exit.rs` | registry of clients | direct requests, requests through a neighbour's exit | a refusal of one exit does not end what another can serve |
| Progress, types | a counter | callbacks, newtypes | no behaviour of their own |
| Exit proxy, `sn-exit/src/proxy.rs` | a task per connection, the `QuotaLedger` | accept, read head, admit, resolve, connect, relay, record | refusals are justified, overshoot is bounded, nothing recorded is lost, only checked origins are reached |
| Exit configuration, CLI and parser, `config.rs`, `main.rs`, `parse.rs` | none | allowlist, quota policy, address classes, head parser | the exit serves who is listed, with the quota that was asked for |
| Fair share, `sn-fair/src/fair.rs` | loop variables of `weighted_max_min` | `allocate` | never oversubscribed, work conserving, weighted max-min |
| Node daemon, `sn-node/src/daemon.rs`, `main.rs` | the select it waits in, the sidecar process, the key file | `spawn_sidecar`, `wait_for_overlay`, serve or leech, `terminate_sidecar`, `kill_child` | no sidecar outlives it, one identity for ever, it ends when it should |
| Node configuration, `daemon_config.rs`, `config.rs` | `node.toml`, the generated `yggdrasil.conf`, `node.key` | `load`, `validate`, `generate_config`, `apply_to_base_config`, genconf | the sidecar and the exit are what the file that was read says, over edits, crashes and restarts |
| Admin client, `yggdrasil.rs` | one request per connection | `get_self`, `get_peers` | an answer, a failure, or an end of the wait |
| Deployment, documents | none | none | not code of the programs |

**How the parts interact.** `runner::run` calls the planner, hands the plan to
the segment executor and assembles the part files; the two share nothing but
the plan and the parts directory. The tasks of the executor share `last_failed`
behind a mutex and are joined through handles. An exit of `sn-fetch` may be the
exit proxy of a neighbour, over HTTP. The daemon calls `serve_until` of the exit
as one arm of a select, with the death of the sidecar as the other, and talks to
the sidecar by signals, by `wait`, and over the admin socket. `sn-fair` is not
called by the other programs yet.

**What is hard.** Segment tasks interleave between `mark_failed` and
`pick_retry`, and after an error they are detached and not stopped. Part files
survive attempts, errors and killed processes. Connections are admitted against
what was recorded, and record when they end. Ledger windows roll lazily. The
daemon looks at shutdown, sidecar and deadline in some places and not in others,
and can crash between creating and writing the key. Two invocations of `sn-fetch`
write the same part files and, unless told otherwise, the same output. An exit's own refusal looks like the target's. The
configuration is edited while daemons and orphaned sidecars run with older
versions of it. Divisions leave remainders,
and shares can be smaller than their parts. `PROJECT.json` lists these hazards
one by one, with the line and the property that would notice.

## Modules

Every action is the code between two await points (or one file operation, where
a crash can fall between two). The map in `PROJECT.json` names the lines.

* **SegmentRetry** - one call of `run_segments_with_policy`. `phase[s]` is where
  the task of segment `s` is: `loop` at the head of the loop, `sent` after the
  request, `streaming` while the body arrives, `failed`/`fatal` after
  `is_retryable`, `cleaned` after the removal of the part file, `picking`
  between the two locks. What a request through an exit can come to is the
  constant `Outcomes`, so that a run or a theorem can speak of dependable exits.
  `clock` is `Instant::now()`: it does not decrease and may stand still.
  A call that cannot create the parts directory, or whose plan names an unknown exit,
  ends before the first task.
* **PartFetch** - the abstract specification of that call, in terms of the plan,
  the part files and the result. `SegmentRetry` implements it: the variables map
  to themselves, every step is a step or a stutter.
* **FetchRun** - invocations of `sn-fetch` for one target, one after the other and
  at the same time, over the one parts directory. Each contains the executor through
  its contract (`Parts(p) == INSTANCE PartFetch WITH ...`), and adds probe, assembly,
  the fallback stream, errors, kills and a target that is replaced. `part[p]` is what the
  call of invocation `p` believes of the part files, `directory` what they are: whose
  content a file has, of which version, and whether anybody vouches for it. `path[p]` is
  the output path, the default one (`main.rs:93-103`) or one given with `-o`. What `p`
  has written and hashed is `stream[p]`; what is in the file is `output[x]`. They differ
  when invocations overlap on a path: opening the file truncates it under those who have
  it open (`Create`), and everybody writes on at an offset of its own (`Overlaid`), so
  that what was written before the last truncation is missing until the one that
  truncated is through. A writer that fails or is killed leaves a file of which nothing
  is known. Two history variables: `alone[p]`, no other invocation has overlapped `p`;
  `vouched[x]`, all who have written to `x` since it was last opened with no earlier
  writer left have matched their digest.
* **MeshFetch** - `SegmentRetry` composed with what an `sn-exit` answers its tasks: the
  allowlist's 403, the quota's 503, the 200 before the connect, over plain http and
  over https. The free outcomes of `SegmentRetry` become consequences of which exits
  are the household's own, list it, or have a quota. `answer[s]` is a history variable:
  who ended the last failed attempt. Every request step is, as written, a step of
  `SegmentRetry` with an answer added; that is how it is composed and no result. The
  results are what the answers do to the fetch.
* **NodeConfig** - from the texts of `node.toml` to the settings, the `yggdrasil.conf`,
  the running sidecar and the exit, over edits, starts, crashes and orphaned sidecars,
  with genconf and the standalone `sn-exit` beside. A text is what its parser makes of
  it (accepted, refused, or not given). `loaded` is a history variable: the file as
  this start has read it. A start is coarse here; `NodeDaemon` has it step by step.
* **FetchPlan** - `FetchPlan::build`, one action per loop iteration. The weights
  of the command line and the numbers are chosen in `Init`. The index of a
  segment is its place in the sequence. The repair after the split (`plan.rs:120-129`)
  is left out: the last exit ends at the file size, so its condition is never true.
* **ExitProxy** - `serve_until`, the task of each connection and the ledger.
  `ended` is a history variable: how many bytes the relays of a neighbour had carried
  that had ended by a tick. The ledger is compared with its differences. A connection slot is used again
  once its task has ended.
* **FairShare** - `allocate`, for both classes, one action per iteration.
* **NodeDaemon** - `run_daemon` over several starts. `pc` is the await it is in:
  `select` is the select of `wait_for_overlay`, `peers` and `sleep` are the
  awaits inside its third arm. `serve` and `leech` are the two
  ways of its service; an accept that fails there is a step of the surroundings (`AcceptFails`).
  `child.wait()` fails only where there is no process left to wait for, and is taken
  for the death of the sidecar. A configuration that neither manages a sidecar nor
  shares is refused, so `Init` has none. `identity` is a history variable: the key each
  sidecar runs with.
* **MCSegmentRetry**, **MCFetchRun**, **MCMeshFetch**, **MCExitProxy** - instances
  for TLC.
* **SegmentRetryProofs**, **FetchRunProofs**, **MeshFetchProofs**, **FetchPlanProofs**,
  **ExitProxyProofs**, **FairShareProofs**, **NodeDaemonProofs**, **NodeConfigProofs** -
  the theorems, one module for each component with a run.

Who contains whom: `MeshFetch` is `SegmentRetry` with an environment, `SegmentRetry`
implements `PartFetch`, and `FetchRun` has one `PartFetch` per invocation. So what
`FetchRun` shows of a success also holds of a fetch through neighbours' exits.

Definitions marked `mutant` are variants of the definition after them, as a
plausible mistake would have it. No specification uses them; putting one in the
place of the definition it varies makes the property it belongs to fail.

## Runs

| Run | Asks | Bounds |
|---|---|---|
| `retry_safety` | Types; no exit is repeated while another has not failed; `PartFetch` is implemented, so Ok means complete files. Every outcome occurs, removals may fail, stale files may be there, the plan may name an unknown exit. | 3 exits, 2 segments, 3 attempts |
| `retry_reliable` | One dependable exit, two that fail or stall: no segment runs out of attempts, failed attempts leave no file, the fetch ends and succeeds unless a transfer stalls. | 3 exits, 2 segments, 3 attempts |
| `fetch_runs` | An invocation that nobody overlaps assembles its own complete files only, and its success is the whole file; an output that several have written at once is the version the digest names, if all of them have matched it. | 3 invocations, 2 at a time, 1 output path, 2 segments, 2 versions |
| `mesh_fetch` | Types; only a refusal ends a fetch early; a willing exit, with attempts for the others, rules out exhausted attempts; over https it brings success. | 3 exits (own, with quota, not listing), 2 segments, 3 attempts |
| `mesh_reject` (violated) | Is a 4xx something no other exit can cure? | as `mesh_fetch` |
| `plan` | Every byte once, the strongest exits kept, plans are found where they exist, the loops end. | 3 exits, 9 bytes, weights to 4, 3 parts, minimum to 3 |
| `exit_quota` | Overshoot bounded, ledger exact, refusals justified, origins checked. | 2 neighbours (one listed), 2 connections at a time, quota 2 bytes in 2 ticks, 3 ticks |
| `exit_head` (violated) | Is every byte accounted? | 1 connection |
| `node_daemon` | No sidecar outlives the daemon, the identity survives, and the three liveness properties. | 3 starts |
| `node_shutdown` (violated) | Does a shutdown always end the daemon? | 1 start |
| `configuration` | The sidecar is what the file read says; the exit serves who is listed, at the node's own address; no quota shrinks by overflow. | 2 starts, 2 edits, genconf or `sn-exit` run once, 2 state directories, 2 admin endpoints, words up to 15 |
| `fair_share` | Never oversubscribed, work conserving, max-min fair, one pass suffices. | 3 participants, weights to 3, demands to 4, capacity to 7 |

**Why the bounds are enough.** With two segments all interleavings of the
two-lock sequence occur; three exits are the fewest for which the least recently
failed one, the one just failed on and a third differ; three attempts are the
default policy. The theorems remove these bounds. Two segments and
three invocations, two of them at once, let a plan be shorter or longer than an earlier
or a concurrent one, and a third start in the middle of two. One output path is the
case that matters, the default one: two invocations that overlap truncate and overwrite
each other's file. Invocations that write to different paths share only the parts
directory, and what the run checks of that does not depend on the path. The theorems
about `FetchRun` remove these bounds, that of one path among them. Two starts and two edits are the fewest for a
sidecar that a crash left behind and a file that says something else by then; a word
of 15 with units of 3 and 4 overflows with every product of 6 and with none of 1. Two
connections are the fewest that overshoot a quota together, and a window of two
in a clock of three ticks rolls at the boundary, inside and after it. Three
starts give a crashed daemon, one that finds its sidecar still running, and one
that finds what both have left. Three exits and parts with nine bytes cover
shares of zero, of less than the parts, and with a remainder; three participants
with weights to three force several rounds and a remainder of two.

**Fairness.** `SegmentRetry`: weak fairness of the caller and of each task, as
the runtime polls every task that is ready (`MeshFetch` the same); a task that waits for the network
either continues or takes the step `Stall`, from which nothing frees it, so
nothing is assumed of peers. `FetchPlan`: a sequential loop runs on. `NodeDaemon`:
the runtime polls the daemon, its timers fire, and a killed process dies; nothing
is assumed of signals, of a sidecar that is asked to stop, of answers on the
admin socket, or of `accept`, which need never fail: a daemon may serve or leech for
ever. What ends a service is a signal or the death of the sidecar, and if the daemon
ignored either, a property would fail. The liveness properties of the daemon therefore have the exception
`admin = "mute"`: a socket that accepts a request and does not answer. `ExitProxy`,
`FetchRun`, `NodeConfig` and `FairShare` have safety properties only.

**Deadlock** is checked in every run; where a program really is done, an action
(`Quiet`, `Finished`) says so.

## Proofs

TLAPS checks these for all values of the constants that satisfy the named
assumption of the module. Every invariant and every action property of a passing run
has a theorem, and so has the refinement `ImplementsPartFetch`.

**SegmentRetryProofs** (`RetryAssumption`: finitely many numbered exits, at least
one attempt, at least one outcome per exit).

* `ReliableExitAlwaysWins`: if some exit always delivers and the others are fewer
  than the attempts, no segment exhausts them. The bound of two segments hides
  nothing: it holds for any number of tasks and any interleaving.
* `NoEarlyRepeat`, `NoPartLeftOver`, `OkAlwaysMeansComplete`, `TypeCorrect`.
* `RetryImplementsPartFetch`: the refinement that `FetchRun` rests on.
* `PickIsDeterministic`: `pick_retry` has exactly one result.

None of the properties is inductive. The invariant `IInv` adds that every exit a
task failed on is stamped, or is the one it is about to stamp (`StampInv`); that
a dependable exit is never stamped (`ReliableInv`); that while there is one, a
task fails on each exit at most once, so that attempts are counted by the set of
exits tried (`CountInv`); and that joined handles belong to complete files
(`PartInv`). The repeat is then excluded like this: a task avoids the exit it
just failed on, and all its other failures are stamped; if the best choice is
stamped, every other exit is as well, the dependable one among them.

**FetchRunProofs** (`FetchAssumption`: at least one segment, version and plan id; any
number of invocations).

* `AssemblyReadsOwnParts`, `SuccessAlwaysWhole`, `DigestAlwaysPins`, `RunTypeCorrect`.

Half of the invariant speaks of one invocation (`Sound(p)`). `Owns`: while nobody
overlaps it, what it believes of the part files is so. `Returned`: assembly follows an
Ok, and every planned file is complete from the Ok on. `Solo`: alone, the file is the
stream, and an assembly lacks only what is still queued, so the length shows if there is
too much. `Ends`: what a success means. That the steps of one invocation do not disturb
another needs no case for each action: if `p` takes a step then no other living
invocation is alone (`AloneInv`), and `Owns` and `Solo` speak of those that are. Only
`Ends` speaks of one that is through: the file it left is safe until somebody opens it,
because whoever writes to a file that another has created has overlapped that one
(`OverlapInv`).

The other half speaks of one output (`Vouch(x)`) and is what `DigestPinsVersion` needs;
that a digest matched a stream says nothing of a file that others truncate and
overwrite. While all who have ended have matched: what is wrong with the file, a byte of
another version or one too many, is wrong with the stream of somebody who is still
writing (`FromOf`, `KindOf`), who therefore will not match; what the creator has not
written yet the file may lack (`CreatorOpen`), since others wrote it before the
truncation; and once the creator is through it lacks nothing (`CreatorGone`), since the
creator has written all of it after the truncation and nobody can take a byte away
without creating it anew. `CreatorInv` ties the creator to the path.

**MeshFetchProofs** (`MeshAssumption`: as `RetryAssumption`, with what a path can come
to instead of the outcomes).

* `RefusalsEndFetches`: `RefusalInv` remembers the answer from the fatal status to the
  aborted segment.
* `MeshKeepsTheExecutorSafe`: the safety of the executor in the mesh. The module takes
  an instance of `SegmentRetryProofs` with the derived `Outcomes` for the free ones,
  whose assumption follows from `MeshAssumption`, so that the theorems of the executor
  are cited and not proved again. That they apply is the lemma `MeshIsRetry`: each
  request step names the step of `SegmentRetry` it is, and the derived `Outcomes` allow
  what it came to.
* `WillingExitWins`: with a willing exit, and attempts for every other one, no segment
  runs out of attempts. A willing exit is dependable in the sense of the executor, whose
  theorem is cited through the lemma `MeshIsRetry`.
* `MeshTypeCorrect`: the executor's types with `AnswerInv`, by which a segment has an
  answer exactly when an exit has failed it.

**FetchPlanProofs** (`PlanAssumption`: finitely many numbered exits and positive bounds
of the inputs, which may be any).

* `TypeCorrect`, `Coverage`, `Dropping`, `Planning`, `EveryStepShrinks`.

`Coverage` is what the last check, `validate`, guarantees of every plan that is handed
out, together with the order of the segments. A mistake in the split or the merge shows
in `Planning` instead: `validate` would refuse plans for files that can be planned.

The invariant `PlanInv` is that of the loops. `DropInv`: whoever was dropped is no
stronger than who was kept, because the weakest goes each time and ties are broken
among equals; and the last drop was needed. `CutInv`: the cursor is the sum of the
floors of the shares it has passed, and the products say that the shares to come still
have room, so that no floor takes it past the end and the last exit gets exactly the
rest. `SegsInv`: first bytes ascend strictly, which is what merging keeps and what
`validate` needs to see one segment per byte. `ChainInv`: while every share has a byte
for each part, each segment begins where the one before ends, with the one exception of
an overlap at byte 0 that a first share of nothing leaves; merging removes it if the
minimum is above one byte. That `even_subsplit` gives a chain of parts with lengths that
differ by one, and that a merge keeps order and chain, are lemmas. `EveryStepShrinks` is
the safety half of `PlannerEnds`: each step leads to a later loop or leaves its loop
fewer exits, shares or segments.

**ExitProxyProofs** (`ExitAssumption`: finitely many connections at a time, a quota,
a window and a relay of at least one byte or tick).

* `ExitOvershoot`, `ExitLedger`, `ExitRefusals`, `ExitOrigins`, `ExitTypeCorrect`.

The overshoot counts a place of `MaxCarry` bytes for every open connection. An
admission finds the neighbour below its quota, so whatever is open then fits; a
relay that ends gives its place up for what it carried, into the old window or
into a new one. `OriginInv` says from which phase on a task has an allowed source,
checked addresses and an origin. `RelayEnds` needs it for the types as well: only
listed neighbours get a ledger entry.

For the ledger, `LedgerIsTheWindow` alone is not inductive: it says nothing of an entry
whose window is over, which `record` replaces only when the next relay ends. `WindowInv`
therefore speaks of the entry that `roll_window` would return now. While the clock
stands still, what the relay adds to the entry is what it adds to the history; when the
clock moves, either the window goes on and the new tick adds nothing, or it is over and
the new one is empty, as the history of a tick that has just begun is. A refusal found
the rolled entry at the quota, and its window began within the last window's time: since
`ended` never decreases, what ended since then is at least as much.

**NodeDaemonProofs** (`DaemonAssumption`: at least one start).

* `SidecarGoneAfterDaemon`, `NodeIdentitySurvives`, `DaemonTypeCorrect`.

`PrepInv` ties the key file to the point `spawn_sidecar` has reached (torn while
it is being written, complete when the configuration names it) and says that a
start that is still preparing, or has not begun, has no sidecar.

**NodeConfigProofs** (`ConfigAssumption`: positive units and defaults, a word of any
size; an unset option is not one of the texts that are told apart, a sidecar's
directory is not the mark of a process started by hand).

* `SidecarAlwaysAsConfigured`, `ExitBindsOwnAddress`, `OnlyTheListedServed`,
  `QuotasAsAsked`, `ConfigTypeCorrect`.

`DiskInv` says what lies in the state directory at each point of a start, so that
`Spawn` finds the configuration of this start and a key. `OverlayInv` says that every
sidecar has the key of its directory, also an orphan, because a key that is there is
never replaced; and that none has the number of a start that has not spawned yet. For
the quotas, a saturating product of positive numbers is never zero, and `ValidQuota`
refuses the window that zero hours, or the wrapping product of `sn-exit`, come to.

**FairShareProofs** (`FairAssumption`: finitely many numbered participants and positive
bounds of weights, demands and capacity, which may be any).

* `TypeCorrect`, `Budgeted`, `NothingWasted`, `Fairness`, `OnePass`.

`FairInv` has a part for each thing the loops rely on. `Budget`: rates and what is left
to give make up the capacity. `Rounds`: who has left a round has its demand, and the
capacity runs out in a round only if there was none. `Spreading`: in the last round
everyone has its floor and room for one unit more, and the remainder is less than the
participants, so one pass is enough. `Levels`: who has left has, by weight, no more than
the share of those still there. It survives a round because the ones that leave take no
more than their shares, so that the others' share can only grow. `Served` carries the
contributors' state into the turn of the leeches.

**Sums.** The planner and the fair share add up weights, floors and rates of a set with
a fold. The facts needed (the sum of a set is a natural number, one element can be taken
out, sums are monotone, a floor of a sum is at least the sum of the floors) are lemmas,
proved without an induction rule: if one failed for some set it would fail for a smallest
one, which the well-foundedness of strict inclusion on finite sets supplies, and for that
one it follows from the set with one element less.

**Only model-checked**: the liveness properties (`ReliableFetchSucceeds`, `WillingFetchSucceeds`,
`PlannerEnds`, and `DeathEndsTheDaemon`, `ShutdownEndsTheDaemon`, `OverlayWaitEnds` of
the daemon), since the prover has neither fairness nor ENABLED. The three violated
properties are refuted by TLC. The sums are the only folds of the models; for recursion
over data in general the provers have no induction rule.

## What the work found

Each has a run that shows it and an entry under `findings`.

1. Bytes of a forwarded head are not accounted if its write breaks off
   (`proxy.rs:218`).
2. A mute admin socket makes the daemon deaf for a shutdown (`daemon.rs:259`).
3. The 403 that a neighbour's exit gives a plain http request is taken for the
   target's and ends the fetch, although another exit would have served it
   (`exec.rs:293`; the comment at 288-289 says a retry "cannot succeed").

Seen while modelling, without a run:

* After an error the other segment tasks are detached and not stopped (`exec.rs:159`;
  the comment of the function, 117-119, says a failure aborts the fetch). `PartFetch`
  allows for it: a file may change after an error.
* A fetch that fails after its output was created leaves the broken file there
  (`runner.rs:132`, `exec.rs:439`).
* The default output has the name the URL ends with (`main.rs:93-103`, `159-162`), so two
  fetches of one target at the same time write to one file. The first to succeed prints
  its report while the other is still filling the file it has truncated, and if that one
  fails, or has no digest, the file stays broken: "A partially assembled file is never
  presented as success" (`exec.rs:119-120`) holds of what an invocation has written, not
  of the file. `SuccessIsWhole` therefore asks that nobody overlapped, and
  `DigestPinsVersion` that nobody writes any more and everybody has matched.
* Without a digest a success does not tell the version: segments of two versions of one
  length can be assembled (`runner.rs:80`). `SuccessIsWhole` does not deny it.
* `even_subsplit` returns nothing for a share with fewer bytes than parts, where its
  comment (201-202) rules that out, and a plan that exists is then not found
  (`plan.rs:217`).
* `genconf --private-key-path` writes the path into the configuration but leaves the
  embedded key there and writes no key file (`sn-node/src/config.rs:216`, against
  `sn-node/src/main.rs:49-50`).
* The window of the standalone `sn-exit` is a product that wraps in a release build
  (`sn-exit/src/main.rs:76`), where the daemon saturates; `QuotaAsAsked` excepts it.
* A tunnel is acknowledged before the origin is connected (`proxy.rs:206`), and
  `Retry-After` is rounded down (`proxy.rs:76`).

## Not modelled

Text: what the characters of arguments, configuration files, request heads and answers
of the admin socket are (the models have which of them are accepted), reports and logs. Tables: the address ranges of `is_public_origin`.
Callbacks: progress. Durations: a timeout is a failure that may happen, the values
of `HANDSHAKE_TIMEOUT`, `OVERLAY_WAIT` and the grace are not compared. Bytes of a
file: a part file is absent, stale, partial or full, which is what assembly can
tell apart by length and digest. Deployment files and design documents.

## Plan

Done, in this order: the executor and its contract, the runner over the contract,
the planner, the exit with its ledger, the daemon, the fair share, the first three
proof modules; then concurrent invocations, the fetch through exits, the
configuration, each with its safety proved; then the outputs that invocations share.

The proofs now reach every safety property of the runs.

Next, by importance:

1. **Progress**: what `EveryStepShrinks` is for the planner, for the executor and for
   the end of a daemon, so that of their liveness only the fairness rule is left to TLC.
2. **The abstract contracts of the exit and the fair share**: a ledger as a
   bag of relays, an allocation as a single step.
3. **The handshake of the exit with time**, and with it the window that a 503 names:
   whether a retry after `Retry-After` succeeds.
4. **Total rates of the fair share** and the checks of the ids before it.
