------------------------------- MODULE FetchRun -------------------------------
(***************************************************************************)
(* Invocations of sn-fetch for one target, one after the other or at the   *)
(* same time (runner.rs, probe.rs, main.rs and assemble in exec.rs).  An   *)
(* invocation probes the target, then either downloads planned segments    *)
(* and assembles the part files, or copies the body as one stream.  The    *)
(* parts directory is the same for all and nobody empties it.  The output  *)
(* path is the same, too, unless it is given: invocations that overlap can *)
(* truncate and overwrite each other's output.  An invocation can be       *)
(* killed at any point, and the target may be replaced at any time by      *)
(* another version of the same length.                                     *)
(*                                                                         *)
(* run_segments_with_policy is taken through its contract, PartFetch,      *)
(* which SegmentRetry implements: part[p] is what the call of invocation p *)
(* believes of the part files ("stale" where it has not opened one),       *)
(* directory is what they are.                                             *)
(***************************************************************************)
EXTENDS Naturals

CONSTANTS
    PlanIds, MaxSegments,
    Slots,        \* places for invocations that run at the same time
    Paths,        \* the output paths: the default one, and those given with -o
    MaxRuns,      \* bound: invocations
    MaxVersion    \* bound: versions of the target

ASSUME FetchAssumption ==
    /\ MaxSegments \in Nat \ {0} /\ MaxVersion \in Nat \ {0} /\ MaxRuns \in Nat
    /\ 0 \notin Slots /\ PlanIds # {} /\ Paths # {}

VARIABLES
    plan, part, result,   \* the call of run_segments_with_policy
    digest,        \* --sha256 is given: the digest of version 1
    path,          \* the output path of the invocation
    pc,            \* how far the invocation is
    lengthKnown,   \* the probe found a Content-Length
    queue,         \* the part files listed and not yet appended
    stream,        \* what the invocation has written and hashed, and of which versions
    output,        \* what is in every output file
    vouched,       \* history: all who wrote to it since it was last opened with no
                   \* writer of an earlier opening left have matched their digest
    alone,         \* history: no other invocation ran at the same time
    directory,     \* every part file, whose it is, and the version it is from
    version,       \* the version the target serves now
    runs           \* invocations started so far

call == <<plan, part, result>>
settings == <<digest, path, lengthKnown, alone>>
outputs == <<stream, output, vouched>>
world == <<version, runs>>
vars == <<plan, part, result, digest, path, pc, lengthKnown, queue, stream, output,
          vouched, alone, directory, version, runs>>

Parts(p) == INSTANCE PartFetch
            WITH plan <- plan[p], part <- part[p], result <- result[p]

Index == 1..MaxSegments
Planned(p) == DOMAIN plan[p]
Over == {"idle", "done", "killed"}
Alive(p) == pc[p] \notin Over
Others(p) == {q \in Slots \ {p} : Alive(q)}

\* "full": exactly the range that the plan of its owner gives it.  "partial": any
\* other content, and any content nobody vouches for (owner 0).
Entry(state, owner, from) == [state |-> state, owner |-> owner, from |-> from]
File == [state : {"none", "partial", "full"}, owner : Slots \cup {0}, from : 1..MaxVersion]

\* "exact": the whole target and nothing else.  "short": nothing else, but bytes are or
\* may be missing.  "long": bytes after the end.  "odd": anything, of whatever length.
Content == {"absent", "short", "exact", "long", "odd"}
Written(kind, from) == [kind |-> kind, from |-> from]
Stream == [kind : Content, from : SUBSET (1..MaxVersion)]

\* An output file, with the versions its bytes may be of and who truncated it last.
Held(kind, from, by) == [kind |-> kind, from |-> from, by |-> by]
Output == [kind : Content, from : SUBSET (1..MaxVersion), by : Slots \cup {0}]
GivenUp == Held("odd", 1..MaxVersion, 0)
Plan == UNION {[1..n -> PlanIds] : n \in Index}

TypeOK ==
    /\ plan \in [Slots -> Plan]
    /\ part \in [Slots -> [Index -> {"none", "stale", "partial", "full"}]]
    /\ result \in [Slots -> {"idle", "no_directory", "unknown_exit", "running", "ok", "err"}]
    /\ pc \in [Slots -> Over \cup {"probe", "segments", "append", "copy", "copying"}]
    /\ queue \in [Slots -> SUBSET Index]
    /\ path \in [Slots -> Paths]
    /\ stream \in [Slots -> Stream]
    /\ output \in [Paths -> Output] /\ vouched \in [Paths -> BOOLEAN]
    /\ directory \in [Index -> File]
    /\ digest \in [Slots -> BOOLEAN] /\ lengthKnown \in [Slots -> BOOLEAN]
    /\ alone \in [Slots -> BOOLEAN]
    /\ version \in 1..MaxVersion /\ runs \in 0..MaxRuns

Empty == Written("absent", {})
NothingOpened == [s \in Index |-> "stale"]
SomePlan == [s \in {1} |-> CHOOSE id \in PlanIds : TRUE]   \* until there is one

Init ==
    /\ plan = [p \in Slots |-> SomePlan]
    /\ part = [p \in Slots |-> NothingOpened]
    /\ result = [p \in Slots |-> "idle"]
    /\ digest = [p \in Slots |-> FALSE] /\ lengthKnown = [p \in Slots |-> FALSE]
    /\ pc = [p \in Slots |-> "idle"]
    /\ queue = [p \in Slots |-> {}]
    /\ path \in [Slots -> Paths]
    /\ stream = [p \in Slots |-> Empty]
    /\ output = [x \in Paths |-> Held("absent", {}, 0)]
    /\ vouched = [x \in Paths |-> FALSE]
    /\ alone = [p \in Slots |-> TRUE]
    /\ directory \in [Index -> {Entry(state, 0, 1) : state \in {"none", "partial"}}]
    /\ version = 1
    /\ runs = 0

Goto(p, place) == pc' = [pc EXCEPT ![p] = place]

\* Without -o the output path is the last part of the URL, for all invocations the same.
ChooseOutput(p) == \E x \in Paths : path' = [path EXCEPT ![p] = x]

\* An invocation starts: what is in the directory is not of its plan, whoever wrote it.
Start(p) ==
    /\ pc[p] \in Over /\ runs < MaxRuns
    /\ runs' = runs + 1
    /\ Goto(p, "probe")
    /\ part' = [part EXCEPT ![p] = NothingOpened]
    /\ result' = [result EXCEPT ![p] = "idle"]
    /\ \E d \in BOOLEAN : digest' = [digest EXCEPT ![p] = d]
    /\ lengthKnown' = [lengthKnown EXCEPT ![p] = FALSE]
    /\ queue' = [queue EXCEPT ![p] = {}]
    /\ ChooseOutput(p)
    /\ stream' = [stream EXCEPT ![p] = Empty]
    /\ output' = [x \in Paths |-> IF output[x].by = p THEN [output[x] EXCEPT !.by = 0]
                                   ELSE output[x]]
    /\ alone' = [q \in Slots |-> IF q = p THEN Others(p) = {}
                                 ELSE alone[q] /\ ~Alive(q)]
    /\ directory' = [s \in Index |-> IF directory[s].owner = p
                        THEN Entry("partial", 0, directory[s].from)
                        ELSE directory[s]]
    /\ UNCHANGED <<plan, vouched, version>>

ProbeUnchecked(p) ==   \* mutant: a plan of no segments is not refused
    /\ pc[p] = "probe"
    /\ \/ /\ Goto(p, "segments")
          /\ lengthKnown' = [lengthKnown EXCEPT ![p] = TRUE]
          /\ \E new \in Plan \cup {<<>>} : plan' = [plan EXCEPT ![p] = new]
       \/ /\ Goto(p, "copy")
          /\ \E k \in BOOLEAN : lengthKnown' = [lengthKnown EXCEPT ![p] = k]
          /\ UNCHANGED plan
    /\ UNCHANGED <<part, result, digest, path, alone, queue, outputs, directory, world>>

\* HEAD, and if that is inconclusive a one-byte range request.  Where ranges are served
\* and the length is known, a plan is built.
Probe(p) ==
    /\ pc[p] = "probe"
    /\ \/ /\ Goto(p, "segments")
          /\ lengthKnown' = [lengthKnown EXCEPT ![p] = TRUE]
          /\ \E new \in Plan : plan' = [plan EXCEPT ![p] = new]
       \/ /\ Goto(p, "copy")
          /\ \E k \in BOOLEAN : lengthKnown' = [lengthKnown EXCEPT ![p] = k]
          /\ UNCHANGED plan
    /\ UNCHANGED <<part, result, digest, path, alone, queue, outputs, directory, world>>

(***************************************************************************)
(* The segments.                                                           *)
(***************************************************************************)

\* run_segments_with_policy starts and returns.
CallSegments(p) ==
    /\ pc[p] = "segments"
    /\ \E r \in {"no_directory", "unknown_exit", "running", "ok", "err"} :
           result' = [result EXCEPT ![p] = r]
    /\ UNCHANGED <<plan, part, settings, pc, queue, outputs, directory, world>>
    /\ Parts(p)!Begin \/ Parts(p)!ReturnOk \/ Parts(p)!ReturnErr

Writing(q, s) == Alive(q) /\ part[q][s] = "partial"

\* The segment tasks work; after an error they do until the process is gone (Fail).  A file
\* is the writer's only if nobody else has written to it or still does: creating one
\* truncates it under whoever has it open, and removing one unlinks it.
OpenPart(p, s) ==
    /\ pc[p] = "segments"
    /\ part' = [part EXCEPT ![p][s] = "partial"]
    /\ UNCHANGED <<plan, result, settings, pc, queue, outputs, world>>
    /\ Parts(p)!Open(s)
    /\ directory' = [directory EXCEPT ![s] = Entry("partial", p, version)]

FinishPart(p, s) ==
    /\ pc[p] = "segments"
    /\ part' = [part EXCEPT ![p][s] = "full"]
    /\ UNCHANGED <<plan, result, settings, pc, queue, outputs, world>>
    /\ Parts(p)!Finish(s)
    /\ directory' = [directory EXCEPT ![s] =
           IF @.owner = p /\ \A q \in Others(p) : ~Writing(q, s)
           THEN Entry("full", p, @.from)
           ELSE IF @.state = "none" THEN @ ELSE Entry("partial", 0, @.from)]

RemovePart(p, s) ==
    /\ pc[p] = "segments"
    /\ part' = [part EXCEPT ![p][s] = "none"]
    /\ UNCHANGED <<plan, result, settings, pc, queue, outputs, world>>
    /\ Parts(p)!Remove(s)
    /\ directory' = [directory EXCEPT ![s] = Entry("none", 0, 1)]

\* The process is over: its tasks and all it knew are gone.
Gone(p) ==
    /\ part' = [part EXCEPT ![p] = NothingOpened]
    /\ result' = [result EXCEPT ![p] = "idle"]
    /\ plan' = [plan EXCEPT ![p] = SomePlan]
    /\ queue' = [queue EXCEPT ![p] = {}]

(***************************************************************************)
(* assemble.                                                               *)
(***************************************************************************)

\* The output is created, which truncates it under whoever else has it open.
Writers(x) == {q \in Slots : pc[q] \in {"append", "copying"} /\ path[q] = x}

Create(p, kind, from) ==
    /\ stream' = [stream EXCEPT ![p] = Written(kind, from)]
    /\ output' = [output EXCEPT ![path[p]] = Held(kind, from, p)]
    /\ vouched' = [vouched EXCEPT ![path[p]] = @ \/ Writers(path[p]) = {}]

\* What a file is when its writer p has written kind so far.  Everybody writes at an
\* offset of its own: nobody's bytes can be told from the same bytes of another, and
\* what was written before the last truncation is missing until that writer is through.
Overlaid(p, was, kind) ==
    IF "odd" \in {was.kind, kind} THEN "odd"
    ELSE IF "long" \in {was.kind, kind} THEN "long"
    ELSE IF was.by = p THEN kind ELSE was.kind

Write(p, kind, from) ==
    output' = [output EXCEPT ![path[p]] = Held(Overlaid(p, @, kind), @.from \cup from, @.by)]

\* The invocation writes no more, and stands for what it has written or does not.
Leave(p, matched) ==
    /\ vouched' = [vouched EXCEPT ![path[p]] = @ /\ matched]
    /\ stream' = [stream EXCEPT ![p] = Empty]

\* After an Ok the directory is listed and the output created.
Listed == {s \in Index : directory[s].state # "none"}

AssembleOpen(p) ==
    /\ pc[p] = "segments" /\ result[p] = "ok"
    /\ Goto(p, "append")
    /\ queue' = [queue EXCEPT ![p] = Listed]
    /\ Create(p, IF Planned(p) \subseteq Listed THEN "short" ELSE "odd", {})
    /\ UNCHANGED <<call, settings, directory, world>>

\* What the stream is once part file s is appended.  A file another invocation may
\* have written to, or writes to now, can have the right content or not.
Undisturbed(p, s) ==
    directory[s].state = "full" /\ directory[s].owner = p /\ Others(p) = {}

Lengthened(p, s) ==
    IF stream[p].kind = "short" /\ queue[p] \cap Planned(p) = {s}
    THEN "exact" ELSE stream[p].kind

Appended(p, s) ==
    IF s \notin Planned(p)
    THEN {IF stream[p].kind = "odd" THEN "odd" ELSE "long"}
         \cup {k \in {stream[p].kind} : directory[s].state = "partial"}   \* it was empty
    ELSE IF Undisturbed(p, s) THEN {Lengthened(p, s)}
    ELSE {Lengthened(p, s), "odd"}

\* The files are copied in the order of their numbers, and hashed as they are written;
\* one that is gone by then is an error.
AppendPart(p) ==
    /\ pc[p] = "append" /\ queue[p] # {}
    /\ \E s \in queue[p] :
         /\ \A t \in queue[p] : s <= t
         /\ directory[s].state # "none"
         /\ queue' = [queue EXCEPT ![p] = @ \ {s}]
         /\ \E k \in Appended(p, s) :
               /\ Write(p, k, {directory[s].from})
               /\ stream' = [stream EXCEPT ![p] = Written(k, @.from \cup {directory[s].from})]
    /\ UNCHANGED <<call, settings, pc, vouched, directory, world>>

\* The length and the digest of what was written.  The output stays whatever the
\* comparison says.
LengthMatches(p) == stream[p].kind \in {"exact", "odd"}

DigestRereads(p) ==   \* mutant: the part files are read once more for the digest
    digest[p] => \A s \in Planned(p) : directory[s].state = "full" /\ directory[s].from = 1

DigestMatches(p) ==
    digest[p] => stream[p].kind = "exact" /\ stream[p].from = {1}

VerifyDigestOnly(p) ==   \* mutant: the total length is not compared
    /\ pc[p] = "append" /\ queue[p] = {}
    /\ DigestMatches(p)
    /\ Goto(p, "done") /\ Leave(p, digest[p]) /\ Gone(p)
    /\ UNCHANGED <<settings, output, directory, world>>

Verify(p) ==
    /\ pc[p] = "append" /\ queue[p] = {}
    /\ LengthMatches(p) /\ DigestMatches(p)
    /\ Goto(p, "done") /\ Leave(p, digest[p]) /\ Gone(p)
    /\ UNCHANGED <<settings, output, directory, world>>

(***************************************************************************)
(* run_whole: one request through the first exit, written straight to the  *)
(* output.                                                                 *)
(***************************************************************************)
CopyOpen(p) ==
    /\ pc[p] = "copy"
    /\ Goto(p, "copying")
    /\ Create(p, "short", {version})
    /\ UNCHANGED <<call, settings, queue, directory, world>>

\* The body ends: it is whole, or cut short where only the end of the connection
\* delimits it, which a known length or a digest shows.
CopyEnd(p) ==
    /\ pc[p] = "copying"
    /\ \/ (digest[p] => stream[p].from = {1}) /\ Write(p, "exact", {})
       \/ ~lengthKnown[p] /\ ~digest[p] /\ UNCHANGED output
    /\ Goto(p, "done") /\ Leave(p, digest[p]) /\ Gone(p)
    /\ UNCHANGED <<settings, directory, world>>

(***************************************************************************)
(* The surroundings.                                                       *)
(***************************************************************************)

\* Part files and output stay as they are; what an output holds that its writer has
\* given up is anybody's guess.  (Whether it was alone, nobody asks of it any more.)
Exit(p) ==
    /\ Goto(p, "killed") /\ Gone(p)
    /\ IF p \in Writers(path[p])
       THEN Leave(p, FALSE) /\ output' = [output EXCEPT ![path[p]] = GivenUp]
       ELSE UNCHANGED outputs
    /\ digest' = [digest EXCEPT ![p] = FALSE]
    /\ lengthKnown' = [lengthKnown EXCEPT ![p] = FALSE]
    /\ alone' = [alone EXCEPT ![p] = TRUE]
    /\ UNCHANGED <<path, directory, world>>

\* An error: a failing HEAD, range support without a length, an invalid plan; one of
\* the segments; a foreign or vanished part file; a wrong length or digest; a failing
\* request or transfer; any error of a file operation.
Fail(p) ==
    /\ \/ pc[p] \in {"probe", "append", "copy", "copying"}
       \/ pc[p] = "segments" /\ result[p] \notin {"idle", "running"}
    /\ Exit(p)

\* The process is killed.
Kill(p) == Alive(p) /\ Exit(p)

\* The target is replaced by a file of the same length.
Replace ==
    /\ version < MaxVersion
    /\ version' = version + 1
    /\ UNCHANGED <<call, settings, pc, queue, outputs, directory, runs>>

Finished ==
    /\ \A p \in Slots : ~Alive(p)
    /\ runs = MaxRuns /\ version = MaxVersion
    /\ UNCHANGED vars

Invocation(p) ==
    \/ Start(p) \/ Probe(p) \/ CallSegments(p)
    \/ \E s \in Index : OpenPart(p, s) \/ FinishPart(p, s) \/ RemovePart(p, s)
    \/ AssembleOpen(p) \/ AppendPart(p) \/ Verify(p)
    \/ CopyOpen(p) \/ CopyEnd(p) \/ Fail(p) \/ Kill(p)

Next == (\E p \in Slots : Invocation(p)) \/ Replace \/ Finished

Spec == Init /\ [][Next]_vars

(***************************************************************************)
(* Properties.                                                             *)
(***************************************************************************)

\* assemble of an invocation that no other one overlaps reads only part files it has
\* completed itself: the stale, partial and half-removed ones of earlier attempts and
\* runs are gone.
AssemblyReadsCompleteParts ==
    \A p \in Slots :
        alone[p] /\ result[p] = "ok" =>
            \A s \in Planned(p) : directory[s].state = "full" /\ directory[s].owner = p

\* The success of an invocation that no other one overlaps means the whole file and
\* nothing else, until the next one opens that output, whatever earlier ones left in the
\* parts directory and wherever they were killed.  Only a stream of unknown length
\* without a digest may be short.  Without a digest the versions may be mixed.
SuccessIsWhole ==
    \A p \in Slots :
        /\ alone[p] /\ pc[p] = "done" /\ (lengthKnown[p] \/ digest[p])
        /\ output[path[p]].by = p
        => output[path[p]].kind = "exact"

\* When nobody writes to an output any more, and all who did while its writers
\* overlapped have succeeded with --sha256, the file is the version that the digest
\* names and nothing else: although they truncated and overwrote it under each other,
\* although they wrote, truncated and removed each other's part files, and although the
\* target was replaced meanwhile.  (One that fails, or has no digest, can spoil it for
\* one that has succeeded.)
DigestPinsVersion ==
    \A x \in Paths :
        vouched[x] /\ Writers(x) = {} =>
            output[x].kind = "exact" /\ output[x].from = {1}
=============================================================================
