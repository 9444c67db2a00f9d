---------------------------- MODULE FetchRunProofs ----------------------------
(***************************************************************************)
(* Safety of FetchRun, for any number of invocations, output paths,        *)
(* segments, versions and part files, one after the other or at the same   *)
(* time.                                                                   *)
(***************************************************************************)
EXTENDS FetchRun, TLAPS

Views == [Index -> {"none", "stale", "partial", "full"}]
Calls == {"idle", "no_directory", "unknown_exit", "running", "ok", "err"}
Places == Over \cup {"probe", "segments", "append", "copy", "copying"}
Versions == 1..MaxVersion

LEMMA EntryType ==
    ASSUME NEW state \in {"none", "partial", "full"}, NEW owner \in Slots \cup {0},
           NEW from \in Versions
    PROVE  Entry(state, owner, from) \in File
BY DEF Entry, File, Versions

LEMMA WrittenType ==
    ASSUME NEW kind \in Content, NEW from \in SUBSET Versions
    PROVE  Written(kind, from) \in Stream
BY DEF Written, Stream, Versions

LEMMA HeldType ==
    ASSUME NEW kind \in Content, NEW from \in SUBSET Versions, NEW by \in Slots \cup {0}
    PROVE  Held(kind, from, by) \in Output
BY DEF Held, Output, Versions

LEMMA Unowned ==
    ASSUME NEW o \in Output
    PROVE  [o EXCEPT !.by = 0] \in Output
           /\ [o EXCEPT !.by = 0].kind = o.kind /\ [o EXCEPT !.by = 0].from = o.from
           /\ [o EXCEPT !.by = 0].by = 0
BY DEF Output

LEMMA FirstVersion == 1 \in Versions /\ 0 \in 0..MaxRuns
BY FetchAssumption, SMT DEF Versions

LEMMA SomePlanType == SomePlan \in Plan
<1>1. 1 \in Index
  BY FetchAssumption, SMT DEF Index
<1>2. (CHOOSE id \in PlanIds : TRUE) \in PlanIds
  BY FetchAssumption
<1>3. SomePlan \in [{1} -> PlanIds]
  BY <1>2 DEF SomePlan
<1>4. {1} = 1..1
  BY SMT
<1> QED  BY <1>1, <1>3, <1>4 DEF Plan

LEMMA EmptyType == Empty \in Stream
BY WrittenType DEF Empty, Content

LEMMA PlannedInIndex ==
    ASSUME TypeOK, NEW p \in Slots PROVE Planned(p) \subseteq Index /\ Planned(p) # {}
<1>1. plan[p] \in Plan
  BY DEF TypeOK
<1>2. PICK n \in Index : plan[p] \in [1..n -> PlanIds]
  BY <1>1, Zenon DEF Plan
<1>3. DOMAIN plan[p] = 1..n
  BY <1>2, Zenon
<1>4. 1..n \subseteq 1..MaxSegments /\ 1 \in 1..n
  BY FetchAssumption, SMT DEF Index
<1> QED  BY <1>3, <1>4, Zenon DEF Planned, Index

LEMMA TypeInit == Init => TypeOK
<1> SUFFICES ASSUME Init PROVE TypeOK
  OBVIOUS
<1> USE DEF Init
<1>1. plan \in [Slots -> Plan]
  BY SomePlanType
<1>2. version \in 1..MaxVersion /\ runs \in 0..MaxRuns
  BY FirstVersion DEF Versions
<1>3. directory \in [Index -> File]
  <2>1. \A state \in {"none", "partial"} : Entry(state, 0, 1) \in File
    BY FirstVersion, EntryType
  <2> QED  BY <2>1
<1>4. stream \in [Slots -> Stream]
  BY EmptyType
<1>5. output \in [Paths -> Output] /\ vouched \in [Paths -> BOOLEAN] /\ path \in [Slots -> Paths]
  <2>1. Held("absent", {}, 0) \in Output
    BY HeldType DEF Content
  <2> QED  BY <2>1
<1>6. pc \in [Slots -> Places] /\ part \in [Slots -> Views] /\ result \in [Slots -> Calls]
  BY DEF Over, Views, Places, Calls, NothingOpened
<1>7. queue \in [Slots -> SUBSET Index] /\ digest \in [Slots -> BOOLEAN]
      /\ lengthKnown \in [Slots -> BOOLEAN] /\ alone \in [Slots -> BOOLEAN]
  OBVIOUS
<1> QED  BY <1>1, <1>2, <1>3, <1>4, <1>5, <1>6, <1>7 DEF TypeOK, Views, Places, Calls

\* The typing of the variables that an action changes, one by one.
LEMMA TypeStart == ASSUME TypeOK, NEW p \in Slots, Start(p) PROVE TypeOK'
<1> USE DEF Start, Goto, ChooseOutput
<1>1. directory' \in [Index -> File]
  <2>1. \A s \in Index : directory[s] \in File /\ directory[s].from \in Versions
    BY DEF TypeOK, File, Versions
  <2>2. \A s \in Index : Entry("partial", 0, directory[s].from) \in File
    BY <2>1, EntryType
  <2> QED  BY <2>1, <2>2
<1>2. runs' \in 0..MaxRuns
  <2>1. runs \in 0..MaxRuns /\ runs < MaxRuns /\ runs' = runs + 1
    BY DEF TypeOK
  <2> QED  BY <2>1, FetchAssumption, SMT
<1>3. part' \in [Slots -> Views]
  <2>1. NothingOpened \in Views
    BY DEF Views, NothingOpened
  <2> QED  BY <2>1 DEF TypeOK, Views
<1>4. alone' \in [Slots -> BOOLEAN]
  <2>1. \A q \in Slots : (IF q = p THEN Others(p) = {} ELSE alone[q] /\ ~Alive(q)) \in BOOLEAN
    BY Zenon DEF Others, Alive
  <2> QED  BY <2>1
<1>5. output' \in [Paths -> Output] /\ stream' \in [Slots -> Stream]
  <2>1. \A x \in Paths : [output[x] EXCEPT !.by = 0] \in Output /\ output[x] \in Output
    BY Unowned DEF TypeOK
  <2>2. output' \in [Paths -> Output]
    BY <2>1
  <2>3. stream' \in [Slots -> Stream]
    BY EmptyType DEF TypeOK
  <2> QED  BY <2>2, <2>3
<1>6. pc' \in [Slots -> Places] /\ result' \in [Slots -> Calls]
      /\ queue' \in [Slots -> SUBSET Index] /\ path' \in [Slots -> Paths]
  BY DEF TypeOK, Places, Calls
<1>7. digest' \in [Slots -> BOOLEAN] /\ lengthKnown' \in [Slots -> BOOLEAN]
  BY DEF TypeOK
<1> QED
  BY <1>1, <1>2, <1>3, <1>4, <1>5, <1>6, <1>7 DEF TypeOK, Views, Places, Calls

LEMMA TypePart ==
    ASSUME TypeOK, NEW p \in Slots, NEW s \in Index,
           OpenPart(p, s) \/ FinishPart(p, s) \/ RemovePart(p, s)
    PROVE  TypeOK'
<1>1. directory[s] \in File /\ directory[s].from \in Versions /\ version \in Versions
  BY DEF TypeOK, File, Versions
<1>2. /\ Entry("partial", p, version) \in File
      /\ Entry("full", p, directory[s].from) \in File
      /\ Entry("partial", 0, directory[s].from) \in File
      /\ Entry("none", 0, 1) \in File
  BY <1>1, FirstVersion, EntryType
<1>3. directory' \in [Index -> File]
  <2>1. directory \in [Index -> File]
    BY DEF TypeOK
  <2>2. PICK v \in File : directory' = [directory EXCEPT ![s] = v]
    BY <1>1, <1>2 DEF OpenPart, FinishPart, RemovePart
  <2> QED  BY <2>1, <2>2
<1>4. part' \in [Slots -> Views]
  <2>1. part \in [Slots -> Views]
    BY DEF TypeOK, Views
  <2>2. PICK c \in {"partial", "full", "none"} : part' = [part EXCEPT ![p][s] = c]
    BY DEF OpenPart, FinishPart, RemovePart
  <2>3. [part[p] EXCEPT ![s] = c] \in Views
    BY <2>1 DEF Views
  <2> QED  BY <2>1, <2>2, <2>3
<1> QED
  BY <1>3, <1>4 DEF TypeOK, Views, OpenPart, FinishPart, RemovePart, settings, outputs, world

\* What opening, writing to and leaving an output do to the types.
LEMMA TypeCreate ==
    ASSUME TypeOK, NEW p \in Slots, NEW kind \in Content, NEW from \in SUBSET Versions,
           Create(p, kind, from)
    PROVE  stream' \in [Slots -> Stream] /\ output' \in [Paths -> Output]
           /\ vouched' \in [Paths -> BOOLEAN]
<1>1. Written(kind, from) \in Stream /\ Held(kind, from, p) \in Output
  BY WrittenType, HeldType
<1>2. stream' \in [Slots -> Stream] /\ output' \in [Paths -> Output]
  BY <1>1 DEF Create, TypeOK
<1>3. PICK b \in BOOLEAN : vouched' = [vouched EXCEPT ![path[p]] = b]
  BY Zenon DEF Create
<1>4. vouched' \in [Paths -> BOOLEAN]
  BY <1>3 DEF TypeOK
<1> QED  BY <1>2, <1>4

LEMMA TypeWrite ==
    ASSUME TypeOK, NEW p \in Slots, NEW kind \in Content, NEW from \in SUBSET Versions,
           Write(p, kind, from)
    PROVE  output' \in [Paths -> Output]
<1>1. path[p] \in Paths /\ output[path[p]] \in Output
  BY DEF TypeOK
<1> DEFINE was == output[path[p]]
<1>2. was.kind \in Content /\ was.from \in SUBSET Versions /\ was.by \in Slots \cup {0}
  BY <1>1 DEF Output, Versions
<1>3. Overlaid(p, was, kind) \in Content
  BY <1>2 DEF Overlaid, Content
<1>4. Held(Overlaid(p, was, kind), was.from \cup from, was.by) \in Output
  BY <1>2, <1>3, HeldType
<1> QED  BY <1>4 DEF Write, TypeOK

LEMMA TypeLeave ==
    ASSUME TypeOK, NEW p \in Slots, NEW matched \in BOOLEAN, Leave(p, matched)
    PROVE  stream' \in [Slots -> Stream] /\ vouched' \in [Paths -> BOOLEAN]
<1>1. stream' \in [Slots -> Stream]
  BY EmptyType DEF Leave, TypeOK
<1>2. PICK b \in BOOLEAN : vouched' = [vouched EXCEPT ![path[p]] = b]
  BY Zenon DEF Leave, TypeOK
<1>3. vouched' \in [Paths -> BOOLEAN]
  BY <1>2 DEF TypeOK
<1> QED  BY <1>1, <1>3

LEMMA TypeGone ==
    ASSUME TypeOK, NEW p \in Slots, Gone(p)
    PROVE  plan' \in [Slots -> Plan] /\ part' \in [Slots -> Views]
           /\ result' \in [Slots -> Calls] /\ queue' \in [Slots -> SUBSET Index]
<1>1. NothingOpened \in Views
  BY DEF Views, NothingOpened
<1> QED  BY <1>1, SomePlanType DEF Gone, TypeOK, Views, Calls

LEMMA TypeAppend == ASSUME TypeOK, NEW p \in Slots, AppendPart(p) PROVE TypeOK'
<1>1. stream[p] \in Stream /\ stream[p].kind \in Content /\ stream[p].from \in SUBSET Versions
  BY DEF TypeOK, Stream, Versions
<1>2. PICK s \in queue[p] :
         /\ queue' = [queue EXCEPT ![p] = @ \ {s}]
         /\ \E k \in Appended(p, s) :
               /\ Write(p, k, {directory[s].from})
               /\ stream' = [stream EXCEPT ![p] = Written(k, @.from \cup {directory[s].from})]
  BY DEF AppendPart
<1>3. PICK k \in Appended(p, s) :
         /\ Write(p, k, {directory[s].from})
         /\ stream' = [stream EXCEPT ![p] = Written(k, @.from \cup {directory[s].from})]
  BY <1>2
<1>4. s \in Index /\ directory[s].from \in Versions
  BY DEF TypeOK, File, Versions
<1>5. k \in Content
  BY <1>1, <1>3 DEF Appended, Lengthened, Content
<1>6. output' \in [Paths -> Output]
  BY <1>3, <1>4, <1>5, TypeWrite
<1>7. Written(k, stream[p].from \cup {directory[s].from}) \in Stream
  BY <1>1, <1>4, <1>5, WrittenType
<1>8. stream' \in [Slots -> Stream]
  BY <1>3, <1>7 DEF TypeOK
<1>9. queue' \in [Slots -> SUBSET Index]
  BY <1>2 DEF TypeOK
<1> QED  BY <1>6, <1>8, <1>9 DEF AppendPart, TypeOK, call, settings, world

LEMMA TypeOutput ==
    ASSUME TypeOK, NEW p \in Slots,
           AssembleOpen(p) \/ CopyOpen(p) \/ Verify(p) \/ CopyEnd(p)
    PROVE  TypeOK'
<1>1. CASE AssembleOpen(p)
  <2>1. stream' \in [Slots -> Stream] /\ output' \in [Paths -> Output]
        /\ vouched' \in [Paths -> BOOLEAN]
    <3>1. PICK k \in Content : Create(p, k, {})
      BY <1>1 DEF AssembleOpen, Content
    <3> QED  BY <3>1, TypeCreate
  <2>2. queue' \in [Slots -> SUBSET Index] /\ pc' \in [Slots -> Places]
    BY <1>1 DEF AssembleOpen, Goto, TypeOK, Listed, Places
  <2> QED  BY <1>1, <2>1, <2>2 DEF AssembleOpen, TypeOK, Places, call, settings, world
<1>2. CASE CopyOpen(p)
  <2>1. stream' \in [Slots -> Stream] /\ output' \in [Paths -> Output]
        /\ vouched' \in [Paths -> BOOLEAN]
    <3>1. "short" \in Content /\ {version} \in SUBSET Versions
      BY DEF TypeOK, Content, Versions
    <3> QED  BY <1>2, <3>1, TypeCreate DEF CopyOpen
  <2>2. pc' \in [Slots -> Places]
    BY <1>2 DEF CopyOpen, Goto, TypeOK, Places
  <2> QED  BY <1>2, <2>1, <2>2 DEF CopyOpen, TypeOK, Places, call, settings, world
<1>3. CASE Verify(p) \/ CopyEnd(p)
  <2>1. output' \in [Paths -> Output]
    <3>1. output' = output \/ Write(p, "exact", {})
      BY <1>3 DEF Verify, CopyEnd
    <3>2. "exact" \in Content /\ {} \in SUBSET Versions
      BY DEF Content
    <3> QED  BY <3>1, <3>2, TypeWrite DEF TypeOK
  <2>2. Leave(p, digest[p]) /\ Gone(p) /\ digest[p] \in BOOLEAN
    BY <1>3 DEF Verify, CopyEnd, TypeOK
  <2>3. pc' \in [Slots -> Places]
    BY <1>3 DEF Verify, CopyEnd, Goto, TypeOK, Places, Over
  <2> QED
    BY <1>3, <2>1, <2>2, <2>3, TypeLeave, TypeGone
       DEF Verify, CopyEnd, TypeOK, Places, Views, Calls, settings, world
<1> QED  BY <1>1, <1>2, <1>3

LEMMA TypeExit == ASSUME TypeOK, NEW p \in Slots, Exit(p) PROVE TypeOK'
<1>1. stream' \in [Slots -> Stream] /\ output' \in [Paths -> Output]
      /\ vouched' \in [Paths -> BOOLEAN]
  <2>1. GivenUp \in Output
    BY HeldType DEF GivenUp, Content, Versions
  <2>2. CASE p \in Writers(path[p])
    BY <2>1, <2>2, TypeLeave DEF Exit, TypeOK
  <2>3. CASE p \notin Writers(path[p])
    BY <2>3 DEF Exit, TypeOK, outputs
  <2> QED  BY <2>2, <2>3
<1>2. pc' \in [Slots -> Places] /\ digest' \in [Slots -> BOOLEAN]
      /\ lengthKnown' \in [Slots -> BOOLEAN] /\ alone' \in [Slots -> BOOLEAN]
  BY DEF Exit, Goto, TypeOK, Places, Over
<1>3. Gone(p) /\ UNCHANGED <<path, directory, world>>
  BY DEF Exit
<1> QED  BY <1>1, <1>2, <1>3, TypeGone DEF TypeOK, Places, Views, Calls, world

LEMMA TypeStep == ASSUME TypeOK, [Next]_vars PROVE TypeOK'
<1> USE DEF Goto, call, settings, outputs, world
<1>1. ASSUME NEW p \in Slots, Start(p) PROVE TypeOK'
  BY <1>1, TypeStart
<1>2. ASSUME NEW p \in Slots, Probe(p) PROVE TypeOK'
  <2>1. plan' \in [Slots -> Plan]
    <3>1. plan \in [Slots -> Plan]
      BY DEF TypeOK
    <3>2. plan' = plan \/ \E new \in Plan : plan' = [plan EXCEPT ![p] = new]
      BY <1>2 DEF Probe
    <3> QED  BY <3>1, <3>2
  <2>2. pc' \in [Slots -> Places]
    BY <1>2 DEF Probe, TypeOK, Places
  <2>3. lengthKnown' \in [Slots -> BOOLEAN]
    <3>1. lengthKnown \in [Slots -> BOOLEAN]
      BY DEF TypeOK
    <3>2. \E k \in BOOLEAN : lengthKnown' = [lengthKnown EXCEPT ![p] = k]
      BY <1>2, Zenon DEF Probe
    <3> QED  BY <3>1, <3>2
  <2> QED  BY <1>2, <2>1, <2>2, <2>3 DEF Probe, TypeOK, Places
<1>3. ASSUME NEW p \in Slots, CallSegments(p) PROVE TypeOK'
  <2>1. PICK r \in Calls : result' = [result EXCEPT ![p] = r]
    BY <1>3 DEF CallSegments, Calls
  <2> QED  BY <1>3, <2>1 DEF CallSegments, TypeOK, Calls
<1>4. ASSUME NEW p \in Slots, NEW s \in Index,
             OpenPart(p, s) \/ FinishPart(p, s) \/ RemovePart(p, s)
      PROVE TypeOK'
  BY <1>4, TypePart
<1>5. ASSUME NEW p \in Slots, AppendPart(p) PROVE TypeOK'
  BY <1>5, TypeAppend
<1>6. ASSUME NEW p \in Slots, AssembleOpen(p) \/ CopyOpen(p) \/ Verify(p) \/ CopyEnd(p)
      PROVE TypeOK'
  BY <1>6, TypeOutput
<1>7. ASSUME NEW p \in Slots, Fail(p) \/ Kill(p) PROVE TypeOK'
  BY <1>7, TypeExit DEF Fail, Kill
<1>8. CASE Replace
  <2>1. version' \in 1..MaxVersion
    <3>1. version \in 1..MaxVersion /\ version < MaxVersion /\ version' = version + 1
      BY <1>8 DEF Replace, TypeOK
    <3> QED  BY <3>1, FetchAssumption, SMT
  <2> QED  BY <1>8, <2>1 DEF Replace, TypeOK
<1>9. CASE Finished \/ UNCHANGED vars
  BY <1>9 DEF Finished, vars, TypeOK
<1> QED
  BY <1>1, <1>2, <1>3, <1>4, <1>5, <1>6, <1>7, <1>8, <1>9 DEF Next, Invocation

\* Types of all variables (main.rs, runner.rs, exec.rs).
THEOREM RunTypeCorrect == Spec => []TypeOK
<1>1. Init => TypeOK  BY TypeInit
<1>2. TypeOK /\ [Next]_vars => TypeOK'  BY TypeStep
<1> QED  BY <1>1, <1>2, PTL DEF Spec

-----------------------------------------------------------------------------
(***************************************************************************)
(* The inductive invariant.                                                *)
(***************************************************************************)

HasOpened(p) == pc[p] \in {"append", "copying"}

\* Invocations that overlap both know it.
AloneInv == \A p, q \in Slots : p # q /\ Alive(p) /\ Alive(q) => ~alone[p]

\* What an invocation that nobody overlaps believes of the part files is so.
Owns(p) ==
    alone[p] /\ Alive(p) =>
        \A s \in Index :
            /\ part[p][s] = "full" => directory[s].state = "full" /\ directory[s].owner = p
            /\ part[p][s] = "partial" => directory[s].owner = p

\* Only a call has a result, assembly follows an Ok, and nothing touches the part files
\* after one.
Returned(p) ==
    /\ result[p] # "idle" => pc[p] \in {"segments", "append"}
    /\ pc[p] = "append" => result[p] = "ok"
    /\ result[p] = "ok" => \A s \in Planned(p) : part[p][s] = "full"

\* What a copy lacks until its body ends, and that an output that is open is there.
Streams(p) ==
    /\ pc[p] = "copying" => stream[p].kind = "short"
    /\ pc[p] = "append" => stream[p].kind # "absent"

\* Alone, the file is the stream, and an assembly lacks only what is still queued.
Solo(p) ==
    alone[p] =>
        /\ HasOpened(p) => output[path[p]].by = p /\ output[path[p]].kind = stream[p].kind
        /\ pc[p] = "append" => \/ stream[p].kind \in {"exact", "long"}
                               \/ stream[p].kind = "short" /\ queue[p] \cap Planned(p) # {}

Ends(p) ==
    alone[p] /\ pc[p] = "done" /\ (lengthKnown[p] \/ digest[p]) /\ output[path[p]].by = p
        => output[path[p]].kind = "exact"

Sound(p) == Owns(p) /\ Returned(p) /\ Streams(p) /\ Solo(p) /\ Ends(p)

\* Who created an output has it open or has succeeded.
CreatorInv ==
    \A x \in Paths, c \in Slots :
        output[x].by = c => pc[c] \in {"append", "copying", "done"} /\ path[c] = x

\* Whoever writes to a file that another one has created has overlapped that one.
OverlapInv ==
    \A p \in Slots, c \in Slots :
        HasOpened(p) /\ output[path[p]].by = c /\ c # p => ~alone[c]

\* While all who have ended have matched their digest, what is wrong with a file is
\* wrong with the stream of one who is still writing; what a creator who is still
\* writing lacks, the file may lack; and once the creator is through it lacks nothing.
FromOf(x) == output[x].from \subseteq {1} \/ \E w \in Writers(x) : ~(stream[w].from \subseteq {1})
KindOf(x) ==
    \/ output[x].kind \in {"short", "exact"}
    \/ \E w \in Writers(x) : stream[w].kind \in {"long", "odd"}
CreatorOpen(x) ==
    \A c \in Writers(x) : output[x].by = c =>
        /\ output[x].kind = "short" => stream[c].kind = "short"
        /\ stream[c].from \subseteq output[x].from
CreatorGone(x) ==
    output[x].by \notin Writers(x) => output[x].kind # "short" /\ 1 \in output[x].from

Vouch(x) == vouched[x] => FromOf(x) /\ KindOf(x) /\ CreatorOpen(x) /\ CreatorGone(x)

IInv ==
    /\ TypeOK /\ AloneInv /\ CreatorInv /\ OverlapInv
    /\ \A p \in Slots : Sound(p)
    /\ \A x \in Paths : Vouch(x)

LEMMA InitIInv == Init => IInv
<1> SUFFICES ASSUME Init PROVE IInv
  OBVIOUS
<1>1. TypeOK
  BY TypeInit
<1>2. \A p \in Slots : pc[p] = "idle" /\ result[p] = "idle" /\ ~Alive(p) /\ ~HasOpened(p)
  BY DEF Init, Alive, Over, HasOpened
<1>3. AloneInv
  BY <1>2 DEF AloneInv
<1>4. \A p \in Slots : Sound(p)
  BY <1>2 DEF Sound, Owns, Returned, Streams, Solo, Ends
<1>5. CreatorInv
  <2>1. \A x \in Paths : output[x].by = 0
    BY DEF Init, Held
  <2> QED  BY <2>1, FetchAssumption, Zenon DEF CreatorInv
<1>6. OverlapInv
  BY <1>2 DEF OverlapInv
<1>7. \A x \in Paths : Vouch(x)
  BY DEF Init, Vouch
<1> QED  BY <1>1, <1>3, <1>4, <1>5, <1>6, <1>7 DEF IInv

-----------------------------------------------------------------------------
(***************************************************************************)
(* What the steps of an invocation do to the outputs.                      *)
(***************************************************************************)

\* They see nothing of it: before the output is opened, or where it never was.
Quiet(p) ==
    /\ Alive(p) /\ ~HasOpened(p) /\ ~HasOpened(p)' /\ pc'[p] # "done"
    /\ UNCHANGED <<path, stream, output, vouched>>

Opens(p) ==
    /\ Alive(p) /\ ~HasOpened(p) /\ HasOpened(p)'
    /\ \E kind \in {"short", "odd"}, from \in SUBSET Versions : Create(p, kind, from)
    /\ UNCHANGED <<path, alone>>

Exits(p) ==
    /\ HasOpened(p) /\ pc'[p] = "killed" /\ UNCHANGED path
    /\ Leave(p, FALSE) /\ output' = [output EXCEPT ![path[p]] = GivenUp]

LEMMA StepOnOutputs ==
    ASSUME TypeOK, NEW p \in Slots, Invocation(p)
    PROVE  Start(p) \/ Quiet(p) \/ Opens(p) \/ AppendPart(p) \/ Verify(p) \/ CopyEnd(p) \/ Exits(p)
<1> USE DEF Quiet, Opens, Exits, HasOpened, Alive, Over, Goto, TypeOK, outputs, settings
<1>1. CASE Probe(p) \/ CallSegments(p)
  <2>1. Quiet(p)
    BY <1>1 DEF Probe, CallSegments
  <2> QED  BY <2>1, Zenon
<1>2. ASSUME NEW s \in Index, OpenPart(p, s) \/ FinishPart(p, s) \/ RemovePart(p, s)
      PROVE  Quiet(p)
  BY <1>2 DEF OpenPart, FinishPart, RemovePart
<1>3. CASE AssembleOpen(p) \/ CopyOpen(p)
  <2>1. \E kind \in {"short", "odd"}, from \in SUBSET Versions : Create(p, kind, from)
    <3>1. {} \in SUBSET Versions /\ {version} \in SUBSET Versions
      BY DEF Versions
    <3> QED  BY <1>3, <3>1 DEF AssembleOpen, CopyOpen
  <2>2. Alive(p) /\ ~HasOpened(p) /\ HasOpened(p)' /\ UNCHANGED <<path, alone>>
    BY <1>3 DEF AssembleOpen, CopyOpen
  <2>3. Opens(p)
    BY <2>1, <2>2, Zenon DEF Opens
  <2> QED  BY <2>3, Zenon
<1>4. CASE Fail(p) \/ Kill(p)
  <2>1. Alive(p) /\ Exit(p) /\ pc'[p] = "killed" /\ UNCHANGED path
    BY <1>4 DEF Fail, Kill, Exit
  <2>2. CASE p \in Writers(path[p])
    <3>1. Exits(p)
      BY <2>1, <2>2 DEF Exit, Writers
    <3> QED  BY <3>1, Zenon
  <2>3. CASE p \notin Writers(path[p])
    <3>1. Quiet(p)
      BY <2>1, <2>3 DEF Exit, Writers
    <3> QED  BY <3>1, Zenon
  <2> QED  BY <2>2, <2>3
<1> QED  BY <1>1, <1>2, <1>3, <1>4, Zenon DEF Invocation

\* What a step of invocation p leaves of another one.
Untouched(q) ==
    /\ plan'[q] = plan[q] /\ part'[q] = part[q] /\ result'[q] = result[q]
    /\ pc'[q] = pc[q] /\ path'[q] = path[q] /\ stream'[q] = stream[q]
    /\ digest'[q] = digest[q] /\ lengthKnown'[q] = lengthKnown[q]

LEMMA OthersUntouched ==
    ASSUME TypeOK, NEW p \in Slots, NEW q \in Slots, p # q, Invocation(p)
    PROVE  Untouched(q)
<1> USE DEF TypeOK, Untouched, call, settings, outputs, world, Goto
<1>1. CASE Start(p)
  BY <1>1 DEF Start, ChooseOutput
<1>2. CASE Probe(p)
  BY <1>2 DEF Probe
<1>3. CASE CallSegments(p)
  BY <1>3 DEF CallSegments
<1>4. ASSUME NEW s \in Index, OpenPart(p, s) \/ FinishPart(p, s) \/ RemovePart(p, s)
      PROVE  Untouched(q)
  BY <1>4 DEF OpenPart, FinishPart, RemovePart
<1>5. CASE AssembleOpen(p) \/ CopyOpen(p)
  BY <1>5 DEF AssembleOpen, CopyOpen, Create
<1>6. CASE AppendPart(p)
  BY <1>6 DEF AppendPart
<1>7. CASE Verify(p) \/ CopyEnd(p)
  BY <1>7 DEF Verify, CopyEnd, Leave, Gone
<1>8. CASE Fail(p) \/ Kill(p)
  <2>1. Exit(p)
    BY <1>8 DEF Fail, Kill
  <2>2. stream'[q] = stream[q]
    BY <2>1 DEF Exit, Leave
  <2> QED  BY <2>1, <2>2 DEF Exit, Gone
<1> QED  BY <1>1, <1>2, <1>3, <1>4, <1>5, <1>6, <1>7, <1>8 DEF Invocation

\* Nor does it see another output than that of p.
LEMMA OtherOutputs ==
    ASSUME TypeOK, NEW p \in Slots, NEW x \in Paths, x # path[p], Invocation(p), ~Start(p)
    PROVE  output'[x] = output[x] /\ vouched'[x] = vouched[x]
<1>1. path[p] \in Paths
  BY DEF TypeOK
<1>2. CASE Quiet(p)
  BY <1>2 DEF Quiet
<1>3. CASE Opens(p)
  BY <1>1, <1>3 DEF Opens, Create, TypeOK
<1>4. CASE AppendPart(p)
  BY <1>1, <1>4 DEF AppendPart, Write, TypeOK
<1>5. CASE Verify(p) \/ CopyEnd(p)
  BY <1>1, <1>5 DEF Verify, CopyEnd, Leave, Write, TypeOK
<1>6. CASE Exits(p)
  BY <1>1, <1>6 DEF Exits, Leave, TypeOK
<1> QED  BY <1>2, <1>3, <1>4, <1>5, <1>6, StepOnOutputs

\* Only a start changes an output path; it and an exit what is known of overlaps.
LEMMA OnlyStartsOverlap ==
    ASSUME TypeOK, NEW p \in Slots, Invocation(p), ~Start(p)
    PROVE  /\ Alive(p) /\ path' = path /\ (~Alive(p)' \/ alone'[p] = alone[p])
           /\ \A q \in Slots : q # p => alone'[q] = alone[q]
<1>1. CASE Fail(p) \/ Kill(p)
  BY <1>1 DEF Fail, Kill, Exit, Goto, Alive, Over, TypeOK
<1>2. CASE ~(Fail(p) \/ Kill(p))
  BY <1>2 DEF Invocation, Probe, CallSegments, OpenPart, FinishPart, RemovePart,
       AssembleOpen, AppendPart, Verify, CopyOpen, CopyEnd, Alive, Over, settings
<1> QED  BY <1>1, <1>2

LEMMA AloneStep == ASSUME TypeOK, AloneInv, NEW r \in Slots, Invocation(r) PROVE AloneInv'
<1> SUFFICES ASSUME NEW p \in Slots, NEW q \in Slots, p # q, Alive(p)', Alive(q)'
             PROVE  ~alone'[p]
  BY DEF AloneInv
<1>1. CASE Start(r)
  <2>1. alone'[p] = IF p = r THEN Others(r) = {} ELSE alone[p] /\ ~Alive(p)
    BY <1>1, Zenon DEF Start
  <2>2. CASE p = r
    <3>1. Alive(q)
      BY <2>2, OthersUntouched DEF Alive, Untouched
    <3>2. q \in Others(r)
      BY <2>2, <3>1 DEF Others
    <3> QED  BY <2>1, <2>2, <3>2, Zenon
  <2>3. CASE p # r
    <3>1. Alive(p)
      BY <2>3, OthersUntouched DEF Alive, Untouched
    <3> QED  BY <2>1, <2>3, <3>1, Zenon
  <2> QED  BY <2>2, <2>3
<1>2. CASE ~Start(r)
  <2>1. Alive(r) /\ alone'[p] = alone[p]
    BY <1>2, OnlyStartsOverlap, Zenon
  <2>2. Alive(p) /\ Alive(q)
    BY <2>1, OthersUntouched DEF Alive, Untouched
  <2> QED  BY <2>1, <2>2, Zenon DEF AloneInv
<1> QED  BY <1>1, <1>2

\* A step of one invocation shows that no other living one is alone.
LEMMA NobodyAlone ==
    ASSUME TypeOK, AloneInv, NEW p \in Slots, NEW q \in Slots, p # q, Invocation(p)
    PROVE  (alone'[q] => alone[q]) /\ (alone'[q] => ~Alive(q))
<1>1. CASE Start(p)
  <2>1. alone'[q] = (alone[q] /\ ~Alive(q))
    BY <1>1, Zenon DEF Start
  <2> QED  BY <2>1, Zenon
<1>2. CASE ~Start(p)
  <2>1. Alive(p) /\ alone'[q] = alone[q]
    BY <1>2, OnlyStartsOverlap, Zenon
  <2> QED  BY <2>1, Zenon DEF AloneInv
<1> QED  BY <1>1, <1>2

\* The fields of an output after each of them.
LEMMA StartEffect ==
    ASSUME TypeOK, NEW p \in Slots, NEW x \in Paths, Start(p)
    PROVE  /\ output'[x].kind = output[x].kind /\ output'[x].from = output[x].from
           /\ output'[x].by = IF output[x].by = p THEN 0 ELSE output[x].by
           /\ vouched'[x] = vouched[x]
<1>1. output[x] \in Output
  BY DEF TypeOK
<1>2. output'[x] = IF output[x].by = p THEN [output[x] EXCEPT !.by = 0] ELSE output[x]
  BY DEF Start
<1>3. vouched' = vouched
  BY DEF Start
<1> QED  BY <1>1, <1>2, <1>3, Unowned

LEMMA CreateEffect ==
    ASSUME TypeOK, NEW p \in Slots, NEW kind, NEW from, Create(p, kind, from)
    PROVE  /\ output'[path[p]].kind = kind /\ output'[path[p]].from = from
           /\ output'[path[p]].by = p
           /\ stream'[p].kind = kind /\ stream'[p].from = from
<1>1. path[p] \in Paths
  BY DEF TypeOK
<1> QED  BY <1>1 DEF Create, Held, Written, TypeOK

LEMMA WriteEffect ==
    ASSUME TypeOK, NEW p \in Slots, NEW kind, NEW from, Write(p, kind, from)
    PROVE  /\ output'[path[p]].kind = Overlaid(p, output[path[p]], kind)
           /\ output'[path[p]].from = output[path[p]].from \cup from
           /\ output'[path[p]].by = output[path[p]].by
<1>1. path[p] \in Paths
  BY DEF TypeOK
<1> QED  BY <1>1 DEF Write, Held, TypeOK

\* One part file appended.
LEMMA AppendEffect ==
    ASSUME TypeOK, NEW p \in Slots, AppendPart(p)
    PROVE  \E s \in queue[p], k \in Content :
              /\ k \in Appended(p, s) /\ directory[s].from \in Versions
              /\ queue'[p] = queue[p] \ {s}
              /\ Write(p, k, {directory[s].from})
              /\ stream'[p].kind = k
              /\ stream'[p].from = stream[p].from \cup {directory[s].from}
<1>1. PICK s \in queue[p] :
         /\ queue' = [queue EXCEPT ![p] = @ \ {s}]
         /\ \E k \in Appended(p, s) :
               /\ Write(p, k, {directory[s].from})
               /\ stream' = [stream EXCEPT ![p] = Written(k, @.from \cup {directory[s].from})]
  BY DEF AppendPart
<1>2. PICK k \in Appended(p, s) :
         /\ Write(p, k, {directory[s].from})
         /\ stream' = [stream EXCEPT ![p] = Written(k, @.from \cup {directory[s].from})]
  BY <1>1
<1>3. stream[p].kind \in Content
  BY DEF TypeOK, Stream
<1>4. k \in Content
  BY <1>2, <1>3 DEF Appended, Lengthened, Content
<1>5. directory[s].from \in Versions
  BY DEF TypeOK, File, Versions
<1>6. stream'[p] = Written(k, stream[p].from \cup {directory[s].from})
  BY <1>2 DEF TypeOK
<1>7. queue'[p] = queue[p] \ {s}
  BY <1>1 DEF TypeOK
<1>8. stream'[p].kind = k /\ stream'[p].from = stream[p].from \cup {directory[s].from}
  BY <1>6 DEF Written
<1> QED  BY <1>2, <1>4, <1>5, <1>7, <1>8

\* Who is a writer after a step of p.
LEMMA WritersStep ==
    ASSUME TypeOK, NEW p \in Slots, NEW x \in Paths, Invocation(p)
    PROVE  /\ \A q \in Slots : q # p => (q \in Writers(x)' <=> q \in Writers(x))
           /\ p \in Writers(x)' <=> HasOpened(p)' /\ path'[p] = x
           /\ p \in Writers(x) <=> HasOpened(p) /\ path[p] = x
<1>1. \A q \in Slots : q # p => (q \in Writers(x)' <=> q \in Writers(x))
  BY OthersUntouched DEF Untouched, Writers
<1> QED  BY <1>1 DEF Writers, HasOpened

LEMMA CreatorStep == ASSUME TypeOK, CreatorInv, NEW p \in Slots, Invocation(p) PROVE CreatorInv'
<1> SUFFICES ASSUME NEW x \in Paths, NEW c \in Slots, output'[x].by = c
             PROVE  pc'[c] \in {"append", "copying", "done"} /\ path'[c] = x
  BY DEF CreatorInv
<1>1. ASSUME output[x].by = c, c # p
      PROVE  pc'[c] \in {"append", "copying", "done"} /\ path'[c] = x
  BY <1>1, OthersUntouched DEF Untouched, CreatorInv
<1>2. CASE Start(p)
  <2>1. output[x].by = c /\ c # p
    BY <1>2, StartEffect, FetchAssumption
  <2> QED  BY <1>1, <2>1
<1>3. CASE Quiet(p)
  <2>1. output[x].by = c
    BY <1>3 DEF Quiet
  <2>2. c # p
    BY <1>3, <2>1 DEF CreatorInv, Quiet, Alive, Over, HasOpened
  <2> QED  BY <1>1, <2>1, <2>2
<1>4. CASE Opens(p)
  <2>1. CASE x = path[p]
    BY <1>4, <2>1, CreateEffect DEF Opens, HasOpened
  <2>2. CASE x # path[p]
    <3>1. ~Start(p)
      BY <1>4 DEF Opens, Start, Alive
    <3>2. output[x].by = c
      BY <2>2, <3>1, OtherOutputs
    <3>3. c # p
      BY <2>2, <3>2, Zenon DEF CreatorInv
    <3> QED  BY <1>1, <3>2, <3>3
  <2> QED  BY <2>1, <2>2
<1>5. CASE AppendPart(p) \/ Verify(p) \/ CopyEnd(p)
  <2>1. ~Start(p) /\ path' = path /\ pc'[p] \in {"append", "done"}
    BY <1>5 DEF AppendPart, Verify, CopyEnd, Start, Goto, Over, TypeOK, settings
  <2>2. output[x].by = c
    <3>1. CASE x # path[p]
      BY <2>1, <3>1, OtherOutputs
    <3>2. CASE x = path[p]
      BY <1>5, <3>2, AppendEffect, WriteEffect DEF Verify, CopyEnd
    <3> QED  BY <3>1, <3>2
  <2>3. CASE c = p
    BY <2>1, <2>2, <2>3 DEF CreatorInv
  <2> QED  BY <1>1, <2>2, <2>3
<1>6. CASE Exits(p)
  <2>1. x # path[p]
    BY <1>6, FetchAssumption DEF Exits, GivenUp, Held, TypeOK
  <2>2. output[x].by = c
    BY <1>6, <2>1 DEF Exits, TypeOK
  <2>3. c # p
    BY <2>1, <2>2, Zenon DEF CreatorInv
  <2> QED  BY <1>1, <2>2, <2>3
<1> QED  BY <1>2, <1>3, <1>4, <1>5, <1>6, StepOnOutputs

LEMMA OverlapStep ==
    ASSUME TypeOK, AloneInv, CreatorInv, OverlapInv, NEW r \in Slots, Invocation(r)
    PROVE  OverlapInv'
<1> SUFFICES ASSUME NEW p \in Slots, NEW c \in Slots, HasOpened(p)',
                    output'[path'[p]].by = c, c # p
             PROVE  ~alone'[c]
  BY DEF OverlapInv
<1>1. AloneInv' /\ CreatorInv'
  BY AloneStep, CreatorStep
<1>2. path'[p] \in Paths
  BY TypeStep, Zenon DEF Next, TypeOK
<1>3. Alive(p)'
  BY DEF HasOpened, Alive, Over
\* An open file's creator that has it open, too, is alive.
<1>4. CASE HasOpened(c)'
  <2>1. Alive(c)'
    BY <1>4 DEF HasOpened, Alive, Over
  <2> QED  BY <1>1, <1>3, <2>1, Zenon DEF AloneInv
<1>5. CASE ~HasOpened(c)'
  <2>1. pc'[c] = "done"
    BY <1>1, <1>2, <1>5 DEF CreatorInv, HasOpened
  <2>2. CASE r = c
    <3>1. Verify(c) \/ CopyEnd(c)
      <4>1. ~Start(c) /\ ~Quiet(c) /\ ~Opens(c) /\ ~AppendPart(c) /\ ~Exits(c)
        BY <2>1, <2>2 DEF Start, Quiet, Opens, AppendPart, Exits, HasOpened, Goto, TypeOK
      <4> QED  BY <2>2, <4>1, StepOnOutputs
    <3>2. Alive(c) /\ alone' = alone
      BY <3>1 DEF Verify, CopyEnd, Alive, Over, settings
    <3>3. Alive(p)
      BY <1>3, <2>2, OthersUntouched DEF Untouched, Alive
    <3> QED  BY <3>2, <3>3, Zenon DEF AloneInv
  <2>3. CASE r # c
    <3>1. alone'[c] => alone[c]
      BY <2>3, NobodyAlone, Zenon
    <3>2. HasOpened(p) /\ output[path[p]].by = c
      <4>1. CASE r = p
        <5>1. ~Start(p) /\ ~Opens(p) /\ ~Quiet(p) /\ ~Exits(p)
          <6>1. ~Start(p)
            BY DEF Start, Goto, TypeOK, HasOpened
          <6>2. ~Opens(p)
            BY CreateEffect DEF Opens
          <6> QED  BY <6>1, <6>2 DEF Quiet, Exits, HasOpened
        <5>2. AppendPart(p) \/ Verify(p) \/ CopyEnd(p)
          BY <4>1, <5>1, StepOnOutputs
        <5>3. path' = path /\ HasOpened(p)
          BY <5>2 DEF AppendPart, Verify, CopyEnd, settings, HasOpened
        <5> QED  BY <5>2, <5>3, AppendEffect, WriteEffect DEF Verify, CopyEnd
      <4>2. CASE r # p
        <5>1. HasOpened(p) /\ path'[p] = path[p]
          BY <4>2, OthersUntouched DEF Untouched, HasOpened
        <5>2. output'[path[p]].by = c
          BY <5>1
        <5>3. path[p] \in Paths
          BY DEF TypeOK
        <5>4. CASE Start(r)
          BY <5>1, <5>2, <5>3, <5>4, StartEffect, FetchAssumption
        <5>5. CASE ~Start(r) /\ path[p] # path[r]
          BY <5>1, <5>2, <5>3, <5>5, OtherOutputs
        <5>6. CASE ~Start(r) /\ path[p] = path[r]
          <6>1. ~Opens(r)
            BY <2>3, <5>2, <5>6, CreateEffect DEF Opens
          <6>2. ~Exits(r)
            <7>1. GivenUp.by # c
              BY FetchAssumption DEF GivenUp, Held
            <7> QED  BY <5>2, <5>3, <5>6, <7>1 DEF Exits, TypeOK
          <6>3. output'[path[r]].by = output[path[r]].by
            BY <5>6, <6>1, <6>2, StepOnOutputs, AppendEffect, WriteEffect
               DEF Quiet, Verify, CopyEnd
          <6> QED  BY <5>1, <5>2, <5>6, <6>3
        <5> QED  BY <5>4, <5>5, <5>6
      <4> QED  BY <4>1, <4>2
    <3> QED  BY <3>1, <3>2, Zenon DEF OverlapInv
  <2> QED  BY <2>2, <2>3
<1> QED  BY <1>4, <1>5

-----------------------------------------------------------------------------
(***************************************************************************)
(* The outputs that are vouched for.                                       *)
(***************************************************************************)

\* A step that leaves the output and those who write to it leaves what is known of it.
LEMMA VouchKept ==
    ASSUME NEW x \in Paths, Vouch(x),
           output'[x].kind = output[x].kind, output'[x].from = output[x].from,
           output'[x].by = output[x].by \/ (output'[x].by = 0 /\ output[x].by \notin Writers(x)),
           vouched'[x] = vouched[x],
           Writers(x)' = Writers(x), \A w \in Writers(x) : stream'[w] = stream[w]
    PROVE  Vouch(x)'
<1> SUFFICES ASSUME vouched[x] PROVE (FromOf(x) /\ KindOf(x) /\ CreatorOpen(x) /\ CreatorGone(x))'
  BY Zenon DEF Vouch
<1>1. FromOf(x) /\ KindOf(x) /\ CreatorOpen(x) /\ CreatorGone(x)
  BY Zenon DEF Vouch
<1>2. FromOf(x)' /\ KindOf(x)'
  BY <1>1 DEF FromOf, KindOf
<1>3. CreatorOpen(x)'
  <2> SUFFICES ASSUME NEW c \in Writers(x), output'[x].by = c
               PROVE  /\ output[x].kind = "short" => stream[c].kind = "short"
                      /\ stream[c].from \subseteq output[x].from
    BY Zenon DEF CreatorOpen
  <2>1. output[x].by = c
    BY FetchAssumption DEF Writers
  <2> QED  BY <1>1, <2>1, Zenon DEF CreatorOpen
<1>4. CreatorGone(x)'
  <2> SUFFICES ASSUME output'[x].by \notin Writers(x)
               PROVE  output[x].kind # "short" /\ 1 \in output[x].from
    BY Zenon DEF CreatorGone
  <2> QED  BY <1>1, Zenon DEF CreatorGone
<1> QED  BY <1>2, <1>3, <1>4

\* What an append makes of the kinds, and that it only adds versions.
LEMMA AppendedKinds ==
    ASSUME TypeOK, NEW p \in Slots, NEW s \in Index, NEW k \in Appended(p, s),
           stream[p].kind # "absent"
    PROVE  k \in {"short", "exact", "long", "odd"}
           /\ (stream[p].kind \in {"long", "odd"} => k \in {"long", "odd"})
<1>1. stream[p].kind \in Content
  BY DEF TypeOK, Stream
<1> QED  BY <1>1 DEF Appended, Lengthened, Content

LEMMA VouchAppend ==
    ASSUME TypeOK, NEW p \in Slots, Streams(p), AppendPart(p), Vouch(path[p])
    PROVE  Vouch(path[p])'
<1> DEFINE x == path[p]
           was == output[x]
<1>1. PICK s \in queue[p], k \in Content :
              /\ k \in Appended(p, s)
              /\ Write(p, k, {directory[s].from})
              /\ stream'[p].kind = k
              /\ stream'[p].from = stream[p].from \cup {directory[s].from}
  BY AppendEffect
<1>2. /\ output'[x].kind = Overlaid(p, was, k) /\ output'[x].by = was.by
      /\ output'[x].from = was.from \cup {directory[s].from}
  BY <1>1, WriteEffect
<1>3. /\ pc[p] = "append" /\ pc' = pc /\ path' = path /\ vouched' = vouched
      /\ Writers(x)' = Writers(x) /\ p \in Writers(x)
      /\ \A w \in Writers(x) : w # p => stream'[w] = stream[w]
  BY DEF AppendPart, settings, Writers, TypeOK
<1>4. /\ stream[p].kind # "absent" /\ k \in {"short", "exact", "long", "odd"}
      /\ stream[p].kind \in {"long", "odd"} => k \in {"long", "odd"}
  <2>1. stream[p].kind # "absent" /\ s \in Index
    BY <1>3 DEF Streams, TypeOK
  <2> QED  BY <1>1, <2>1, AppendedKinds
<1> SUFFICES ASSUME vouched[x] PROVE (FromOf(x) /\ KindOf(x) /\ CreatorOpen(x) /\ CreatorGone(x))'
  BY <1>3, Zenon DEF Vouch
<1>5. FromOf(x) /\ KindOf(x) /\ CreatorOpen(x) /\ CreatorGone(x)
  BY Zenon DEF Vouch
<1>6. FromOf(x)'
  <2>1. CASE \E w \in Writers(x) : ~(stream[w].from \subseteq {1})
    BY <1>1, <1>3, <2>1 DEF FromOf
  <2>2. CASE directory[s].from # 1
    BY <1>1, <1>3, <2>2 DEF FromOf
  <2>3. CASE was.from \subseteq {1} /\ directory[s].from = 1
    BY <1>2, <1>3, <2>3 DEF FromOf
  <2> QED  BY <1>5, <2>1, <2>2, <2>3 DEF FromOf
<1>7. KindOf(x)'
  <2>1. CASE \E w \in Writers(x) : stream[w].kind \in {"long", "odd"}
    BY <1>1, <1>3, <1>4, <2>1 DEF KindOf
  <2>2. CASE k \in {"long", "odd"}
    BY <1>1, <1>3, <2>2 DEF KindOf
  <2>3. CASE was.kind \in {"short", "exact"} /\ k \in {"short", "exact"}
    BY <1>2, <1>3, <2>3 DEF KindOf, Overlaid
  <2> QED  BY <1>4, <1>5, <2>1, <2>2, <2>3 DEF KindOf
<1>8. CreatorOpen(x)'
  <2> SUFFICES ASSUME NEW c \in Writers(x), was.by = c
               PROVE  /\ output'[x].kind = "short" => stream'[c].kind = "short"
                      /\ stream'[c].from \subseteq output'[x].from
    BY <1>2, <1>3 DEF CreatorOpen
  <2>1. /\ was.kind = "short" => stream[c].kind = "short"
        /\ stream[c].from \subseteq was.from
    BY <1>5 DEF CreatorOpen
  <2>2. CASE c = p
    BY <1>1, <1>2, <2>1, <2>2 DEF Overlaid
  <2>3. CASE c # p
    BY <1>2, <1>3, <2>1, <2>3 DEF Overlaid
  <2> QED  BY <2>2, <2>3
<1>9. CreatorGone(x)'
  BY <1>2, <1>3, <1>5 DEF CreatorGone, Overlaid
<1> QED  BY <1>6, <1>7, <1>8, <1>9

\* A writer that ends with a digest that matches takes nothing wrong along.
LEMMA VouchEnd ==
    ASSUME TypeOK, NEW p \in Slots, Streams(p), Verify(p) \/ CopyEnd(p), Vouch(path[p])
    PROVE  Vouch(path[p])'
<1> DEFINE x == path[p]
           was == output[x]
<1>1. /\ path' = path /\ pc'[p] = "done" /\ p \in Writers(x)
      /\ vouched'[x] = (vouched[x] /\ digest[p])
      /\ \A q \in Slots : q # p => pc'[q] = pc[q] /\ stream'[q] = stream[q]
  BY DEF Verify, CopyEnd, Leave, Goto, settings, Writers, TypeOK
<1>2. Writers(x)' = Writers(x) \ {p}
  BY <1>1 DEF Writers
<1> SUFFICES ASSUME vouched[x], digest[p]
             PROVE  (FromOf(x) /\ KindOf(x) /\ CreatorOpen(x) /\ CreatorGone(x))'
  BY <1>1, Zenon DEF Vouch
<1>3. FromOf(x) /\ KindOf(x) /\ CreatorOpen(x) /\ CreatorGone(x)
  BY Zenon DEF Vouch
<1>4. stream[p].from = {1} /\ stream[p].kind \in {"short", "exact"}
  BY DEF Verify, CopyEnd, DigestMatches, Streams
<1>5. /\ output'[x].from = was.from /\ output'[x].by = was.by
      /\ was.kind \in {"short", "exact"} => output'[x].kind \in {"short", "exact"}
      /\ output'[x].kind = "short" => was.kind = "short" /\ was.by # p
  <2>1. CASE Verify(p)
    <3>1. output' = output /\ stream[p].kind = "exact"
      BY <2>1 DEF Verify, DigestMatches
    <3>2. was.by = p => was.kind # "short"
      BY <1>1, <1>3, <3>1 DEF CreatorOpen
    <3> QED  BY <3>1, <3>2
  <2>2. CASE CopyEnd(p)
    <3>1. Write(p, "exact", {})
      BY <2>2 DEF CopyEnd
    <3>2. /\ output'[x].kind = Overlaid(p, was, "exact") /\ output'[x].by = was.by
          /\ output'[x].from = was.from \cup {}
      BY <3>1, WriteEffect
    <3>3. /\ Overlaid(p, was, "exact") = "short" => was.kind = "short" /\ was.by # p
          /\ was.kind \in {"short", "exact"} => Overlaid(p, was, "exact") \in {"short", "exact"}
      BY DEF Overlaid
    <3>4. was.from \cup {} = was.from
      OBVIOUS
    <3> QED  BY <3>2, <3>3, <3>4
  <2> QED  BY <2>1, <2>2
<1>6. \A w \in Writers(x) : w # p => stream'[w] = stream[w]
  BY <1>1 DEF Writers
<1>7. FromOf(x)'
  BY <1>1, <1>2, <1>3, <1>4, <1>5, <1>6 DEF FromOf
<1>8. KindOf(x)'
  BY <1>1, <1>2, <1>3, <1>4, <1>5, <1>6 DEF KindOf
<1>9. CreatorOpen(x)'
  <2> SUFFICES ASSUME NEW c \in Writers(x), c # p, was.by = c
               PROVE  /\ output'[x].kind = "short" => stream[c].kind = "short"
                      /\ stream[c].from \subseteq was.from
    BY <1>1, <1>2, <1>5, <1>6 DEF CreatorOpen
  <2> QED  BY <1>3, <1>5 DEF CreatorOpen
<1>10. CreatorGone(x)'
  <2>1. CASE was.by = p
    <3>1. 1 \in was.from
      BY <1>1, <1>3, <1>4, <2>1 DEF CreatorOpen
    <3> QED  BY <1>1, <1>5, <2>1, <3>1 DEF CreatorGone
  <2>2. CASE was.by # p
    BY <1>1, <1>2, <1>3, <1>5, <2>2 DEF CreatorGone
  <2> QED  BY <2>1, <2>2
<1> QED  BY <1>7, <1>8, <1>9, <1>10

LEMMA VouchStep ==
    ASSUME TypeOK, NEW p \in Slots, Invocation(p), Streams(p), NEW x \in Paths, Vouch(x)
    PROVE  Vouch(x)'
<1>1. CASE Start(p)
  <2>1. p \notin Writers(x) /\ p \notin Writers(x)'
    BY <1>1 DEF Start, Goto, Writers, Over, TypeOK
  <2>2. Writers(x)' = Writers(x)
    <3>1. \A q \in Slots : q \in Writers(x)' <=> q \in Writers(x)
      BY <2>1, WritersStep
    <3> QED  BY <3>1 DEF Writers
  <2>3. \A w \in Writers(x) : stream'[w] = stream[w]
    BY <2>1, OthersUntouched DEF Untouched, Writers
  <2>4. /\ output'[x].kind = output[x].kind /\ output'[x].from = output[x].from
        /\ output'[x].by = output[x].by \/ (output'[x].by = 0 /\ output[x].by \notin Writers(x))
        /\ vouched'[x] = vouched[x]
    <3>1. /\ output'[x].kind = output[x].kind /\ output'[x].from = output[x].from
          /\ vouched'[x] = vouched[x]
          /\ output'[x].by = IF output[x].by = p THEN 0 ELSE output[x].by
      BY <1>1, StartEffect
    <3>2. output'[x].by = output[x].by \/ (output'[x].by = 0 /\ output[x].by \notin Writers(x))
      <4>1. CASE output[x].by = p
        BY <2>1, <3>1, <4>1, Zenon
      <4>2. CASE output[x].by # p
        BY <3>1, <4>2, Zenon
      <4> QED  BY <4>1, <4>2
    <3> QED  BY <3>1, <3>2
  <2> QED  BY <2>2, <2>3, <2>4, VouchKept
\* Another output, or one that nobody opens, writes to or leaves.
<1>2. CASE ~Start(p) /\ (x # path[p] \/ Quiet(p))
  <2>1. output'[x] = output[x] /\ vouched'[x] = vouched[x]
    BY <1>2, OtherOutputs DEF Quiet
  <2>2. p \notin Writers(x) /\ p \notin Writers(x)'
    BY <1>2, WritersStep, OnlyStartsOverlap DEF Quiet
  <2>3. Writers(x)' = Writers(x)
    <3>1. \A q \in Slots : q \in Writers(x)' <=> q \in Writers(x)
      BY <2>2, WritersStep
    <3> QED  BY <3>1 DEF Writers
  <2>4. \A w \in Writers(x) : stream'[w] = stream[w]
    BY <2>2, OthersUntouched DEF Untouched, Writers
  <2>5. /\ output'[x].kind = output[x].kind /\ output'[x].from = output[x].from
        /\ output'[x].by = output[x].by \/ (output'[x].by = 0 /\ output[x].by \notin Writers(x))
    BY <2>1
  <2> QED  BY <2>1, <2>3, <2>4, <2>5, VouchKept
<1>3. CASE Opens(p) /\ x = path[p]
  <2>1. PICK kind \in {"short", "odd"}, from \in SUBSET Versions : Create(p, kind, from)
    BY <1>3 DEF Opens
  <2>2. /\ output'[x].kind = kind /\ output'[x].from = from /\ output'[x].by = p
        /\ stream'[p].kind = kind /\ stream'[p].from = from
    BY <1>3, <2>1, CreateEffect
  <2>3. p \in Writers(x)'
    BY <1>3, WritersStep DEF Opens
  <2>4. FromOf(x)' /\ KindOf(x)'
    BY <2>2, <2>3 DEF FromOf, KindOf
  <2>5. CreatorOpen(x)' /\ CreatorGone(x)'
    BY <2>2, <2>3 DEF CreatorOpen, CreatorGone
  <2> QED  BY <2>4, <2>5, Zenon DEF Vouch
<1>4. CASE AppendPart(p) /\ x = path[p]
  <2>1. path'[p] = path[p]
    BY <1>4 DEF AppendPart, settings
  <2> QED  BY <1>4, <2>1, VouchAppend
<1>5. CASE (Verify(p) \/ CopyEnd(p)) /\ x = path[p]
  <2>1. path'[p] = path[p]
    BY <1>5 DEF Verify, CopyEnd, settings
  <2> QED  BY <1>5, <2>1, VouchEnd
<1>6. CASE Exits(p) /\ x = path[p]
  <2>1. ~vouched'[x]
    BY <1>6 DEF Exits, Leave, TypeOK
  <2> QED  BY <2>1, Zenon DEF Vouch
<1> QED  BY <1>1, <1>2, <1>3, <1>4, <1>5, <1>6, StepOnOutputs

-----------------------------------------------------------------------------
(***************************************************************************)
(* What an invocation knows of itself.                                     *)
(***************************************************************************)

\* What the others rely on is out of the reach of a step of p: a file that another
\* invocation created and p writes to is one of those that p overlapped.
LEMMA OthersSound ==
    ASSUME TypeOK, AloneInv, OverlapInv, NEW p \in Slots, NEW q \in Slots, p # q,
           Invocation(p), Sound(q)
    PROVE  Sound(q)'
<1>1. Untouched(q)
  BY OthersUntouched
<1>2. (alone'[q] => alone[q]) /\ (alone'[q] => ~Alive(q))
  BY NobodyAlone
<1>3. Alive(q)' = Alive(q)
  BY <1>1 DEF Untouched, Alive
<1>4. Owns(q)'
  BY <1>2, <1>3, Zenon DEF Owns
<1>5. Returned(q)' /\ Streams(q)'
  BY <1>1 DEF Sound, Returned, Streams, Untouched, Planned
<1>6. Solo(q)'
  <2>1. HasOpened(q)' => Alive(q)
    BY <1>1 DEF Untouched, Alive, Over, HasOpened
  <2>2. pc'[q] = "append" => Alive(q)
    BY <1>1 DEF Untouched, Alive, Over
  <2> QED  BY <1>2, <2>1, <2>2, Zenon DEF Solo
<1>7. Ends(q)'
  <2> SUFFICES ASSUME alone'[q], pc'[q] = "done", lengthKnown'[q] \/ digest'[q],
                      output'[path'[q]].by = q
               PROVE  output'[path'[q]].kind = "exact"
    BY Zenon DEF Ends
  <2> DEFINE x == path[q]
  <2>1. /\ alone[q] /\ pc[q] = "done" /\ (lengthKnown[q] \/ digest[q]) /\ path'[q] = x
        /\ output'[x].by = q /\ x \in Paths
    BY <1>1, <1>2 DEF Untouched, TypeOK
  <2>2. output[x].by = q /\ output'[x].kind = output[x].kind
    <3>1. CASE Start(p)
      BY <2>1, <3>1, StartEffect, FetchAssumption
    <3>2. CASE ~Start(p) /\ x # path[p]
      BY <2>1, <3>2, OtherOutputs
    <3>3. CASE ~Start(p) /\ x = path[p]
      <4>1. ~Opens(p)
        BY <2>1, <3>3, CreateEffect DEF Opens
      <4>2. ~Exits(p)
        <5>1. GivenUp.by # q
          BY FetchAssumption DEF GivenUp, Held
        <5> QED  BY <2>1, <3>3, <5>1 DEF Exits, TypeOK
      <4>3. ~(AppendPart(p) \/ Verify(p) \/ CopyEnd(p))
        <5> SUFFICES ASSUME AppendPart(p) \/ Verify(p) \/ CopyEnd(p) PROVE FALSE
          OBVIOUS
        <5>1. HasOpened(p)
          BY DEF AppendPart, Verify, CopyEnd, HasOpened
        <5>2. output[path[p]].by = q
          BY <2>1, <3>3, AppendEffect, WriteEffect DEF Verify, CopyEnd
        <5> QED  BY <2>1, <5>1, <5>2, Zenon DEF OverlapInv
      <4>4. Quiet(p)
        BY <3>3, <4>1, <4>2, <4>3, StepOnOutputs
      <4> QED  BY <2>1, <4>4 DEF Quiet
    <3> QED  BY <3>1, <3>2, <3>3
  <2> QED  BY <2>1, <2>2 DEF Sound, Ends
<1> QED  BY <1>4, <1>5, <1>6, <1>7 DEF Sound

\* Steps that touch neither the part files nor what is known of overlaps.
LEMMA OwnsKept ==
    ASSUME NEW p \in Slots, Owns(p), Alive(p), UNCHANGED <<part, directory, alone>>
    PROVE  Owns(p)'
<1>1. alone'[p] = alone[p] /\ part' = part /\ directory' = directory
  OBVIOUS
<1> QED  BY <1>1, Zenon DEF Owns

\* Where the output is not open, nothing is claimed of it.
LEMMA NothingOpen ==
    ASSUME NEW p \in Slots, ~HasOpened(p)', pc'[p] # "done"
    PROVE  Streams(p)' /\ Solo(p)' /\ Ends(p)'
BY DEF HasOpened, Streams, Solo, Ends

LEMMA SoundStart == ASSUME TypeOK, NEW p \in Slots, Start(p) PROVE Sound(p)'
<1>1. pc'[p] = "probe" /\ result'[p] = "idle"
  BY DEF Start, Goto, TypeOK
<1>2. \A s \in Index : part'[p][s] = "stale"
  BY DEF Start, TypeOK, NothingOpened
<1>3. Owns(p)' /\ Returned(p)'
  BY <1>1, <1>2 DEF Owns, Returned
<1> QED  BY <1>1, <1>3, NothingOpen DEF Sound, HasOpened

LEMMA SoundProbe == ASSUME TypeOK, NEW p \in Slots, Sound(p), Probe(p) PROVE Sound(p)'
<1>1. pc[p] = "probe" /\ pc'[p] \in {"segments", "copy"} /\ result'[p] = "idle"
  BY DEF Probe, Goto, TypeOK, Sound, Returned
<1>2. Owns(p)'
  <2>1. Alive(p) /\ UNCHANGED <<part, directory, alone>>
    BY <1>1 DEF Probe, Alive, Over
  <2> QED  BY <2>1, OwnsKept DEF Sound
<1>3. Returned(p)'
  BY <1>1 DEF Returned
<1> QED  BY <1>1, <1>2, <1>3, NothingOpen DEF Sound, HasOpened

LEMMA SoundCall ==
    ASSUME TypeOK, NEW p \in Slots, Sound(p), CallSegments(p) PROVE Sound(p)'
<1>1. pc[p] = "segments" /\ pc'[p] = "segments" /\ plan' = plan /\ part' = part
  BY DEF CallSegments
<1>2. Owns(p)'
  <2>1. Alive(p) /\ UNCHANGED <<part, directory, alone>>
    BY <1>1 DEF CallSegments, Alive, Over, settings
  <2> QED  BY <2>1, OwnsKept DEF Sound
<1>3. result'[p] = "ok" => \A s \in Planned(p) : part[p][s] = "full"
  BY DEF CallSegments, Parts!Begin, Parts!ReturnOk, Parts!ReturnErr, Parts!Planned, Planned
<1>4. Returned(p)'
  BY <1>1, <1>3 DEF Returned, Planned
<1> QED  BY <1>1, <1>2, <1>4, NothingOpen DEF Sound, HasOpened

\* An invocation that is alone finds nobody else when it completes a file.
LEMMA NobodyElse ==
    ASSUME AloneInv, NEW p \in Slots, alone[p], Alive(p) PROVE Others(p) = {}
<1>1. \A q \in Slots : q # p => ~Alive(q)
  BY Zenon DEF AloneInv
<1> QED  BY <1>1, Zenon DEF Others

LEMMA SoundPart ==
    ASSUME TypeOK, AloneInv, NEW p \in Slots, Sound(p), NEW s \in Index,
           OpenPart(p, s) \/ FinishPart(p, s) \/ RemovePart(p, s)
    PROVE  Sound(p)'
<1>1. /\ pc[p] = "segments" /\ pc' = pc /\ result' = result /\ plan' = plan
      /\ alone' = alone /\ Alive(p)
      /\ result[p] \in {"running", "err"}
  BY DEF OpenPart, FinishPart, RemovePart, Parts!Open, Parts!Finish, Parts!Remove,
         Parts!Writable, settings, Alive, Over
<1>2. ASSUME alone[p] PROVE
        \A t \in Index :
            /\ part'[p][t] = "full" => directory'[t].state = "full" /\ directory'[t].owner = p
            /\ part'[p][t] = "partial" => directory'[t].owner = p
  <2>1. \A t \in Index :
            /\ part[p][t] = "full" => directory[t].state = "full" /\ directory[t].owner = p
            /\ part[p][t] = "partial" => directory[t].owner = p
    BY <1>1, <1>2, Zenon DEF Sound, Owns
  <2>2. Others(p) = {}
    BY <1>1, <1>2, NobodyElse
  <2>3. part \in [Slots -> Views] /\ directory \in [Index -> File]
    BY DEF TypeOK, Views
  <2>4. CASE OpenPart(p, s)
    <3>1. /\ part' = [part EXCEPT ![p][s] = "partial"]
          /\ directory' = [directory EXCEPT ![s] = Entry("partial", p, version)]
      BY <2>4 DEF OpenPart
    <3> QED  BY <2>1, <2>3, <3>1 DEF Views, Entry
  <2>5. CASE FinishPart(p, s)
    <3>1. part' = [part EXCEPT ![p][s] = "full"] /\ part[p][s] = "partial"
      BY <2>5 DEF FinishPart, Parts!Finish
    <3>2. directory' = [directory EXCEPT ![s] = Entry("full", p, directory[s].from)]
      BY <2>1, <2>2, <2>5, <3>1 DEF FinishPart
    <3> QED  BY <2>1, <2>3, <3>1, <3>2 DEF Views, Entry
  <2>6. CASE RemovePart(p, s)
    <3>1. /\ part' = [part EXCEPT ![p][s] = "none"]
          /\ directory' = [directory EXCEPT ![s] = Entry("none", 0, 1)]
      BY <2>6 DEF RemovePart
    <3> QED  BY <2>1, <2>3, <3>1 DEF Views, Entry
  <2> QED  BY <2>4, <2>5, <2>6
<1>3. Owns(p)'
  BY <1>1, <1>2, Zenon DEF Owns
<1>4. Returned(p)'
  BY <1>1 DEF Returned
<1> QED  BY <1>1, <1>3, <1>4, NothingOpen DEF Sound, HasOpened

\* Assembly: the part files stay, and alone they are those of the plan.
LEMMA AssemblyKeeps ==
    ASSUME TypeOK, NEW p \in Slots, Sound(p), AssembleOpen(p) \/ AppendPart(p)
    PROVE  /\ Owns(p)' /\ Returned(p)' /\ pc'[p] = "append"
           /\ alone[p] => \A s \in Planned(p) :
                              directory[s].state = "full" /\ directory[s].owner = p
<1>1. /\ pc[p] \in {"segments", "append"} /\ pc'[p] = "append" /\ result[p] = "ok"
      /\ plan' = plan /\ part' = part /\ result' = result /\ directory' = directory
      /\ alone' = alone
  BY DEF AssembleOpen, AppendPart, Goto, TypeOK, call, settings, Sound, Returned
<1>2. Alive(p)
  BY <1>1 DEF Alive, Over
<1>3. result[p] = "ok" /\ \A s \in Planned(p) : part[p][s] = "full"
  BY <1>1 DEF Sound, Returned
<1>4. Planned(p) \subseteq Index
  BY PlannedInIndex
<1>5. alone[p] => \A s \in Planned(p) : directory[s].state = "full" /\ directory[s].owner = p
  BY <1>2, <1>3, <1>4, Zenon DEF Sound, Owns
<1>6. Owns(p)'
  BY <1>1, <1>2, OwnsKept DEF Sound
<1>7. Returned(p)'
  BY <1>1, <1>3 DEF Returned, Planned
<1> QED  BY <1>1, <1>5, <1>6, <1>7

LEMMA SoundAssemble ==
    ASSUME TypeOK, NEW p \in Slots, Sound(p), AssembleOpen(p) PROVE Sound(p)'
<1>1. /\ pc'[p] = "append" /\ path' = path /\ alone' = alone /\ plan' = plan
      /\ queue'[p] = Listed
  BY DEF AssembleOpen, Goto, TypeOK, settings, call
<1>2. PICK kind \in {"short", "odd"} :
         Create(p, kind, {}) /\ (Planned(p) \subseteq Listed => kind = "short")
  BY DEF AssembleOpen
<1>3. /\ output'[path[p]].kind = kind /\ output'[path[p]].by = p /\ stream'[p].kind = kind
  BY <1>2, CreateEffect
<1>4. Streams(p)'
  BY <1>1, <1>3 DEF Streams
<1>5. Solo(p)'
  <2> SUFFICES ASSUME alone[p] PROVE kind = "short" /\ queue'[p] \cap Planned(p) # {}
    BY <1>1, <1>3 DEF Solo, Planned
  <2>1. Planned(p) \subseteq Index /\ Planned(p) # {}
    BY PlannedInIndex
  <2>2. Planned(p) \subseteq Listed
    BY <2>1, AssemblyKeeps DEF Listed
  <2> QED  BY <1>1, <1>2, <2>1, <2>2
<1>6. Ends(p)'
  BY <1>1 DEF Ends
<1> QED  BY <1>4, <1>5, <1>6, AssemblyKeeps DEF Sound

LEMMA SoundAppend ==
    ASSUME TypeOK, AloneInv, NEW p \in Slots, Sound(p), AppendPart(p) PROVE Sound(p)'
<1>1. /\ pc[p] = "append" /\ pc'[p] = "append" /\ path' = path /\ alone' = alone
      /\ plan' = plan
  BY DEF AppendPart, settings, call
<1>2. PICK s \in queue[p], k \in Content :
              /\ k \in Appended(p, s) /\ queue'[p] = queue[p] \ {s}
              /\ Write(p, k, {directory[s].from})
              /\ stream'[p].kind = k
  BY AppendEffect
<1>3. /\ output'[path[p]].kind = Overlaid(p, output[path[p]], k)
      /\ output'[path[p]].by = output[path[p]].by
  BY <1>2, WriteEffect
<1>4. Streams(p)'
  <2>1. stream[p].kind # "absent" /\ s \in Index
    BY <1>1 DEF Sound, Streams, TypeOK
  <2>2. k # "absent"
    BY <1>2, <2>1, AppendedKinds
  <2> QED  BY <1>1, <1>2, <2>2 DEF Streams
<1>5. Solo(p)'
  <2> SUFFICES ASSUME alone[p]
               PROVE  /\ output'[path[p]].by = p /\ output'[path[p]].kind = k
                      /\ \/ k \in {"exact", "long"}
                         \/ k = "short" /\ (queue[p] \ {s}) \cap Planned(p) # {}
    BY <1>1, <1>2 DEF Solo, Planned
  <2>1. /\ output[path[p]].by = p /\ output[path[p]].kind = stream[p].kind
        /\ \/ stream[p].kind \in {"exact", "long"}
           \/ stream[p].kind = "short" /\ queue[p] \cap Planned(p) # {}
    BY <1>1 DEF Sound, Solo, HasOpened
  <2>2. s \in Planned(p) => Undisturbed(p, s)
    <3>1. Others(p) = {}
      BY <1>1, NobodyElse DEF Alive, Over
    <3> QED  BY <3>1, AssemblyKeeps DEF Undisturbed
  <2>3. \/ k \in {"exact", "long"}
        \/ k = "short" /\ (queue[p] \ {s}) \cap Planned(p) # {}
    <3>1. CASE s \notin Planned(p)
      BY <1>2, <2>1, <3>1 DEF Appended
    <3>2. CASE s \in Planned(p)
      <4>1. k = Lengthened(p, s)
        BY <1>2, <2>2, <3>2 DEF Appended
      <4>2. CASE queue[p] \cap Planned(p) = {s}
        BY <2>1, <4>1, <4>2 DEF Lengthened
      <4>3. CASE queue[p] \cap Planned(p) # {s}
        BY <2>1, <3>2, <4>1, <4>3 DEF Lengthened
      <4> QED  BY <4>2, <4>3
    <3> QED  BY <3>1, <3>2
  <2>4. stream[p].kind = "long" => k = "long"
    BY <1>2, <2>1, <2>2 DEF Appended, Lengthened
  <2>5. Overlaid(p, output[path[p]], k) = k
    BY <2>1, <2>3, <2>4 DEF Overlaid
  <2> QED  BY <1>3, <2>1, <2>3, <2>5
<1>6. Ends(p)'
  BY <1>1 DEF Ends
<1> QED  BY <1>4, <1>5, <1>6, AssemblyKeeps DEF Sound

LEMMA SoundEnd ==
    ASSUME TypeOK, NEW p \in Slots, Sound(p), Verify(p) \/ CopyEnd(p) PROVE Sound(p)'
<1>1. /\ pc[p] \in {"append", "copying"} /\ pc'[p] = "done" /\ result'[p] = "idle"
      /\ path' = path /\ alone' = alone /\ lengthKnown' = lengthKnown /\ digest' = digest
  BY DEF Verify, CopyEnd, Goto, Gone, settings, TypeOK
<1>2. Owns(p)' /\ Returned(p)' /\ Streams(p)' /\ Solo(p)'
  BY <1>1 DEF Owns, Returned, Streams, Solo, Alive, Over, HasOpened
<1>3. Ends(p)'
  <2> SUFFICES ASSUME alone[p], lengthKnown[p] \/ digest[p]
               PROVE  output'[path[p]].kind = "exact"
    BY <1>1 DEF Ends
  <2>1. output[path[p]].by = p /\ output[path[p]].kind = stream[p].kind
    BY <1>1 DEF Sound, Solo, HasOpened
  <2>2. CASE Verify(p)
    <3>1. pc[p] = "append" /\ queue[p] = {} /\ output' = output /\ LengthMatches(p)
      BY <2>2 DEF Verify
    <3>2. stream[p].kind = "exact"
      BY <3>1 DEF LengthMatches, Sound, Solo
    <3> QED  BY <2>1, <3>1, <3>2
  <2>3. CASE CopyEnd(p)
    <3>1. Write(p, "exact", {}) /\ stream[p].kind = "short"
      BY <2>3 DEF CopyEnd, Sound, Streams
    <3> QED  BY <2>1, <3>1, WriteEffect DEF Overlaid
  <2> QED  BY <2>2, <2>3
<1> QED  BY <1>2, <1>3 DEF Sound

LEMMA SoundCopy == ASSUME TypeOK, NEW p \in Slots, Sound(p), CopyOpen(p) PROVE Sound(p)'
<1>1. /\ pc[p] = "copy" /\ pc'[p] = "copying"
      /\ plan' = plan /\ part' = part /\ result' = result /\ directory' = directory
      /\ alone' = alone /\ path' = path
  BY DEF CopyOpen, Goto, TypeOK, call, settings
<1>2. Owns(p)'
  <2>1. Alive(p)
    BY <1>1 DEF Alive, Over
  <2> QED  BY <1>1, <2>1, OwnsKept DEF Sound
<1>3. Returned(p)'
  BY <1>1 DEF Sound, Returned, Planned
<1>4. output'[path[p]].by = p /\ output'[path[p]].kind = "short" /\ stream'[p].kind = "short"
  BY CreateEffect DEF CopyOpen
<1>5. Streams(p)' /\ Solo(p)' /\ Ends(p)'
  BY <1>1, <1>4 DEF Streams, Solo, Ends
<1> QED  BY <1>2, <1>3, <1>5 DEF Sound

LEMMA SoundExit == ASSUME TypeOK, NEW p \in Slots, Exit(p) PROVE Sound(p)'
<1>1. pc'[p] = "killed" /\ result'[p] = "idle"
  BY DEF Exit, Goto, Gone, TypeOK
<1>2. Owns(p)' /\ Returned(p)'
  BY <1>1 DEF Owns, Returned, Alive, Over
<1> QED  BY <1>1, <1>2, NothingOpen DEF Sound, HasOpened

-----------------------------------------------------------------------------
LEMMA IInvStep == ASSUME IInv, [Next]_vars PROVE IInv'
<1>1. /\ TypeOK /\ AloneInv /\ CreatorInv /\ OverlapInv
      /\ \A p \in Slots : Sound(p)
      /\ \A x \in Paths : Vouch(x)
  BY DEF IInv
<1>2. TypeOK'
  BY <1>1, TypeStep
<1>3. ASSUME NEW p \in Slots, Invocation(p) PROVE IInv'
  <2>1. AloneInv' /\ CreatorInv' /\ OverlapInv'
    BY <1>1, <1>3, AloneStep, CreatorStep, OverlapStep
  <2>2. Sound(p)'
    <3> USE <1>1
    <3>1. CASE Start(p)  BY <3>1, SoundStart
    <3>2. CASE Probe(p)  BY <3>2, SoundProbe
    <3>3. CASE CallSegments(p)  BY <3>3, SoundCall
    <3>4. CASE \E s \in Index : OpenPart(p, s) \/ FinishPart(p, s) \/ RemovePart(p, s)
      BY <3>4, SoundPart
    <3>5. CASE AssembleOpen(p)  BY <3>5, SoundAssemble
    <3>6. CASE AppendPart(p)  BY <3>6, SoundAppend
    <3>7. CASE Verify(p) \/ CopyEnd(p)  BY <3>7, SoundEnd
    <3>8. CASE CopyOpen(p)  BY <3>8, SoundCopy
    <3>9. CASE Fail(p) \/ Kill(p)  BY <3>9, SoundExit DEF Fail, Kill
    <3> QED  BY <1>3, <3>1, <3>2, <3>3, <3>4, <3>5, <3>6, <3>7, <3>8, <3>9
                DEF Invocation
  <2>3. \A q \in Slots : q # p => Sound(q)'
    BY <1>1, <1>3, OthersSound
  <2>4. Streams(p)
    BY <1>1 DEF Sound
  <2>5. \A x \in Paths : Vouch(x)'
    BY <1>1, <1>3, <2>4, VouchStep
  <2> QED  BY <1>2, <2>1, <2>2, <2>3, <2>5 DEF IInv
<1>4. ASSUME Replace \/ UNCHANGED vars PROVE IInv'
  <2>1. UNCHANGED <<plan, part, result, digest, path, pc, lengthKnown, queue, stream,
                    output, vouched, alone, directory>>
    BY <1>4 DEF Replace, vars, call, settings, outputs
  <2>2. AloneInv' /\ CreatorInv' /\ OverlapInv'
    BY <1>1, <2>1 DEF AloneInv, CreatorInv, OverlapInv, Alive, HasOpened
  <2>3. \A q \in Slots : Sound(q)'
    BY <1>1, <2>1 DEF Sound, Owns, Returned, Streams, Solo, Ends, Alive, HasOpened, Planned
  <2>4. \A x \in Paths : Vouch(x)'
    <3> SUFFICES ASSUME NEW x \in Paths PROVE Vouch(x)'
      OBVIOUS
    <3>1. Writers(x)' = Writers(x)
      BY <2>1 DEF Writers
    <3> QED  BY <1>1, <2>1, <3>1, VouchKept
  <2> QED  BY <1>2, <2>2, <2>3, <2>4 DEF IInv
<1> QED  BY <1>3, <1>4 DEF Next, Finished

LEMMA IInvHolds == Spec => []IInv
<1>1. Init => IInv  BY InitIInv
<1>2. IInv /\ [Next]_vars => IInv'  BY IInvStep
<1> QED  BY <1>1, <1>2, PTL DEF Spec

\* An invocation that no other overlaps assembles only part files it has completed
\* itself (assemble and download_attempt, exec.rs).
THEOREM AssemblyReadsOwnParts == Spec => []AssemblyReadsCompleteParts
<1>1. IInv => AssemblyReadsCompleteParts
  <2> SUFFICES ASSUME IInv, NEW p \in Slots, alone[p], result[p] = "ok",
                      NEW s \in Planned(p)
               PROVE  directory[s].state = "full" /\ directory[s].owner = p
    BY DEF AssemblyReadsCompleteParts
  <2>1. Sound(p) /\ Alive(p) /\ s \in Index
    BY PlannedInIndex DEF IInv, Sound, Returned, Alive, Over
  <2>2. part[p][s] = "full"
    BY <2>1 DEF Sound, Returned
  <2> QED  BY <2>1, <2>2, Zenon DEF Sound, Owns
<1> QED  BY <1>1, IInvHolds, PTL

\* The success of an invocation that no other overlaps is the whole file, until the next
\* one opens the output (runner.rs and assemble).
THEOREM SuccessAlwaysWhole == Spec => []SuccessIsWhole
<1>1. IInv => SuccessIsWhole
  BY Zenon DEF IInv, Sound, Ends, SuccessIsWhole
<1> QED  BY <1>1, IInvHolds, PTL

\* An output that any number of invocations have opened, truncated and written to under
\* each other is the version the digest names once nobody writes to it any more, if all
\* of them have matched it (assemble and run_whole; the default output of main.rs).
THEOREM DigestAlwaysPins == Spec => []DigestPinsVersion
<1>1. IInv => DigestPinsVersion
  <2> SUFFICES ASSUME IInv, NEW x \in Paths, vouched[x], Writers(x) = {}
               PROVE  output[x].kind = "exact" /\ output[x].from = {1}
    BY DEF DigestPinsVersion
  <2>1. FromOf(x) /\ KindOf(x) /\ CreatorGone(x)
    BY Zenon DEF IInv, Vouch
  <2>2. output[x].from \subseteq {1} /\ output[x].kind \in {"short", "exact"}
    BY <2>1 DEF FromOf, KindOf
  <2>3. output[x].kind # "short" /\ 1 \in output[x].from
    BY <2>1 DEF CreatorGone
  <2> QED  BY <2>2, <2>3
<1> QED  BY <1>1, IInvHolds, PTL
=============================================================================
