------------------------------ MODULE FetchPlan ------------------------------
(***************************************************************************)
(* FetchPlan::build (sn-fetch, plan.rs): the byte ranges of a fetch.       *)
(* Exits that could not get a minimum segment are dropped, the file is cut *)
(* by the weights of the rest, every share into spe even parts, segments   *)
(* below the minimum are merged into a neighbour, and the outcome is       *)
(* validated.  One action per loop iteration; the inputs are chosen in the *)
(* initial state.                                                          *)
(***************************************************************************)
EXTENDS Naturals, SequencesExt

CONSTANTS
    Exits,       \* exit ids, all of them different
    MaxSize, MaxWeight, MaxPerExit, MaxMinimum   \* bounds of the inputs

ASSUME PlanAssumption ==
    /\ Exits \subseteq Nat /\ IsFiniteSet(Exits)
    /\ {MaxSize, MaxWeight, MaxPerExit, MaxMinimum} \subseteq Nat \ {0}

VARIABLES
    size, weight, perExit, minimum,   \* the inputs: file size, exit weights, spe, minimum
    pc,      \* the loop the planner is in
    kept,    \* the exits not dropped
    todo,    \* the kept exits whose share is not cut yet, in id order
    spe,     \* segments per exit, possibly reduced to one
    start,   \* first byte not assigned
    cursor,  \* end of the last share
    segs     \* the assignments: first byte, last byte, exit

inputs == <<size, weight, perExit, minimum>>
vars == <<size, weight, perExit, minimum, pc, kept, todo, spe, start, cursor, segs>>

given == DOMAIN weight   \* the exits of the command line
Segment(first, last, exit) == [first |-> first, last |-> last, exit |-> exit]
Length(seg) == seg.last - seg.first + 1
Lowest(S) == CHOOSE x \in S : \A y \in S : x <= y

TypeOK ==
    /\ size \in 1..MaxSize /\ \E S \in SUBSET Exits : weight \in [S -> 1..MaxWeight]
    /\ perExit \in 1..MaxPerExit /\ minimum \in 1..MaxMinimum
    /\ pc \in {"drop", "split", "merge", "validate", "ok", "invalid"}
    /\ kept \subseteq given /\ kept # {} /\ todo \subseteq kept
    /\ spe \in {1, perExit}
    /\ start \in 0..size /\ cursor \in 0..size
    /\ \A i \in DOMAIN segs : /\ segs[i].first \in 0..(size - 1)
                              /\ segs[i].last \in segs[i].first..(size - 1)
                              /\ segs[i].exit \in kept

Init ==
    /\ size \in 1..MaxSize
    /\ \E S \in (SUBSET Exits) \ {{}} : weight \in [S -> 1..MaxWeight]
    /\ perExit \in 1..MaxPerExit
    /\ minimum \in 1..MaxMinimum
    /\ pc = "drop"
    /\ kept = given
    /\ todo = {}
    /\ spe = perExit
    /\ start = 0 /\ cursor = 0
    /\ segs = <<>>

\* More exits than minimum segments.
TooManyForOne == size < Cardinality(kept) * minimum   \* mutant: the last exit goes, too

TooMany == Cardinality(kept) > 1 /\ size < Cardinality(kept) * minimum

\* The exit of the smallest weight; of several, the one with the highest id.
WeakestByIdOnly(e) ==   \* mutant: the weight is not looked at
    e \in kept /\ \A d \in kept : d <= e

Weakest(e) ==
    /\ e \in kept
    /\ \A d \in kept : weight[e] < weight[d] \/ (weight[e] = weight[d] /\ d <= e)

DropWeakest ==
    /\ pc = "drop"
    /\ TooMany
    /\ \E e \in kept : Weakest(e) /\ kept' = kept \ {e}
    /\ UNCHANGED <<inputs, pc, todo, spe, start, cursor, segs>>

\* One segment per exit where spe of them would be too small; a single exit with
\* a single segment needs no splitting.
ChooseSplit ==
    /\ pc = "drop"
    /\ ~TooMany
    /\ spe' = IF size \div (Cardinality(kept) * minimum) >= perExit THEN perExit ELSE 1
    /\ IF Cardinality(kept) = 1 /\ spe' = 1
       THEN /\ segs' = <<Segment(0, size - 1, Lowest(kept))>>
            /\ pc' = "merge"
            /\ UNCHANGED todo
       ELSE /\ pc' = "split"
            /\ todo' = kept
            /\ UNCHANGED segs
    /\ UNCHANGED <<inputs, kept, start, cursor>>

\* Where the share of exit e ends.  Of the units w * spe the factor spe cancels.
ShareEnd(e) ==
    IF todo = {e} THEN size
    ELSE cursor + (size * weight[e]) \div SumFunctionOnSet(weight, kept)

\* end.saturating_sub(1): a share that ends at 0 has its last byte at 0, too.
LastByte(end) == IF end = 0 THEN 0 ELSE end - 1

\* even_subsplit: nearly even parts, the first ones a byte longer.  An empty part
\* makes try_new fail, and the whole result is then empty.
EvenSubsplitDropsRemainder(first, last, parts, exit) ==   \* mutant: floor only
    LET base == (last - first + 1) \div parts
    IN  IF base = 0 THEN <<>>
        ELSE [i \in 1..parts |-> Segment(first + (i - 1) * base, first + i * base - 1, exit)]

EvenSubsplit(first, last, parts, exit) ==
    LET base == (last - first + 1) \div parts
        extra == (last - first + 1) % parts
        Cut(i) == first + i * base + (IF i < extra THEN i ELSE extra)
    IN  IF base = 0 THEN <<>>
        ELSE [i \in 1..parts |-> Segment(Cut(i - 1), Cut(i) - 1, exit)]

\* The share of the next exit; one that ends before it starts is skipped.  The repair
\* that follows the loop needs no action: the last exit ends at the file size, so a
\* start that is still below it is moved there.
SplitExit ==
    /\ pc = "split"
    /\ \E e \in todo :
         LET end == ShareEnd(e)
         IN  /\ e = Lowest(todo)
             /\ IF LastByte(end) >= start
                THEN /\ segs' = segs \o EvenSubsplit(start, LastByte(end), spe, e)
                     /\ start' = end
                ELSE UNCHANGED <<segs, start>>
             /\ cursor' = end
             /\ todo' = todo \ {e}
             /\ pc' = IF todo = {e} THEN "merge" ELSE "split"
    /\ UNCHANGED <<inputs, kept, spe>>

\* The first segment below the minimum joins the next one and takes its exit;
\* the last segment joins the previous one and takes that one's exit.
Tiny(i) == Length(segs[i]) < minimum

MergeTinyKeepsBoth ==   \* mutant: the merged segment is not removed
    /\ pc = "merge"
    /\ Len(segs) > 1
    /\ \E i \in DOMAIN segs :
         /\ Tiny(i) /\ \A j \in 1..(i - 1) : ~Tiny(j)
         /\ segs' = IF i < Len(segs)
                    THEN [segs EXCEPT ![i + 1].first = segs[i].first]
                    ELSE [segs EXCEPT ![i - 1].last = segs[i].last]
    /\ UNCHANGED <<inputs, pc, kept, todo, spe, start, cursor>>

MergeTiny ==
    /\ pc = "merge"
    /\ Len(segs) > 1
    /\ \E i \in DOMAIN segs :
         /\ Tiny(i) /\ \A j \in 1..(i - 1) : ~Tiny(j)
         /\ segs' = IF i < Len(segs)
                    THEN RemoveAt([segs EXCEPT ![i + 1].first = segs[i].first], i)
                    ELSE RemoveAt([segs EXCEPT ![i - 1].last = segs[i].last], i)
    /\ UNCHANGED <<inputs, pc, kept, todo, spe, start, cursor>>

MergeDone ==
    /\ pc = "merge"
    /\ Len(segs) <= 1 \/ \A i \in DOMAIN segs : ~Tiny(i)
    /\ pc' = "validate"
    /\ UNCHANGED <<inputs, kept, todo, spe, start, cursor, segs>>

\* validate: every segment begins where the one before ended, up to the size.
ValidStartsOnly ==   \* mutant: the end of the last segment is not compared
    \A i \in DOMAIN segs :
        segs[i].first = IF i = 1 THEN 0 ELSE segs[i - 1].last + 1

Valid ==
    /\ \A i \in DOMAIN segs :
         segs[i].first = IF i = 1 THEN 0 ELSE segs[i - 1].last + 1
    /\ size = IF segs = <<>> THEN 0 ELSE Last(segs).last + 1

Validate ==
    /\ pc = "validate"
    /\ pc' = IF Valid THEN "ok" ELSE "invalid"
    /\ UNCHANGED <<inputs, kept, todo, spe, start, cursor, segs>>

Finished == pc \in {"ok", "invalid"} /\ UNCHANGED vars

Next ==
    \/ DropWeakest \/ ChooseSplit \/ SplitExit
    \/ MergeTiny \/ MergeDone \/ Validate \/ Finished

Spec == Init /\ [][Next]_vars
FairSpec == Spec /\ WF_vars(Next)

(***************************************************************************)
(* Properties.                                                             *)
(***************************************************************************)

\* Every byte of the file belongs to exactly one segment of a plan that is
\* handed out, although the split can leave gaps and overlaps on the way.
EveryByteOnce ==
    pc = "ok" => \A b \in 0..(size - 1) :
        Cardinality({i \in DOMAIN segs : segs[i].first <= b /\ b <= segs[i].last}) = 1

\* Dropping goes by weight and stops in time: no dropped exit is stronger than
\* a kept one, and with one dropped exit more the file would not have filled the
\* minimum segments (loop at plan.rs:53-65 over all its iterations).
KeepsTheStrongest ==
    pc # "drop" =>
        /\ \A k \in kept, d \in given \ kept : weight[d] <= weight[k]
        /\ kept # given => size < (Cardinality(kept) + 1) * minimum
        /\ ~TooMany

\* What the weights give an exit: its floor, the rest to the last one.
ShareOf(e) ==
    LET Floor(x) == (size * weight[x]) \div SumFunctionOnSet(weight, kept)
        others == kept \ {e}
    IN  IF \A d \in kept : d <= e
        THEN size - SumFunctionOnSet([d \in others |-> Floor(d)], others)
        ELSE Floor(e)

\* A plan is built whenever every exit gets nothing or a byte for each of its
\* parts; an exit that gets nothing must not be the first, unless the minimum
\* is above one byte and merging repairs the overlap it leaves at byte 0.
LargeSharesAlwaysPlan ==
    pc = "invalid" /\ (minimum > 1 \/ ShareOf(Lowest(kept)) > 0)
        => \E e \in kept : ShareOf(e) \in 1..(spe - 1)

\* The planner comes to an end; every merge leaves a segment less.
PlannerEnds == <>(pc \in {"ok", "invalid"})
=============================================================================
