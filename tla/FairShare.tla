------------------------------ MODULE FairShare ------------------------------
(***************************************************************************)
(* allocate and weighted_max_min (sn-fair, fair.rs): a capacity is shared  *)
(* by weight among the contributors and what they leave among the leeches. *)
(* One action per iteration of a loop; the inputs are chosen in the        *)
(* initial state and have passed allocate's checks of the ids.             *)
(***************************************************************************)
EXTENDS Naturals, FiniteSetsExt, Functions

CONSTANTS
    Ids,                                \* participants, with and without a demand
    MaxWeight, MaxDemand, MaxCapacity   \* bounds of the inputs

ASSUME FairAssumption ==
    /\ Ids \subseteq Nat /\ IsFiniteSet(Ids)
    /\ {MaxWeight, MaxDemand, MaxCapacity} \subseteq Nat \ {0}

VARIABLES
    total,       \* the capacity given
    weight,      \* weight of a contributor, 0 of a leech
    demand,      \* 0 also if there is none
    class,       \* whose shares are computed: contributors, leeches, or done
    pc,          \* the round or the spreading of its remainder
    active,      \* the entries not decided
    capacity,    \* what is left for them
    rate,        \* the result
    remainder,   \* units the floors have left over
    turn         \* entries to come in the pass over the active ones

inputs == <<total, weight, demand>>
vars == <<total, weight, demand, class, pc, active, capacity, rate, remainder, turn>>

Contributors == {i \in Ids : weight[i] > 0}
Leeches == Ids \ Contributors
SumOf(f, S) == SumFunctionOnSet(f, S)
Lowest(S) == CHOOSE x \in S : \A y \in S : x <= y

\* A leech has an implicit weight of one.
Weight(i) == IF weight[i] = 0 THEN 1 ELSE weight[i]

TypeOK ==
    /\ total \in 1..MaxCapacity
    /\ weight \in [Ids -> 0..MaxWeight] /\ demand \in [Ids -> 0..MaxDemand]
    /\ class \in {"contributors", "leeches", "done"} /\ pc \in {"round", "spread"}
    /\ active \in {S \in SUBSET Ids : \A i \in S : demand[i] > 0}
    /\ capacity \in 0..total
    /\ \A i \in Ids : rate[i] \in 0..demand[i]
    /\ remainder \in Nat /\ turn \subseteq active
    /\ pc = "spread" => remainder < Cardinality(active)

Init ==
    /\ total \in 1..MaxCapacity
    /\ weight \in [Ids -> 0..MaxWeight]
    /\ demand \in [Ids -> 0..MaxDemand]
    /\ class = "contributors" /\ pc = "round"
    /\ active = {i \in Contributors : demand[i] > 0}
    /\ capacity = total
    /\ rate = [i \in Ids |-> 0]
    /\ remainder = 0 /\ turn = {}

\* The floor of the proportional share.
ShareOfClass(i) ==   \* mutant: the weights of entries that have left count, too
    LET peers == IF class = "leeches" THEN Leeches ELSE Contributors
    IN  (capacity * Weight(i)) \div SumOf([j \in peers |-> Weight(j)], peers)

Share(i) == (capacity * Weight(i)) \div SumOf([j \in active |-> Weight(j)], active)

\* The entries whose demand fits their share get it and leave.
FitsEqualShare(i) == demand[i] <= capacity \div Cardinality(active)   \* mutant: no weights
FitsBelowShare(i) == demand[i] < Share(i)   \* mutant: off by one
Fits(i) == demand[i] <= Share(i)
Satisfied == {i \in active : Fits(i)}

SatisfyAll ==   \* mutant: the capacity is not reduced
    /\ pc = "round" /\ capacity > 0 /\ Satisfied # {}
    /\ rate' = [i \in Ids |-> IF i \in Satisfied THEN demand[i] ELSE rate[i]]
    /\ active' = active \ Satisfied
    /\ UNCHANGED <<inputs, class, pc, capacity, remainder, turn>>

Satisfy ==
    /\ pc = "round" /\ capacity > 0 /\ Satisfied # {}
    /\ rate' = [i \in Ids |-> IF i \in Satisfied THEN demand[i] ELSE rate[i]]
    /\ capacity' = capacity - SumOf(demand, Satisfied)
    /\ active' = active \ Satisfied
    /\ UNCHANGED <<inputs, class, pc, remainder, turn>>

\* No demand fits: everyone gets the floor, and the rest is to be spread.
Floors ==
    /\ pc = "round" /\ capacity > 0 /\ active # {} /\ Satisfied = {}
    /\ rate' = [i \in Ids |-> IF i \in active THEN Share(i) ELSE rate[i]]
    /\ remainder' = capacity - SumOf([i \in active |-> Share(i)], active)
    /\ turn' = active
    /\ pc' = "spread"
    /\ UNCHANGED <<inputs, class, active, capacity>>

\* One unit for the next entry that is below its demand.  The code would pass over
\* the entries again, but never has to: see OnePassSuffices.
HandOutTo(i) ==
    IF rate[i] < demand[i]
    THEN rate' = [rate EXCEPT ![i] = @ + 1] /\ remainder' = remainder - 1
    ELSE UNCHANGED <<rate, remainder>>

HandOut ==
    /\ pc = "spread" /\ remainder > 0 /\ turn # {}
    /\ HandOutTo(Lowest(turn))
    /\ turn' = turn \ {Lowest(turn)}
    /\ UNCHANGED <<inputs, class, pc, active, capacity>>

\* weighted_max_min returns; whoever is still active in a round gets nothing.  The
\* leeches are given what the contributors' rates leave of the capacity.
ClassDone ==
    \/ pc = "round" /\ (capacity = 0 \/ active = {})
    \/ pc = "spread" /\ (remainder = 0 \/ turn = {})

LeftoverAll == total   \* mutant: the leeches share the full capacity
Leftover == total - SumOf(rate, Contributors)

NextClass ==
    /\ class # "done" /\ ClassDone
    /\ IF class = "contributors"
       THEN /\ class' = "leeches"
            /\ active' = {i \in Leeches : demand[i] > 0}
            /\ capacity' = Leftover
       ELSE /\ class' = "done"
            /\ active' = {} /\ capacity' = 0
    /\ pc' = "round"
    /\ remainder' = 0 /\ turn' = {}
    /\ UNCHANGED <<inputs, rate>>

Finished == class = "done" /\ UNCHANGED vars

Next ==
    \/ Satisfy \/ Floors \/ HandOut \/ NextClass
    \/ Finished

Spec == Init /\ [][Next]_vars

(***************************************************************************)
(* Properties.                                                             *)
(***************************************************************************)

\* "The sum of allocations never exceeds capacity" (weighted_max_min), over both
\* classes and at every step on the way.
NeverOversubscribed == SumOf(rate, Ids) <= total

\* Nothing is left unused while a demand is not met, and a leech gets nothing while
\* a contributor's is not met ("first throttled, never excluded").
WorkConserving ==
    class = "done" =>
        /\ SumOf(rate, Ids) < total => rate = demand
        /\ \A c \in Contributors, l \in Leeches : rate[l] > 0 => rate[c] = demand[c]

\* Weighted max-min: who is below its demand has, by weight, no less than anyone of
\* its class, up to the one unit a floor takes away and the one the remainder adds.
MaxMinFair ==
    class = "done" =>
        \A i, j \in Ids :
            rate[i] < demand[i] /\ (i \in Contributors <=> j \in Contributors)
                /\ rate[j] > 0 =>
                    (rate[j] - 1) * Weight(i) < (rate[i] + 1) * Weight(j)

\* "every one of them still has room, so it is distributed completely": what is left
\* to hand out fits the entries still to come, in one pass.
OnePassSuffices ==
    pc = "spread" => remainder <= Cardinality({i \in turn : rate[i] < demand[i]})
=============================================================================
