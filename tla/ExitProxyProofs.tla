---------------------------- MODULE ExitProxyProofs ----------------------------
(***************************************************************************)
(* Proofs about the exit, for any number of neighbours and of connections  *)
(* at a time, and every quota.  OvershootBounded is inductive with TypeOK: *)
(* an admission finds less than the quota used, and a relay that ends      *)
(* gives up its place among the open connections for what it carried.      *)
(* OnlyCheckedOrigins is not: OriginInv says how far a task has to be to   *)
(* have a source, checked addresses and an origin.  LedgerIsTheWindow is   *)
(* not, either: WindowInv says it of the window that the next use of the   *)
(* neighbour would roll, which may be a new one.                           *)
(***************************************************************************)
EXTENDS ExitProxy, FiniteSetTheorems, TLAPS

Admitted == {"resolve", "ack", "connect", "forward", "relay"}

OriginInv ==
    \A c \in Connections :
        /\ phase[c] \in Admitted => source[c] \in Allowed
        /\ phase[c] \in {"ack", "connect", "forward", "relay"} => checked[c] = {"public"}
        /\ phase[c] \in {"forward", "relay"} => origin[c] = "public"
        /\ phase[c] \notin {"forward", "relay"} => origin[c] = "none"

\* The window that RollWindow would give a neighbour, a new one as well as an old one,
\* counts the relays that have ended in it, and what has ended never becomes less.
WindowInv ==
    /\ Limited => \A n \in Neighbours : RollWindow(n).used = EndedSince(n, RollWindow(n).started)
    /\ \A n \in Neighbours : \A t, u \in 0..now : t <= u => ended[n][t] <= ended[n][u]

IInv == TypeOK /\ OriginInv /\ OvershootBounded /\ WindowInv

USE ExitAssumption

-----------------------------------------------------------------------------
(* Cardinalities and products.                                             *)

LEMMA OpenIsFinite ==
    ASSUME NEW n
    PROVE  /\ IsFiniteSet(Open(n)) /\ Open(n) \subseteq Connections
           /\ Cardinality(Open(n)) \in Nat /\ Cardinality(Connections) \in Nat
           /\ Cardinality(Open(n)) <= Cardinality(Connections)
<1>1. Open(n) \subseteq Connections
  BY DEF Open
<1> QED BY <1>1, FS_Subset, FS_CardinalityType

LEMMA ProductMonotone ==
    ASSUME NEW i \in Nat, NEW j \in Nat, NEW m \in Nat, i <= j
    PROVE  i * m \in Nat /\ j * m \in Nat /\ i * m <= j * m
<1>1. PICK d \in Nat : j = i + d
  BY j - i \in Nat, j = i + (j - i)
<1>2. j * m = i * m + d * m /\ d * m \in Nat /\ i * m \in Nat
  BY <1>1
<1> QED BY <1>2

\* The bound for one neighbour.
Bound(n) ==
    ledger[n].used + Cardinality(Open(n)) * MaxCarry
        <= MaxBytes - 1 + Cardinality(Connections) * MaxCarry

\* Fewer open connections and the same ledger keep the bound.
LEMMA OvershootKept ==
    ASSUME TypeOK, OvershootBounded, ledger' = ledger,
           \A n \in Neighbours : Open(n)' \subseteq Open(n)
    PROVE  OvershootBounded'
<1> SUFFICES ASSUME Limited, NEW n \in DOMAIN ledger
             PROVE  ledger[n].used + Cardinality(Open(n)') * MaxCarry
                      <= MaxBytes - 1 + Cardinality(Connections) * MaxCarry
  BY DEF OvershootBounded
<1>1. n \in Neighbours /\ ledger[n].used \in Nat
  BY DEF TypeOK
<1>2. Cardinality(Open(n)') \in Nat /\ Cardinality(Open(n)') <= Cardinality(Open(n))
  BY <1>1, OpenIsFinite, FS_Subset, FS_CardinalityType
<1>3. Cardinality(Open(n)') * MaxCarry <= Cardinality(Open(n)) * MaxCarry
      /\ Cardinality(Open(n)') * MaxCarry \in Nat /\ Cardinality(Open(n)) * MaxCarry \in Nat
  BY <1>2, OpenIsFinite, ProductMonotone
<1>4. Cardinality(Connections) * MaxCarry \in Nat
  BY OpenIsFinite, ProductMonotone
<1>5. ledger[n].used + Cardinality(Open(n)) * MaxCarry
        <= MaxBytes - 1 + Cardinality(Connections) * MaxCarry
  BY DEF OvershootBounded
<1> QED BY <1>1, <1>3, <1>4, <1>5

\* A ledger entry below the quota satisfies the bound, whoever is open.
LEMMA BelowQuota ==
    ASSUME NEW k \in Nat, NEW u \in Nat, k <= Cardinality(Connections), u <= MaxBytes - 1
    PROVE  u + k * MaxCarry <= MaxBytes - 1 + Cardinality(Connections) * MaxCarry
<1>1. Cardinality(Connections) \in Nat
  BY FS_CardinalityType
<1>2. /\ k * MaxCarry <= Cardinality(Connections) * MaxCarry
      /\ k * MaxCarry \in Nat /\ Cardinality(Connections) * MaxCarry \in Nat
  BY <1>1, ProductMonotone
<1> QED BY <1>2

LEMMA RollWindowType ==
    ASSUME TypeOK, NEW n
    PROVE  /\ RollWindow(n) = [started |-> now, used |-> 0]
                \/ (n \in DOMAIN ledger /\ RollWindow(n) = ledger[n])
           /\ RollWindow(n) \in [started : 0..now, used : Nat]
           /\ RollWindow(n).started \in 0..now /\ RollWindow(n).used \in Nat
  BY DEF TypeOK, RollWindow

-----------------------------------------------------------------------------
(* The types.                                                              *)

LEMMA CloseType ==
    ASSUME TypeOK, NEW c \in Connections, NEW status \in {0, 200, 400, 403, 503},
           Close(c, status)
    PROVE  /\ phase' \in [Connections -> Phases]
           /\ request' \in [Connections -> Targets]
           /\ reply' \in [Connections -> {0, 200, 400, 403, 503}]
           /\ checked' \in [Connections -> SUBSET Addresses]
           /\ origin' \in [Connections -> Addresses \cup {"none"}]
           /\ carried' \in [Connections -> 0..MaxCarry]
  BY DEF TypeOK, Close, Phases, Targets

LEMMA StoreType ==
    ASSUME TypeOK, NEW n \in Allowed, NEW w \in [started : 0..now, used : Nat],
           ledger' = Store(n, w), now' = now
    PROVE  /\ DOMAIN ledger' \subseteq Allowed
           /\ \A m \in DOMAIN ledger' :
                ledger'[m] \in [started : 0..now', used : Nat]
  BY DEF TypeOK, Store

\* Record adds to the window, which may be a new one.
LEMMA RecordedWindow ==
    ASSUME TypeOK, NEW n, NEW bytes \in Nat
    PROVE  LET w == [RollWindow(n) EXCEPT !.used = @ + bytes]
           IN  w \in [started : 0..now, used : Nat] /\ w.used = RollWindow(n).used + bytes
  BY RollWindowType DEF TypeOK

LEMMA TypeStep ==
    ASSUME IInv, [Next]_vars
    PROVE  TypeOK'
<1> USE DEF IInv, clock, conn
<1>1. CASE AcceptFails \/ StopAccepting
  BY <1>1 DEF TypeOK, AcceptFails, StopAccepting
<1>t. CASE Tick
  <2>1. now \in 0..MaxTime /\ now + 1 \in 0..MaxTime
    BY <1>t DEF Tick, TypeOK
  <2>2. ended' \in [Neighbours -> [0..MaxTime -> Nat]]
    BY <1>t, <2>1 DEF Tick, TypeOK
  <2> QED  BY <1>t, <2>1, <2>2 DEF TypeOK, Tick
<1>2. CASE UNCHANGED vars
  BY <1>2 DEF TypeOK, vars
<1>3. ASSUME NEW c \in Connections, Accept(c) PROVE TypeOK'
  BY <1>3 DEF TypeOK, Accept, Phases
<1>4. ASSUME NEW c \in Connections, HeadFails(c) \/ Forbid(c) \/ ForwardFails(c) PROVE TypeOK'
  <2>1. reply[c] \in {0, 200, 400, 403, 503}
    BY DEF TypeOK
  <2>2. UNCHANGED <<now, serving, source, ledger, ended>>
    BY <1>4 DEF HeadFails, Forbid, ForwardFails
  <2>3. PICK status \in {0, 200, 400, 403, 503} : Close(c, status)
    BY <1>4, <2>1 DEF HeadFails, Forbid, ForwardFails
  <2> QED BY <2>2, <2>3, CloseType DEF TypeOK
<1>5. ASSUME NEW c \in Connections, Refuse(c) PROVE TypeOK'
  <2>1. source[c] \in Allowed
    BY <1>5 DEF Refuse, IsAllowed
  <2>2. DOMAIN ledger' \subseteq Allowed
        /\ \A m \in DOMAIN ledger' : ledger'[m] \in [started : 0..now', used : Nat]
    BY <1>5, <2>1, StoreType, RollWindowType DEF Refuse
  <2> QED BY <1>5, <2>2, CloseType DEF TypeOK, Refuse
<1>6. ASSUME NEW c \in Connections, Admit(c) PROVE TypeOK'
  <2>1. source[c] \in Allowed
    BY <1>6 DEF Admit, IsAllowed
  <2>2. DOMAIN ledger' \subseteq Allowed
        /\ \A m \in DOMAIN ledger' : ledger'[m] \in [started : 0..now', used : Nat]
    <3>1. CASE Limited
      BY <1>6, <2>1, <3>1, StoreType, RollWindowType DEF Admit
    <3>2. CASE ~Limited
      BY <1>6, <3>2 DEF Admit, TypeOK
    <3> QED BY <3>1, <3>2
  <2>3. CASE Close(c, 400)
    BY <1>6, <2>2, <2>3, CloseType DEF TypeOK, Admit
  <2>4. CASE /\ phase' = [phase EXCEPT ![c] = "resolve"]
             /\ \E r \in Targets : request' = [request EXCEPT ![c] = r]
             /\ UNCHANGED <<reply, checked, origin, carried>>
    <3>1. phase' \in [Connections -> Phases] /\ request' \in [Connections -> Targets]
      BY <2>4 DEF TypeOK, Phases
    <3> QED BY <1>6, <2>2, <2>4, <3>1 DEF TypeOK, Admit
  <2> QED BY <1>6, <2>3, <2>4 DEF Admit
<1>7. ASSUME NEW c \in Connections, Resolve(c) PROVE TypeOK'
  <2>1. CASE Close(c, 0)
    BY <1>7, <2>1, CloseType DEF TypeOK, Resolve
  <2>2. CASE \E answer \in SUBSET Addresses :
               /\ checked' = [checked EXCEPT ![c] = answer]
               /\ phase' = [phase EXCEPT ![c] = IF request[c] = "tunnel" THEN "ack" ELSE "connect"]
               /\ UNCHANGED <<reply, request, origin, carried>>
    <3>1. phase' \in [Connections -> Phases] /\ checked' \in [Connections -> SUBSET Addresses]
      BY <2>2 DEF TypeOK, Phases
    <3> QED BY <1>7, <2>2, <3>1 DEF TypeOK, Resolve
  <2> QED BY <1>7, <2>1, <2>2 DEF Resolve
<1>8. ASSUME NEW c \in Connections, Acknowledge(c) PROVE TypeOK'
  <2>1. CASE Close(c, 0)
    BY <1>8, <2>1, CloseType DEF TypeOK, Acknowledge
  <2>2. CASE /\ reply' = [reply EXCEPT ![c] = 200]
             /\ phase' = [phase EXCEPT ![c] = "connect"]
             /\ UNCHANGED <<request, checked, origin, carried>>
    <3>1. phase' \in [Connections -> Phases]
      BY <2>2 DEF TypeOK, Phases
    <3> QED BY <1>8, <2>2, <3>1 DEF TypeOK, Acknowledge
  <2> QED BY <1>8, <2>1, <2>2 DEF Acknowledge
<1>9. ASSUME NEW c \in Connections, Connect(c) PROVE TypeOK'
  <2>1. CASE Close(c, reply[c])
    <3>1. reply[c] \in {0, 200, 400, 403, 503}
      BY DEF TypeOK
    <3> QED BY <1>9, <2>1, <3>1, CloseType DEF TypeOK, Connect
  <2>2. CASE \E address \in checked[c] :
               /\ origin' = [origin EXCEPT ![c] = address]
               /\ phase' = [phase EXCEPT ![c] = IF request[c] = "forward" THEN "forward" ELSE "relay"]
               /\ UNCHANGED <<reply, request, checked, carried>>
    <3>1. checked[c] \subseteq Addresses
      BY DEF TypeOK
    <3>2. phase' \in [Connections -> Phases] /\ origin' \in [Connections -> Addresses \cup {"none"}]
      BY <2>2, <3>1 DEF TypeOK, Phases
    <3> QED BY <1>9, <2>2, <3>2 DEF TypeOK, Connect
  <2> QED BY <1>9, <2>1, <2>2 DEF Connect
<1>10. ASSUME NEW c \in Connections, ForwardHead(c) \/ Relay(c) PROVE TypeOK'
  <2>1. phase' \in [Connections -> Phases]
    BY <1>10 DEF TypeOK, ForwardHead, Relay, Phases
  <2>2. carried' \in [Connections -> 0..MaxCarry]
    <3>1. carried[c] \in 0..MaxCarry /\ 1 \in 0..MaxCarry
      BY DEF TypeOK
    <3>2. \E v \in 0..MaxCarry : carried' = [carried EXCEPT ![c] = v]
      BY <1>10, <3>1 DEF ForwardHead, Relay
    <3> QED BY <3>2 DEF TypeOK
  <2>3. UNCHANGED <<now, serving, source, request, reply, checked, origin, ledger, ended>>
    BY <1>10 DEF ForwardHead, Relay
  <2> QED BY <2>1, <2>2, <2>3 DEF TypeOK
<1>11. ASSUME NEW c \in Connections, RelayEnds(c) PROVE TypeOK'
  <2>1. source[c] \in Allowed /\ source[c] \in Neighbours /\ carried[c] \in Nat
        /\ reply[c] \in {0, 200, 400, 403, 503}
    BY <1>11 DEF RelayEnds, OriginInv, Admitted, TypeOK
  <2>2. DOMAIN ledger' \subseteq Allowed
        /\ \A m \in DOMAIN ledger' : ledger'[m] \in [started : 0..now', used : Nat]
    <3>1. CASE Limited
      <4>1. PICK w : w = [RollWindow(source[c]) EXCEPT !.used = @ + carried[c]]
        OBVIOUS
      <4>2. w \in [started : 0..now, used : Nat]
        BY <2>1, <4>1, RecordedWindow
      <4>3. ledger' = Store(source[c], w) /\ now' = now
        BY <1>11, <3>1, <4>1 DEF RelayEnds, Record
      <4> QED  BY <2>1, <4>2, <4>3, StoreType
    <3>2. CASE ~Limited
      BY <1>11, <3>2 DEF RelayEnds, Record, TypeOK
    <3> QED BY <3>1, <3>2
  <2>3. ended' \in [Neighbours -> [0..MaxTime -> Nat]]
    <3>1. ended[source[c]] \in [0..MaxTime -> Nat] /\ now \in 0..MaxTime
      BY <2>1 DEF TypeOK
    <3>2. ended[source[c]][now] + carried[c] \in Nat
      BY <2>1, <3>1
    <3>3. [ended[source[c]] EXCEPT ![now] = @ + carried[c]] \in [0..MaxTime -> Nat]
      BY <3>1, <3>2
    <3> QED BY <1>11, <3>3 DEF RelayEnds, TypeOK
  <2>4. Close(c, reply[c]) /\ UNCHANGED <<now, serving, source>>
    BY <1>11 DEF RelayEnds
  <2>5. /\ phase' \in [Connections -> Phases] /\ request' \in [Connections -> Targets]
        /\ reply' \in [Connections -> {0, 200, 400, 403, 503}]
        /\ checked' \in [Connections -> SUBSET Addresses]
        /\ origin' \in [Connections -> Addresses \cup {"none"}]
        /\ carried' \in [Connections -> 0..MaxCarry]
    BY <2>1, <2>4, CloseType
  <2> QED BY <2>2, <2>3, <2>4, <2>5 DEF TypeOK
<1> QED
  BY <1>1, <1>t, <1>2, <1>3, <1>4, <1>5, <1>6, <1>7, <1>8, <1>9, <1>10, <1>11 DEF Next, Finished

-----------------------------------------------------------------------------
(* The origins.                                                            *)

\* A closed task has no origin, the other tasks are as they were.
LEMMA OriginClose ==
    ASSUME TypeOK, OriginInv, NEW c \in Connections, NEW status,
           Close(c, status), source' = source
    PROVE  OriginInv'
<1> SUFFICES ASSUME NEW d \in Connections PROVE
                    /\ phase'[d] \in Admitted => source'[d] \in Allowed
                    /\ phase'[d] \in {"ack", "connect", "forward", "relay"} => checked'[d] = {"public"}
                    /\ phase'[d] \in {"forward", "relay"} => origin'[d] = "public"
                    /\ phase'[d] \notin {"forward", "relay"} => origin'[d] = "none"
  BY DEF OriginInv
<1>1. CASE d = c
  BY <1>1 DEF OriginInv, TypeOK, Close, Admitted
<1>2. CASE d # c
  BY <1>2 DEF OriginInv, TypeOK, Close
<1> QED BY <1>1, <1>2

\* An answer that is public throughout holds nothing else.
LEMMA PublicAnswer ==
    ASSUME NEW answer \in SUBSET Addresses, AllPublic(answer)
    PROVE  answer = {"public"}
  BY DEF AllPublic, IsPublicOrigin, Addresses

LEMMA OriginStep ==
    ASSUME IInv, [Next]_vars
    PROVE  OriginInv'
<1> USE DEF IInv, clock, conn
<1>1. CASE AcceptFails \/ StopAccepting \/ Tick \/ UNCHANGED vars
  BY <1>1 DEF OriginInv, AcceptFails, StopAccepting, Tick, vars
<1>2. ASSUME NEW c \in Connections, Accept(c) PROVE OriginInv'
  BY <1>2 DEF OriginInv, TypeOK, Accept, Admitted
<1>3. ASSUME NEW c \in Connections, NEW status, Close(c, status), source' = source
      PROVE  OriginInv'
  BY <1>3, OriginClose
<1>4. ASSUME NEW c \in Connections,
             HeadFails(c) \/ Forbid(c) \/ Refuse(c) \/ ForwardFails(c) \/ RelayEnds(c)
      PROVE  OriginInv'
  <2>1. PICK status : Close(c, status)
    BY <1>4 DEF HeadFails, Forbid, Refuse, ForwardFails, RelayEnds
  <2>2. source' = source
    BY <1>4 DEF HeadFails, Forbid, Refuse, ForwardFails, RelayEnds
  <2> QED BY <1>3, <2>1, <2>2
<1>5. ASSUME NEW c \in Connections, Admit(c) PROVE OriginInv'
  <2>1. source[c] \in Allowed /\ source' = source /\ phase[c] = "head"
    BY <1>5 DEF Admit, IsAllowed
  <2>2. CASE Close(c, 400)
    BY <1>3, <2>1, <2>2
  <2>3. CASE /\ phase' = [phase EXCEPT ![c] = "resolve"]
             /\ UNCHANGED <<checked, origin>>
    BY <2>1, <2>3 DEF OriginInv, TypeOK, Admitted
  <2> QED BY <1>5, <2>2, <2>3 DEF Admit
<1>6. ASSUME NEW c \in Connections, Resolve(c) PROVE OriginInv'
  <2>1. source' = source /\ phase[c] = "resolve"
    BY <1>6 DEF Resolve
  <2>2. CASE Close(c, 0)
    BY <1>3, <2>1, <2>2
  <2>3. CASE \E answer \in SUBSET Addresses :
               /\ AllPublic(answer)
               /\ checked' = [checked EXCEPT ![c] = answer]
               /\ phase' \in {[phase EXCEPT ![c] = "ack"], [phase EXCEPT ![c] = "connect"]}
               /\ origin' = origin
    <3>1. checked' = [checked EXCEPT ![c] = {"public"}]
      BY <2>3, PublicAnswer
    <3> QED BY <2>1, <2>3, <3>1 DEF OriginInv, TypeOK, Admitted
  <2> QED BY <1>6, <2>2, <2>3 DEF Resolve
<1>7. ASSUME NEW c \in Connections, Acknowledge(c) PROVE OriginInv'
  <2>1. source' = source /\ phase[c] = "ack"
    BY <1>7 DEF Acknowledge
  <2>2. CASE Close(c, 0)
    BY <1>3, <2>1, <2>2
  <2>3. CASE phase' = [phase EXCEPT ![c] = "connect"] /\ UNCHANGED <<checked, origin>>
    BY <2>1, <2>3 DEF OriginInv, TypeOK, Admitted
  <2> QED BY <1>7, <2>2, <2>3 DEF Acknowledge
<1>8. ASSUME NEW c \in Connections, Connect(c) PROVE OriginInv'
  <2>1. source' = source /\ phase[c] = "connect" /\ checked[c] = {"public"}
    BY <1>8 DEF Connect, OriginInv
  <2>2. CASE Close(c, reply[c])
    BY <1>3, <2>1, <2>2
  <2>3. CASE /\ origin' = [origin EXCEPT ![c] = "public"]
             /\ phase' \in {[phase EXCEPT ![c] = "forward"], [phase EXCEPT ![c] = "relay"]}
             /\ checked' = checked
    BY <2>1, <2>3 DEF OriginInv, TypeOK, Admitted
  <2> QED BY <1>8, <2>1, <2>2, <2>3 DEF Connect
<1>9. ASSUME NEW c \in Connections, ForwardHead(c) PROVE OriginInv'
  BY <1>9 DEF OriginInv, TypeOK, ForwardHead, Admitted
<1>10. ASSUME NEW c \in Connections, Relay(c) PROVE OriginInv'
  BY <1>10 DEF OriginInv, Relay
<1> QED
  BY <1>1, <1>2, <1>4, <1>5, <1>6, <1>7, <1>8, <1>9, <1>10 DEF Next, Finished

-----------------------------------------------------------------------------
(* The overshoot.                                                          *)

\* One neighbour's entry is stored within the bound, no other has more open tasks.
LEMMA OvershootStored ==
    ASSUME TypeOK, OvershootBounded, NEW n, NEW w, ledger' = Store(n, w),
           \A m : m # n => Open(m)' \subseteq Open(m),
           w.used + Cardinality(Open(n)') * MaxCarry
             <= MaxBytes - 1 + Cardinality(Connections) * MaxCarry
    PROVE  OvershootBounded'
<1> SUFFICES ASSUME Limited, NEW m \in DOMAIN ledger'
             PROVE  ledger'[m].used + Cardinality(Open(m)') * MaxCarry
                      <= MaxBytes - 1 + Cardinality(Connections) * MaxCarry
  BY DEF OvershootBounded
<1>1. CASE m = n
  BY <1>1 DEF Store
<1>2. CASE m # n
  <2>1. m \in DOMAIN ledger /\ ledger'[m] = ledger[m] /\ ledger[m].used \in Nat
    BY <1>2 DEF Store, TypeOK
  <2>2. Cardinality(Open(m)') \in Nat /\ Cardinality(Open(m)') <= Cardinality(Open(m))
    BY <1>2, OpenIsFinite, FS_Subset, FS_CardinalityType
  <2>3. Cardinality(Open(m)') * MaxCarry <= Cardinality(Open(m)) * MaxCarry
        /\ Cardinality(Open(m)') * MaxCarry \in Nat /\ Cardinality(Open(m)) * MaxCarry \in Nat
    BY <2>2, OpenIsFinite, ProductMonotone
  <2>4. Cardinality(Connections) * MaxCarry \in Nat
    BY OpenIsFinite, ProductMonotone
  <2>5. ledger[m].used + Cardinality(Open(m)) * MaxCarry
          <= MaxBytes - 1 + Cardinality(Connections) * MaxCarry
    BY <2>1 DEF OvershootBounded
  <2> QED BY <2>1, <2>3, <2>4, <2>5
<1> QED BY <1>1, <1>2

\* No task is admitted: the open ones are among those that were.
LEMMA OpenShrinks ==
    ASSUME source' = source, \A d \in Connections : phase'[d] \in Admitted => phase[d] \in Admitted
    PROVE  \A m : Open(m)' \subseteq Open(m)
  BY DEF Open, Admitted

\* A task that ends is not open any more.
LEMMA OpenAfterClose ==
    ASSUME TypeOK, NEW c \in Connections, NEW status, Close(c, status), source' = source
    PROVE  \A m : Open(m)' = Open(m) \ {c}
<1>1. phase'[c] = "closed" /\ \A d \in Connections : d # c => phase'[d] = phase[d]
  BY DEF Close, TypeOK
<1> QED BY <1>1 DEF Open

\* The relay of an open task ends: its bytes are what its place was counted for.
LEMMA OvershootRecorded ==
    ASSUME TypeOK, OvershootBounded, Limited, NEW c \in Connections, NEW n, n = source[c],
           c \in Open(n), Open(n)' = Open(n) \ {c}
    PROVE  RollWindow(n).used + carried[c] + Cardinality(Open(n)') * MaxCarry
             <= MaxBytes - 1 + Cardinality(Connections) * MaxCarry
<1> DEFINE k == Cardinality(Open(n)')
<1>1. k \in Nat /\ Cardinality(Open(n)) = k + 1
  <2>1. /\ Cardinality(Open(n) \ {c}) = Cardinality(Open(n)) - 1
        /\ Cardinality(Open(n)) \in Nat /\ Cardinality(Open(n) \ {c}) \in Nat
    BY OpenIsFinite, FS_RemoveElement, FS_CardinalityType
  <2> QED BY <2>1
<1>2. carried[c] \in 0..MaxCarry
  BY DEF TypeOK
<1>3. /\ k * MaxCarry \in Nat /\ (k + 1) * MaxCarry = k * MaxCarry + MaxCarry
      /\ (k + 1) * MaxCarry <= Cardinality(Connections) * MaxCarry
      /\ Cardinality(Connections) * MaxCarry \in Nat
  <2>1. k + 1 \in Nat /\ k + 1 <= Cardinality(Connections) /\ Cardinality(Connections) \in Nat
    BY <1>1, OpenIsFinite
  <2>2. (k + 1) * MaxCarry <= Cardinality(Connections) * MaxCarry
        /\ Cardinality(Connections) * MaxCarry \in Nat
    BY <2>1, ProductMonotone
  <2>3. k * MaxCarry \in Nat /\ (k + 1) * MaxCarry = k * MaxCarry + MaxCarry
    BY <1>1
  <2> QED BY <2>2, <2>3
<1>4. CASE RollWindow(n).used = 0
  BY <1>2, <1>3, <1>4
<1>5. CASE n \in DOMAIN ledger /\ RollWindow(n) = ledger[n]
  <2>1. ledger[n].used + (k + 1) * MaxCarry
          <= MaxBytes - 1 + Cardinality(Connections) * MaxCarry
    BY <1>1, <1>5 DEF OvershootBounded
  <2>2. ledger[n].used \in Nat
    BY <1>5 DEF TypeOK
  <2> QED BY <1>2, <1>3, <1>5, <2>1, <2>2
<1> QED BY <1>4, <1>5, RollWindowType

LEMMA OvershootStep ==
    ASSUME IInv, [Next]_vars
    PROVE  OvershootBounded'
<1> USE DEF IInv, clock, conn
<1>1. CASE AcceptFails \/ StopAccepting \/ Tick \/ UNCHANGED vars
  <2>1. ledger' = ledger /\ source' = source /\ phase' = phase
    BY <1>1 DEF AcceptFails, StopAccepting, Tick, vars
  <2> QED BY <2>1, OpenShrinks, OvershootKept
<1>2. ASSUME NEW c \in Connections, Accept(c) PROVE OvershootBounded'
  <2>1. /\ ledger' = ledger /\ phase'[c] = "head"
        /\ \A d \in Connections : d # c => phase'[d] = phase[d] /\ source'[d] = source[d]
    BY <1>2 DEF Accept, TypeOK
  <2>2. \A m : Open(m)' \subseteq Open(m)
    BY <2>1 DEF Open
  <2> QED BY <2>1, <2>2, OvershootKept
<1>3. ASSUME NEW c \in Connections,
             HeadFails(c) \/ Forbid(c) \/ Resolve(c) \/ Acknowledge(c) \/ Connect(c)
               \/ ForwardHead(c) \/ ForwardFails(c) \/ Relay(c)
      PROVE  OvershootBounded'
  <2>1. ledger' = ledger /\ source' = source
    BY <1>3 DEF HeadFails, Forbid, Resolve, Acknowledge, Connect, ForwardHead, ForwardFails, Relay
  <2>2. \A d \in Connections : phase'[d] \in Admitted => phase[d] \in Admitted
    BY <1>3 DEF TypeOK, Close, HeadFails, Forbid, Resolve, Acknowledge, Connect, ForwardHead,
                ForwardFails, Relay, Admitted
  <2> QED BY <2>1, <2>2, OpenShrinks, OvershootKept
<1>4. ASSUME NEW c \in Connections, Refuse(c), Limited PROVE OvershootBounded'
  <2>n. PICK n : n = source[c]
    OBVIOUS
  <2>1. /\ Close(c, 503) /\ source' = source
        /\ ledger' = Store(n, RollWindow(n)) /\ RollWindow(n).used >= MaxBytes
    BY <1>4, <2>n DEF Refuse, Exhausted
  <2>2. \A m : Open(m)' = Open(m) \ {c}
    BY <2>1, OpenAfterClose
  <2>3. n \in DOMAIN ledger /\ RollWindow(n) = ledger[n]
    BY <2>1, RollWindowType
  <2>4. c \notin Open(n)
    BY <1>4, <2>n DEF Refuse, Open
  <2>5. Open(n)' = Open(n)
    BY <2>2, <2>4
  <2>6. ledger[n].used + Cardinality(Open(n)) * MaxCarry
          <= MaxBytes - 1 + Cardinality(Connections) * MaxCarry
    BY <1>4, <2>3 DEF OvershootBounded
  <2> QED BY <2>1, <2>2, <2>3, <2>5, <2>6, OvershootStored
<1>5. ASSUME NEW c \in Connections, Admit(c), Limited PROVE OvershootBounded'
  <2>n. PICK n : n = source[c]
    OBVIOUS
  <2>1. /\ source' = source /\ ledger' = Store(n, RollWindow(n)) /\ phase[c] = "head"
        /\ ~(RollWindow(n).used >= MaxBytes)
    BY <1>5, <2>n DEF Admit, Exhausted
  <2>2. RollWindow(n).used \in Nat /\ RollWindow(n).used <= MaxBytes - 1
    BY <2>1, RollWindowType
  <2>3. Cardinality(Open(n)') \in Nat /\ Cardinality(Open(n)') <= Cardinality(Connections)
    <3>1. Open(n)' \subseteq Connections
      BY DEF Open
    <3> QED BY <3>1, FS_Subset, FS_CardinalityType
  <2>4. \A m : m # n => Open(m)' \subseteq Open(m)
    <3>1. \A d \in Connections : d # c => phase'[d] = phase[d]
      BY <1>5 DEF Admit, Close, TypeOK
    <3> QED BY <2>n, <2>1, <3>1 DEF Open
  <2>5. RollWindow(n).used + Cardinality(Open(n)') * MaxCarry
          <= MaxBytes - 1 + Cardinality(Connections) * MaxCarry
    BY <2>2, <2>3, BelowQuota
  <2> QED BY <2>1, <2>4, <2>5, OvershootStored
<1>6. ASSUME NEW c \in Connections, RelayEnds(c), Limited PROVE OvershootBounded'
  <2>n. PICK n : n = source[c]
    OBVIOUS
  <2>w. PICK w : w = [RollWindow(n) EXCEPT !.used = @ + carried[c]]
    OBVIOUS
  <2>1. Close(c, reply[c]) /\ source' = source /\ ledger' = Store(n, w) /\ c \in Open(n)
    BY <1>6, <2>n, <2>w DEF RelayEnds, Record, Open
  <2>2. \A m : Open(m)' = Open(m) \ {c}
    BY <2>1, OpenAfterClose
  <2>3. w.used = RollWindow(n).used + carried[c]
    <3>1. carried[c] \in Nat
      BY DEF TypeOK
    <3> QED BY <2>w, <3>1, RecordedWindow
  <2>4. w.used + Cardinality(Open(n)') * MaxCarry
          <= MaxBytes - 1 + Cardinality(Connections) * MaxCarry
    BY <1>6, <2>n, <2>1, <2>2, <2>3, OvershootRecorded
  <2> QED BY <2>1, <2>2, <2>4, OvershootStored
<1>7. CASE ~Limited
  BY <1>7 DEF OvershootBounded
<1> QED
  BY <1>1, <1>2, <1>3, <1>4, <1>5, <1>6, <1>7 DEF Next, Finished

-----------------------------------------------------------------------------
(* The window.                                                             *)

\* Nothing ends and the clock stands still: the ledger is as it was, or one
\* neighbour's window has been rolled.
LEMMA WindowKept ==
    ASSUME TypeOK, WindowInv, now' = now, ended' = ended,
           \/ ledger' = ledger
           \/ \E n \in Allowed : ledger' = Store(n, RollWindow(n))
    PROVE  WindowInv'
<1>1. \A m \in Neighbours : RollWindow(m)' = RollWindow(m)
  <2>1. CASE ledger' = ledger
    BY <2>1 DEF RollWindow
  <2>2. ASSUME NEW n \in Allowed, ledger' = Store(n, RollWindow(n)), NEW m \in Neighbours
        PROVE  RollWindow(m)' = RollWindow(m)
    <3>1. CASE m = n
      <4>1. n \in DOMAIN ledger' /\ ledger'[n] = RollWindow(n)
        BY <2>2 DEF Store
      <4>2. RollWindow(n) = [started |-> now, used |-> 0] \/ now - RollWindow(n).started < Window
        BY DEF RollWindow, TypeOK
      <4> QED  BY <3>1, <4>1, <4>2 DEF RollWindow, TypeOK
    <3>2. CASE m # n
      <4>1. (m \in DOMAIN ledger' <=> m \in DOMAIN ledger)
            /\ (m \in DOMAIN ledger => ledger'[m] = ledger[m])
        BY <2>2, <3>2 DEF Store
      <4> QED  BY <4>1 DEF RollWindow
    <3> QED  BY <3>1, <3>2
  <2> QED  BY <2>1, <2>2
<1> QED  BY <1>1 DEF WindowInv, EndedSince

\* A tick: a window that is over by now counts for nothing, and nothing has ended yet.
LEMMA WindowTick ==
    ASSUME TypeOK, WindowInv, Tick
    PROVE  WindowInv'
<1>1. /\ now \in 0..MaxTime /\ now + 1 \in 0..MaxTime /\ now' = now + 1 /\ ledger' = ledger
  BY DEF Tick, TypeOK
<1>2. ASSUME NEW n \in Neighbours
      PROVE  /\ ended'[n][now + 1] = ended[n][now] /\ ended[n][now] \in Nat
             /\ \A t \in 0..now : ended'[n][t] = ended[n][t] /\ ended[n][t] \in Nat
  <2>1. ended[n] \in [0..MaxTime -> Nat] /\ now \in Nat /\ \A t \in 0..now : t \in 0..MaxTime
    BY <1>1 DEF TypeOK
  <2>2. ended'[n] = [ended[n] EXCEPT ![now + 1] = ended[n][now]]
    BY DEF Tick
  <2>3. now + 1 \in 0..MaxTime /\ \A t \in 0..now : t # now + 1
    BY <1>1
  <2> QED  BY <2>1, <2>2, <2>3
<1>3. ASSUME NEW n \in Neighbours, NEW t \in 0..(now + 1), NEW u \in 0..(now + 1), t <= u
      PROVE  ended'[n][t] <= ended'[n][u]
  <2>1. CASE u = now + 1 /\ t = now + 1
    BY <1>2, <2>1
  <2>2. CASE u = now + 1 /\ t # now + 1
    <3>1. t \in 0..now /\ now \in 0..now /\ t <= now
      BY <1>1, <2>2
    <3>2. ended[n][t] <= ended[n][now]
      BY <3>1 DEF WindowInv
    <3> QED  BY <1>2, <2>2, <3>1, <3>2
  <2>3. CASE u # now + 1
    <3>1. t \in 0..now /\ u \in 0..now
      BY <1>1, <1>3, <2>3
    <3>2. ended[n][t] <= ended[n][u]
      BY <1>3, <3>1 DEF WindowInv
    <3> QED  BY <1>2, <3>1, <3>2
  <2> QED  BY <2>1, <2>2, <2>3
<1>4. ASSUME Limited, NEW n \in Neighbours
      PROVE  RollWindow(n).used' = EndedSince(n, RollWindow(n).started)'
  <2>1. CASE RollWindow(n)' = [started |-> now + 1, used |-> 0]
    BY <1>1, <1>2, <2>1 DEF EndedSince
  <2>2. CASE /\ RollWindow(n)' = ledger[n] /\ RollWindow(n) = ledger[n]
             /\ ledger[n].started \in 0..now
    <3> DEFINE s == ledger[n].started
    <3>1. s \in 0..now /\ (s <= 0 \/ s - 1 \in 0..now)
      BY <1>1, <2>2
    <3>2. ledger[n].used = ended[n][now] - (IF s <= 0 THEN 0 ELSE ended[n][s - 1])
      BY <1>4, <2>2 DEF WindowInv, EndedSince
    <3>3. EndedSince(n, RollWindow(n).started)'
            = ended'[n][now + 1] - (IF s <= 0 THEN 0 ELSE ended'[n][s - 1])
      BY <1>1, <2>2 DEF EndedSince
    <3> HIDE DEF s
    <3>4. s <= 0 \/ ended'[n][s - 1] = ended[n][s - 1]
      BY <1>2, <3>1
    <3> QED  BY <1>2, <2>2, <3>2, <3>3, <3>4
  <2>3. \/ RollWindow(n)' = [started |-> now + 1, used |-> 0]
        \/ /\ RollWindow(n)' = ledger[n] /\ RollWindow(n) = ledger[n]
           /\ ledger[n].started \in 0..now
    <3>1. CASE n \notin DOMAIN ledger
      BY <1>1, <3>1 DEF RollWindow
    <3>2. CASE n \in DOMAIN ledger
      <4>1. ledger[n].started \in 0..now
        BY <3>2 DEF TypeOK
      <4> QED  BY <1>1, <3>2, <4>1 DEF RollWindow
    <3> QED  BY <3>1, <3>2
  <2> QED  BY <2>1, <2>2, <2>3
<1> QED  BY <1>1, <1>3, <1>4 DEF WindowInv

\* A relay ends: its bytes are in the ledger and among what has ended, both in the
\* window that is rolled now.
LEMMA WindowRecorded ==
    ASSUME TypeOK, OriginInv, WindowInv, NEW c \in Connections, RelayEnds(c)
    PROVE  WindowInv'
<1> DEFINE n == source[c]  b == carried[c]
<1>1. /\ now \in 0..MaxTime /\ now' = now /\ n \in Neighbours /\ b \in Nat
  BY DEF RelayEnds, TypeOK, clock
<1>2. ASSUME NEW m \in Neighbours, NEW t \in 0..now
      PROVE  /\ ended[m][t] \in Nat
             /\ ended'[m][t] = IF m = n /\ t = now THEN ended[m][t] + b ELSE ended[m][t]
  <2>1. ended[m] \in [0..MaxTime -> Nat] /\ t \in 0..MaxTime
    BY <1>1 DEF TypeOK
  <2>2. ended' = [ended EXCEPT ![n][now] = @ + b]
    BY DEF RelayEnds
  <2>3. ended'[m] = IF m = n THEN [ended[m] EXCEPT ![now] = @ + b] ELSE ended[m]
    <3>1. ended \in [Neighbours -> [0..MaxTime -> Nat]]
      BY DEF TypeOK
    <3>2. ended' = [ended EXCEPT ![n] = [ended[n] EXCEPT ![now] = ended[n][now] + b]]
      BY <2>2
    <3> HIDE DEF n, b
    <3> QED  BY <1>1, <3>1, <3>2
  <2> QED  BY <2>1, <2>3
<1>3. ASSUME NEW m \in Neighbours, NEW t \in 0..now, NEW u \in 0..now, t <= u
      PROVE  ended'[m][t] <= ended'[m][u]
  <2>1. ended[m][t] <= ended[m][u] /\ ended[m][t] \in Nat /\ ended[m][u] \in Nat
    BY <1>2, <1>3 DEF WindowInv
  <2>2. t = now => u = now
    BY <1>1, <1>3
  <2> QED  BY <1>1, <1>2, <2>1, <2>2
<1> HIDE DEF n, b
<1>4. ASSUME Limited, NEW m \in Neighbours
      PROVE  RollWindow(m).used' = EndedSince(m, RollWindow(m).started)'
  <2> DEFINE w == RollWindow(m)  s == w.started
  <2>1. w.used = EndedSince(m, s) /\ s \in 0..now /\ w.used \in Nat
    BY <1>4, RollWindowType DEF WindowInv
  <2>2. RollWindow(m)' = IF m = n THEN [w EXCEPT !.used = @ + b] ELSE w
    <3>1. ledger' = Store(n, [RollWindow(n) EXCEPT !.used = @ + b])
      BY <1>4 DEF RelayEnds, Record, n, b
    <3>2. CASE m = n
      <4>1. n \in DOMAIN ledger' /\ ledger'[n] = [w EXCEPT !.used = @ + b]
        BY <3>1, <3>2 DEF Store
      <4>2. ledger'[n].started = s /\ now - s < Window
        BY <1>1, <3>2, <4>1, ExitAssumption DEF RollWindow, TypeOK
      <4> HIDE DEF w, s
      <4> QED  BY <1>1, <2>1, <3>2, <4>1, <4>2 DEF RollWindow
    <3>3. CASE m # n
      <4>1. (m \in DOMAIN ledger' <=> m \in DOMAIN ledger)
            /\ (m \in DOMAIN ledger => ledger'[m] = ledger[m])
        BY <3>1, <3>3 DEF Store
      <4> QED  BY <1>1, <3>3, <4>1 DEF RollWindow
    <3> QED  BY <3>2, <3>3
  <2>3. RollWindow(m)'.started = s /\ RollWindow(m)'.used = IF m = n THEN w.used + b ELSE w.used
    <3>1. w \in [started : 0..now, used : Nat]
      BY RollWindowType
    <3>2. w = [started |-> s, used |-> w.used]
      BY <3>1
    <3> QED  BY <2>2, <3>2
  <2> HIDE DEF w, s
  <2>4. w.used = ended[m][now] - (IF s <= 0 THEN 0 ELSE ended[m][s - 1])
    BY <2>1 DEF EndedSince
  <2>5. EndedSince(m, RollWindow(m).started)'
          = ended'[m][now] - (IF s <= 0 THEN 0 ELSE ended'[m][s - 1])
    BY <1>1, <2>3 DEF EndedSince
  <2>6. s <= 0 \/ (s - 1 \in 0..now /\ s - 1 # now)
    BY <1>1, <2>1
  <2>7. s <= 0 \/ (ended'[m][s - 1] = ended[m][s - 1] /\ ended[m][s - 1] \in Nat)
    BY <1>2, <2>6
  <2>8. /\ ended'[m][now] = IF m = n THEN ended[m][now] + b ELSE ended[m][now]
        /\ ended[m][now] \in Nat
    BY <1>1, <1>2
  <2> QED  BY <1>1, <2>1, <2>3, <2>4, <2>5, <2>7, <2>8
<1> QED  BY <1>1, <1>3, <1>4 DEF WindowInv

LEMMA WindowStep ==
    ASSUME IInv, [Next]_vars
    PROVE  WindowInv'
<1> USE DEF IInv, clock, conn
<1>1. CASE AcceptFails \/ StopAccepting \/ UNCHANGED vars
  BY <1>1, WindowKept DEF AcceptFails, StopAccepting, vars
<1>2. CASE Tick
  BY <1>2, WindowTick
<1>3. ASSUME NEW c \in Connections,
             \/ Accept(c) \/ HeadFails(c) \/ Forbid(c) \/ Resolve(c) \/ Acknowledge(c)
             \/ Connect(c) \/ ForwardHead(c) \/ ForwardFails(c) \/ Relay(c)
      PROVE  WindowInv'
  <2>1. now' = now /\ ended' = ended /\ ledger' = ledger
    BY <1>3 DEF Accept, HeadFails, Forbid, Resolve, Acknowledge, Connect, ForwardHead,
                ForwardFails, Relay
  <2> QED  BY <2>1, WindowKept
<1>4. ASSUME NEW c \in Connections, Refuse(c) \/ Admit(c) PROVE WindowInv'
  <2>1. now' = now /\ ended' = ended /\ source[c] \in Allowed
    BY <1>4 DEF Refuse, Admit, IsAllowed
  <2>2. ledger' = ledger \/ ledger' = Store(source[c], RollWindow(source[c]))
    BY <1>4 DEF Refuse, Admit
  <2> QED  BY <2>1, <2>2, WindowKept
<1>5. ASSUME NEW c \in Connections, RelayEnds(c) PROVE WindowInv'
  BY <1>5, WindowRecorded
<1> QED
  BY <1>1, <1>2, <1>3, <1>4, <1>5 DEF Next, Finished

-----------------------------------------------------------------------------
(* The theorems.                                                           *)

LEMMA InitIInv == Init => IInv
<1> SUFFICES ASSUME Init PROVE IInv
  OBVIOUS
<1>1. DOMAIN ledger = {}
  BY DEF Init
<1>2. TypeOK
  BY <1>1 DEF Init, TypeOK, Phases, Targets
<1>3. OriginInv
  BY DEF Init, OriginInv, Admitted
<1>4. OvershootBounded
  BY <1>1 DEF OvershootBounded
<1>5. WindowInv
  <2>1. now = 0 /\ \A n \in Neighbours : ended[n][0] = 0
    BY DEF Init
  <2>2. \A n \in Neighbours : RollWindow(n) = [started |-> 0, used |-> 0]
    BY <1>1, <2>1 DEF RollWindow
  <2>3. \A n \in Neighbours : EndedSince(n, 0) = 0
    BY <2>1 DEF EndedSince
  <2>4. \A t \in 0..now : t = 0
    BY <2>1
  <2> QED  BY <2>1, <2>2, <2>3, <2>4 DEF WindowInv
<1> QED BY <1>2, <1>3, <1>4, <1>5 DEF IInv

LEMMA IInvStep == IInv /\ [Next]_vars => IInv'
  BY TypeStep, OriginStep, OvershootStep, WindowStep DEF IInv

LEMMA IInvAlways == Spec => []IInv
  BY InitIInv, IInvStep, PTL DEF Spec

\* Type correctness of the exit, for every set of neighbours, number of
\* connections at a time, and quota.
THEOREM ExitTypeCorrect == Spec => []TypeOK
<1>1. IInv => TypeOK
  BY DEF IInv
<1> QED BY <1>1, IInvAlways, PTL

\* The ledger: what a neighbour used and what its open connections may still
\* add never exceeds the quota by more than all connections at a time can carry.
THEOREM ExitOvershoot == Spec => []OvershootBounded
<1>1. IInv => OvershootBounded
  BY DEF IInv
<1> QED BY <1>1, IInvAlways, PTL

\* The exit goes only to addresses of an answer that was public throughout, and
\* only for a neighbour of the allowlist.
THEOREM ExitOrigins == Spec => []OnlyCheckedOrigins
<1>1. IInv => OnlyCheckedOrigins
  BY DEF IInv, OriginInv, OnlyCheckedOrigins, Admitted
<1> QED BY <1>1, IInvAlways, PTL

\* The ledger of a neighbour counts exactly the relays that have ended in its window,
\* however its tasks are interleaved with each other and with the clock.
THEOREM ExitLedger == Spec => []LedgerIsTheWindow
<1>1. IInv => LedgerIsTheWindow
  <2> SUFFICES ASSUME IInv, Limited, NEW n \in DOMAIN ledger, now - ledger[n].started < Window
               PROVE  ledger[n].used = EndedSince(n, ledger[n].started)
    BY DEF LedgerIsTheWindow
  <2>1. ledger[n].started \in 0..now /\ now \in Nat /\ n \in Neighbours
    BY DEF IInv, TypeOK
  <2>2. RollWindow(n) = ledger[n]
    BY <2>1 DEF RollWindow
  <2> QED  BY <2>1, <2>2 DEF IInv, WindowInv
<1> QED BY <1>1, IInvAlways, PTL

\* A neighbour that is refused has used up the quota within the last window's time.
LEMMA RefusalStep ==
    ASSUME IInv, [Next]_vars, NEW c \in Connections, reply[c] = 0, reply'[c] = 503
    PROVE  EndedSince(source[c], now - Window + 1) >= MaxBytes
<1> USE DEF IInv
<1>1. Refuse(c)
  <2>1. reply \in [Connections -> {0, 200, 400, 403, 503}] /\ reply'[c] # reply[c]
    BY DEF TypeOK
  <2>2. PICK d \in Connections :
          \/ Accept(d) \/ HeadFails(d) \/ Forbid(d) \/ Refuse(d) \/ Admit(d)
          \/ Resolve(d) \/ Acknowledge(d) \/ Connect(d)
          \/ ForwardHead(d) \/ ForwardFails(d) \/ Relay(d) \/ RelayEnds(d)
    BY <2>1 DEF Next, AcceptFails, StopAccepting, Tick, Finished, vars, conn
  <2>3. PICK status : reply' = [reply EXCEPT ![d] = status] /\ (Refuse(d) \/ status # 503 \/ status = reply[d])
    <3>1. CASE Refuse(d)
      BY <2>2, <3>1 DEF Refuse, Close
    <3>2. CASE ~Refuse(d)
      <4>1. reply' = [reply EXCEPT ![d] = reply[d]] \/ \E v \in {0, 200, 400, 403} : reply' = [reply EXCEPT ![d] = v]
        BY <2>1, <2>2, <3>2 DEF Accept, HeadFails, Forbid, Admit, Resolve, Acknowledge, Connect,
           ForwardHead, ForwardFails, Relay, RelayEnds, Close
      <4> QED  BY <4>1
    <3> QED  BY <3>1, <3>2
  <2> QED  BY <2>1, <2>3
<1> DEFINE n == source[c]  s == RollWindow(n).started  first == now - Window + 1
<1>2. Limited /\ RollWindow(n).used >= MaxBytes /\ n \in Neighbours /\ now \in Nat
      /\ Window \in Nat \ {0} /\ MaxBytes \in Nat \ {0}
  BY <1>1 DEF Refuse, Exhausted, TypeOK
<1>3. s \in 0..now /\ first <= s /\ first \in Int
  <2>1. RollWindow(n) = [started |-> now, used |-> 0]
          \/ (n \in DOMAIN ledger /\ RollWindow(n) = ledger[n] /\ now - ledger[n].started < Window)
    BY DEF RollWindow, TypeOK
  <2>2. s \in 0..now
    BY RollWindowType
  <2> QED  BY <1>2, <2>1, <2>2
<1>4. EndedSince(n, s) >= MaxBytes
  BY <1>2 DEF WindowInv
<1>5. \A t \in 0..now : ended[n][t] \in Nat
  <2>1. ended[n] \in [0..MaxTime -> Nat] /\ now \in 0..MaxTime
    BY <1>2 DEF TypeOK
  <2>2. \A t \in 0..now : t \in 0..MaxTime
    BY <2>1
  <2> QED  BY <2>1, <2>2
<1> HIDE DEF n, s, first
<1>6. EndedSince(n, first) >= EndedSince(n, s)
  <2>1. ended[n][now] \in Nat
    BY <1>2, <1>5
  <2>2. CASE first <= 0
    <3>1. s <= 0 \/ (s - 1 \in 0..now /\ ended[n][s - 1] \in Nat)
      BY <1>2, <1>3, <1>5
    <3> QED  BY <2>1, <2>2, <3>1 DEF EndedSince
  <2>3. CASE ~(first <= 0)
    <3>1. first - 1 \in 0..now /\ s - 1 \in 0..now /\ first - 1 <= s - 1 /\ ~(s <= 0)
      BY <1>2, <1>3, <2>3
    <3>2. ended[n][first - 1] <= ended[n][s - 1]
      BY <1>2, <3>1 DEF WindowInv
    <3>3. ended[n][first - 1] \in Nat /\ ended[n][s - 1] \in Nat
      BY <1>5, <3>1
    <3> QED  BY <2>1, <2>3, <3>1, <3>2, <3>3 DEF EndedSince
  <2> QED  BY <2>2, <2>3
<1>7. EndedSince(n, first) \in Int /\ EndedSince(n, s) \in Int
  <2>1. \A k \in Int : k <= now + 1 => EndedSince(n, k) \in Int
    BY <1>2, <1>5 DEF EndedSince
  <2> QED  BY <1>2, <1>3, <2>1
<1>8. EndedSince(n, first) >= MaxBytes
  BY <1>2, <1>4, <1>6, <1>7
<1> QED  BY <1>8 DEF n, first

\* A neighbour is refused only for what it used in the last window's time, whatever
\* the quota, the window and the traffic of the others are.
THEOREM ExitRefusals == Spec => RefusalIsJustified
<1>1. IInv /\ [Next]_vars =>
        [\A c \in Connections :
           reply[c] = 0 /\ reply'[c] = 503 =>
               EndedSince(source[c], now - Window + 1) >= MaxBytes]_vars
  BY RefusalStep
<1> QED BY <1>1, IInvAlways, PTL DEF Spec, RefusalIsJustified
=============================================================================
