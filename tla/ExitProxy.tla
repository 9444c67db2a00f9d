------------------------------ MODULE ExitProxy ------------------------------
(***************************************************************************)
(* The exit service (sn-exit, proxy.rs): an accept loop that spawns one    *)
(* task per connection of a neighbour, and the quota ledger these tasks    *)
(* share.  A task reads the request head, asks allowlist and ledger,       *)
(* resolves and connects the origin, relays bytes, and records them when   *)
(* the relay ends.  Every action is the code between two await points; the *)
(* ledger's mutex is never held across one.                                *)
(***************************************************************************)
EXTENDS Integers, FiniteSets

CONSTANTS
    Neighbours,        \* source addresses
    Allowed,           \* the ones on the allowlist
    Connections,       \* connections open at a time
    Limited,           \* a quota is configured
    MaxBytes, Window,  \* the quota: bytes per window, and its length in ticks
    MaxCarry,          \* bound: bytes one connection relays
    MaxTime            \* bound: ticks of the clock

ASSUME ExitAssumption ==
    /\ Allowed \subseteq Neighbours
    /\ IsFiniteSet(Connections)
    /\ Limited \in BOOLEAN
    /\ {MaxBytes, Window, MaxCarry, MaxTime} \subseteq Nat \ {0}

VARIABLES
    now,        \* the clock
    serving,    \* the accept loop: "yes", "stopped", or "failed"
    phase,      \* how far the task of a connection is
    source,     \* the neighbour of a connection
    request,    \* what its head asks for
    reply,      \* the status the exit itself answered, 0 if none
    checked,    \* the origin's addresses that passed the check
    origin,     \* the address connected to
    carried,    \* bytes relayed, both directions
    ledger,     \* the windows, of the neighbours seen so far
    ended       \* history: bytes of the relays of a neighbour that had ended by a time

conn == <<phase, source, request, reply, checked, origin, carried>>
clock == <<now, serving>>
vars == <<now, serving, phase, source, request, reply, checked, origin,
          carried, ledger, ended>>

\* What a head that can be parsed asks for: CONNECT, or an absolute http URI.
Targets == {"tunnel", "forward"}
Addresses == {"public", "private"}
Phases == {"idle", "head", "resolve", "ack", "connect", "forward", "relay", "closed"}

TypeOK ==
    /\ now \in 0..MaxTime
    /\ serving \in {"yes", "stopped", "failed"}
    /\ phase \in [Connections -> Phases]
    /\ source \in [Connections -> Neighbours]
    /\ request \in [Connections -> Targets]
    /\ reply \in [Connections -> {0, 200, 400, 403, 503}]
    /\ checked \in [Connections -> SUBSET Addresses]
    /\ origin \in [Connections -> Addresses \cup {"none"}]
    /\ carried \in [Connections -> 0..MaxCarry]
    /\ DOMAIN ledger \subseteq Allowed
    /\ \A n \in DOMAIN ledger : ledger[n] \in [started : 0..now, used : Nat]
    /\ ended \in [Neighbours -> [0..MaxTime -> Nat]]

Init ==
    /\ now = 0
    /\ serving = "yes"
    /\ phase = [c \in Connections |-> "idle"]
    /\ \E n \in Neighbours : source = [c \in Connections |-> n]
    /\ request = [c \in Connections |-> "tunnel"]
    /\ reply = [c \in Connections |-> 0]
    /\ checked = [c \in Connections |-> {}]
    /\ origin = [c \in Connections |-> "none"]
    /\ carried = [c \in Connections |-> 0]
    /\ ledger = <<>>
    /\ ended = [n \in Neighbours |-> [t \in 0..MaxTime |-> 0]]

(***************************************************************************)
(* The ledger.                                                             *)
(***************************************************************************)

\* The window of a neighbour: anchored at its first use, a new one when it is over.
RollWindowLate(n) ==   \* mutant: a window that is just over is kept
    IF n \notin DOMAIN ledger \/ now - ledger[n].started > Window
    THEN [started |-> now, used |-> 0]
    ELSE ledger[n]

RollWindow(n) ==
    IF n \notin DOMAIN ledger \/ now - ledger[n].started >= Window
    THEN [started |-> now, used |-> 0]
    ELSE ledger[n]

Store(n, window) == [m \in DOMAIN ledger \cup {n} |-> IF m = n THEN window ELSE ledger[m]]

\* admit and record do nothing at all without a quota.
ExhaustedPast(n) == Limited /\ RollWindow(n).used > MaxBytes   \* mutant

Exhausted(n) == Limited /\ RollWindow(n).used >= MaxBytes

RecordOver(n, bytes) ==   \* mutant: the bytes of the last connection only
    ledger' = IF Limited THEN Store(n, [RollWindow(n) EXCEPT !.used = bytes]) ELSE ledger

Record(n, bytes) ==
    ledger' = IF Limited THEN Store(n, [RollWindow(n) EXCEPT !.used = @ + bytes]) ELSE ledger

(***************************************************************************)
(* The accept loop.                                                        *)
(***************************************************************************)

\* A neighbour connects and a task is spawned for it; the stream is a new one.
Accept(c) ==
    /\ serving = "yes"
    /\ phase[c] \in {"idle", "closed"}
    /\ \E n \in Neighbours : source' = [source EXCEPT ![c] = n]
    /\ phase' = [phase EXCEPT ![c] = "head"]
    /\ reply' = [reply EXCEPT ![c] = 0]
    /\ UNCHANGED <<clock, request, checked, origin, carried, ledger, ended>>

AcceptFails ==
    /\ serving = "yes"
    /\ serving' = "failed"
    /\ UNCHANGED <<now, conn, ledger, ended>>

\* The shutdown future is done and select picks it: some connections more may be
\* accepted first.  Those accepted keep running.
StopAccepting ==
    /\ serving = "yes"
    /\ serving' = "stopped"
    /\ UNCHANGED <<now, conn, ledger, ended>>

Tick ==
    /\ now < MaxTime
    /\ now' = now + 1
    /\ ended' = [n \in Neighbours |-> [ended[n] EXCEPT ![now + 1] = ended[n][now]]]
    /\ UNCHANGED <<serving, conn, ledger>>

(***************************************************************************)
(* The task of a connection.                                               *)
(***************************************************************************)

\* The task ends, its streams and counters are dropped.
Close(c, status) ==
    /\ phase' = [phase EXCEPT ![c] = "closed"]
    /\ reply' = [reply EXCEPT ![c] = status]
    /\ request' = [request EXCEPT ![c] = "tunnel"]
    /\ checked' = [checked EXCEPT ![c] = {}]
    /\ origin' = [origin EXCEPT ![c] = "none"]
    /\ carried' = [carried EXCEPT ![c] = 0]

\* The head is too long, never ends, or the connection breaks.
HeadFails(c) ==
    /\ phase[c] = "head"
    /\ Close(c, 0)
    /\ UNCHANGED <<clock, source, ledger, ended>>

\* The allowlist is asked before the ledger.
IsAllowedAlways(n) == TRUE   \* mutant
IsAllowed(n) == n \in Allowed

Forbid(c) ==
    /\ phase[c] = "head"
    /\ ~IsAllowed(source[c])
    /\ Close(c, 403)
    /\ UNCHANGED <<clock, source, ledger, ended>>

\* Retry-After is a matter of the answer.  The ledger's window is rolled even if the connection is refused.
Refuse(c) ==
    LET n == source[c]
    IN  /\ phase[c] = "head"
        /\ IsAllowed(n) /\ Exhausted(n)
        /\ ledger' = Store(n, RollWindow(n))
        /\ Close(c, 503)
        /\ UNCHANGED <<clock, source, ended>>

\* Admitted; an unparseable head is answered 400 only now.
Admit(c) ==
    LET n == source[c]
    IN  /\ phase[c] = "head"
        /\ IsAllowed(n) /\ ~Exhausted(n)
        /\ ledger' = IF Limited THEN Store(n, RollWindow(n)) ELSE ledger
        /\ \/ Close(c, 400)
           \/ /\ phase' = [phase EXCEPT ![c] = "resolve"]
              /\ \E r \in Targets : request' = [request EXCEPT ![c] = r]
              /\ UNCHANGED <<reply, checked, origin, carried>>
        /\ UNCHANGED <<clock, source, ended>>

\* The resolver answers with addresses; all of them must be public.
IsPublicOrigin(address) == address = "public"
SomePublic(answer) == \E a \in answer : IsPublicOrigin(a)   \* mutant: one is enough
AllPublic(answer) == answer # {} /\ \A a \in answer : IsPublicOrigin(a)

Resolve(c) ==
    /\ phase[c] = "resolve"
    /\ \E answer \in SUBSET Addresses :
         IF AllPublic(answer)
         THEN /\ checked' = [checked EXCEPT ![c] = answer]
              /\ phase' = [phase EXCEPT ![c] = IF request[c] = "tunnel" THEN "ack" ELSE "connect"]
              /\ UNCHANGED <<reply, request, origin, carried>>
         ELSE Close(c, 0)
    /\ UNCHANGED <<clock, source, ledger, ended>>

\* A tunnel is acknowledged before the origin is connected.
Acknowledge(c) ==
    /\ phase[c] = "ack"
    /\ \/ /\ reply' = [reply EXCEPT ![c] = 200]
          /\ phase' = [phase EXCEPT ![c] = "connect"]
          /\ UNCHANGED <<request, checked, origin, carried>>
       \/ Close(c, 0)
    /\ UNCHANGED <<clock, source, ledger, ended>>

\* Only the checked addresses are tried; none answers, or not in time.
Connect(c) ==
    /\ phase[c] = "connect"
    /\ \/ \E address \in checked[c] :
            /\ origin' = [origin EXCEPT ![c] = address]
            /\ phase' = [phase EXCEPT ![c] = IF request[c] = "forward" THEN "forward" ELSE "relay"]
            /\ UNCHANGED <<reply, request, checked, carried>>
       \/ Close(c, reply[c])
    /\ UNCHANGED <<clock, source, ledger, ended>>

\* The neighbour's head, a byte here, goes to the origin, all of it or a part.
ForwardHead(c) ==
    /\ phase[c] = "forward"
    /\ carried' = [carried EXCEPT ![c] = 1]
    /\ phase' \in {phase, [phase EXCEPT ![c] = "relay"]}
    /\ UNCHANGED <<clock, source, request, reply, checked, origin, ledger, ended>>

\* The write breaks off; the task ends and records nothing.
ForwardFails(c) ==
    /\ phase[c] = "forward"
    /\ Close(c, reply[c])
    /\ UNCHANGED <<clock, source, ledger, ended>>

Relay(c) ==
    /\ phase[c] = "relay"
    /\ carried[c] < MaxCarry
    /\ carried' = [carried EXCEPT ![c] = @ + 1]
    /\ UNCHANGED <<clock, phase, source, request, reply, checked, origin, ledger, ended>>

\* The relay ends, by a close or an error of either side; the bytes are recorded.
RelayEnds(c) ==
    LET n == source[c]
    IN  /\ phase[c] = "relay"
        /\ Record(n, carried[c])
        /\ ended' = [ended EXCEPT ![n][now] = @ + carried[c]]
        /\ Close(c, reply[c])
        /\ UNCHANGED <<clock, source>>

Finished ==
    /\ now = MaxTime /\ serving # "yes"
    /\ \A c \in Connections : phase[c] \in {"idle", "closed"}
    /\ UNCHANGED vars

Next ==
    \/ AcceptFails \/ StopAccepting \/ Tick
    \/ \E c \in Connections :
         \/ Accept(c) \/ HeadFails(c) \/ Forbid(c) \/ Refuse(c) \/ Admit(c)
         \/ Resolve(c) \/ Acknowledge(c) \/ Connect(c)
         \/ ForwardHead(c) \/ ForwardFails(c) \/ Relay(c) \/ RelayEnds(c)
    \/ Finished

Spec == Init /\ [][Next]_vars

(***************************************************************************)
(* Properties.                                                             *)
(***************************************************************************)

\* Bytes of neighbour n whose relays ended in the ticks first..now.
EndedSince(n, first) ==
    ended[n][now] - (IF first <= 0 THEN 0 ELSE ended[n][first - 1])

\* The tasks of n that are past admission.
Open(n) == {c \in Connections :
              source[c] = n /\ phase[c] \in {"resolve", "ack", "connect", "forward", "relay"}}

\* "One very large connection can overshoot the quota": so can several admitted at
\* the same time, but never by more than the open connections carry.
OvershootBounded ==
    Limited => \A n \in DOMAIN ledger :
        ledger[n].used + Cardinality(Open(n)) * MaxCarry
            <= MaxBytes - 1 + Cardinality(Connections) * MaxCarry

\* The ledger loses and repeats nothing: what it says of a window that is not over
\* is the sum of the relays that ended in it, whatever the tasks of the
\* neighbours did in between.
LedgerIsTheWindow ==
    Limited => \A n \in DOMAIN ledger :
        now - ledger[n].started < Window
            => ledger[n].used = EndedSince(n, ledger[n].started)

\* A neighbour is refused only for what it used in the last window's time: old
\* traffic does not count against it for longer.
RefusalIsJustified ==
    [][\A c \in Connections :
         reply[c] = 0 /\ reply'[c] = 503 =>
             EndedSince(source[c], now - Window + 1) >= MaxBytes]_vars

\* A connection to an origin goes to an address whose check it passed, of an
\* answer that was public throughout, and only for an allowed neighbour.
OnlyCheckedOrigins ==
    \A c \in Connections : origin[c] # "none" =>
        /\ origin[c] \in checked[c] /\ checked[c] = {"public"}
        /\ source[c] \in Allowed

\* "traffic is accounted even when the connection errors or is aborted midway"
\* (handle_connection).
TrafficIsAccounted ==
    [][\A c \in Connections :
         phase[c] # "closed" /\ phase'[c] = "closed" /\ carried[c] > 0 =>
             ended'[source[c]] # ended[source[c]]]_vars
=============================================================================
