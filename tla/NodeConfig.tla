------------------------------ MODULE NodeConfig ------------------------------
(***************************************************************************)
(* What a household writes down and what runs in the end.  node.toml is    *)
(* edited at any time; sn-node daemon validates it once per start, derives *)
(* the yggdrasil configuration and the exit settings from it, and serves   *)
(* on the address that the admin socket reports.  sn-node genconf and      *)
(* sn-exit turn the same settings, given as options, into a configuration  *)
(* file and an exit.  A crashed daemon leaves its sidecar behind.          *)
(*                                                                         *)
(* A text is what its parser makes of it; a list is empty or has an entry. *)
(* NodeDaemon has the steps of a start and an end in detail.               *)
(***************************************************************************)
EXTENDS Naturals

CONSTANTS
    Unset,                      \* an optional setting that is not given
    Dirs, DefaultDir,           \* state directories
    Endpoints, DefaultAdmin,    \* admin endpoints
    MaxWord,                    \* u64::MAX
    Mib, Hour,                  \* bytes and seconds
    DefaultMib, DefaultHours,
    Amounts,                    \* bound: the numbers that are asked for
    MaxStarts, MaxEdits         \* bounds

ASSUME ConfigAssumption ==
    /\ {MaxWord, Mib, Hour, DefaultMib, DefaultHours, MaxStarts} \subseteq Nat \ {0}
    /\ Amounts \subseteq Nat /\ MaxEdits \in Nat
    /\ DefaultDir \in Dirs /\ DefaultAdmin \in Endpoints
    /\ "junk" \notin Endpoints /\ 0 \notin Dirs /\ Unset \notin {"hex", "HEX"}

VARIABLES
    file,       \* node.toml: the text of every setting
    edits,      \* edits so far
    pc,         \* where the daemon is
    starts,     \* starts so far, also the number of the last one
    loaded,     \* history: the file as it was when the daemon read it
    key,        \* node.key in each state directory: the start that made it, or 0
    conf,       \* yggdrasil.conf in each state directory
    overlays,   \* the yggdrasil processes that run
    exits,      \* what the daemon's exit and sn-exit offer
    out         \* what genconf has written

disk == <<key, conf>>
vars == <<file, edits, pc, starts, loaded, key, conf, overlays, exits, out>>

(***************************************************************************)
(* Texts and their parsers.                                                *)
(***************************************************************************)

\* "syntax" stands for a file that is missing, no TOML, or has unknown fields.
Texts == [syntax |-> {"broken"},
          admin |-> Endpoints \cup {"junk"}, dir |-> Dirs,
          manage |-> BOOLEAN,
          peers |-> {"uri", "socks", "junk"}, listen |-> {"uri", "socks", "junk"},
          keys |-> {"hex", "HEX", "junk"}, multicast |-> {"off"},
          ifname |-> {"eth", "none", "blank"},
          enabled |-> BOOLEAN, bind |-> {"", "loopback", "lan", "junk"},
          allow |-> {"neighbour", "loopback", "junk"},
          quota |-> Amounts, hours |-> Amounts]

Blank == [k \in DOMAIN Texts |-> Unset]
Sharing == [Blank EXCEPT !.enabled = TRUE, !.allow = "neighbour"]

Or(text, default) == IF text = Unset THEN default ELSE text

PeerUri(text) == text # "junk"
ListenUri(text) == text \notin {"junk", "socks"}
PublicKeyHex(text) == IF text = "HEX" THEN "hex" ELSE text   \* lowercased
ParsesKey(text) == text # "junk"
ParsesAdmin(text) == text # "junk"
ParsesIfname(text) == text # "blank"
ParsesAddress(text) == text # "junk"

(***************************************************************************)
(* The exit's part.                                                        *)
(***************************************************************************)
Loopback == "loopback"
Sources == {"neighbour", "stranger", Loopback}

\* loopback_only and new.
SourceAllowlist(text) ==
    [allowed |-> {text} \ {Unset}, allowLoopback |-> text = Unset]

IsAllowed(list, source) ==
    (source = Loopback /\ list.allowLoopback) \/ source \in list.allowed

SaturatingMul(a, b) == IF a * b > MaxWord THEN MaxWord ELSE a * b
WrappingMul(a, b) == (a * b) % (MaxWord + 1)

NoQuota == [bytes |-> 0, window |-> 0]
QuotaPolicy(bytes, window) == [bytes |-> bytes, window |-> window]
ValidQuota(quota) == quota = NoQuota \/ (quota.bytes # 0 /\ quota.window # 0)

QuotaWraps(f) ==   \* mutant: the plain product, as in the standalone program
    IF Or(f.quota, DefaultMib) = 0 THEN NoQuota
    ELSE QuotaPolicy(SaturatingMul(Or(f.quota, DefaultMib), Mib),
                     WrappingMul(Or(f.hours, DefaultHours), Hour))

Quota(f) ==
    IF Or(f.quota, DefaultMib) = 0 THEN NoQuota
    ELSE QuotaPolicy(SaturatingMul(Or(f.quota, DefaultMib), Mib),
                     SaturatingMul(Or(f.hours, DefaultHours), Hour))

\* The product of sn-exit is not a saturating one.
CliQuota(f) ==
    IF Or(f.quota, DefaultMib) = 0 THEN NoQuota
    ELSE QuotaPolicy(SaturatingMul(Or(f.quota, DefaultMib), Mib),
                     WrappingMul(Or(f.hours, DefaultHours), Hour))

Enabled(f) == Or(f.enabled, FALSE)
ExplicitBind(f) == IF f.bind = "" THEN Unset ELSE f.bind

ValidExitAnyBind(f) ==   \* mutant: an exit without a list may bind anything
    /\ ParsesAddress(f.bind) /\ ParsesAddress(f.allow)
    /\ ValidQuota(Quota(f))

\* All of the section is validated, also when the exit is not enabled.  Without a list
\* only an explicit loopback bind is accepted.
ValidExit(f) ==
    /\ ParsesAddress(f.bind) /\ ParsesAddress(f.allow)
    /\ Enabled(f) /\ f.allow = Unset => ExplicitBind(f) = Loopback
    /\ ValidQuota(Quota(f))

\* ExitConfig.  "asked" is history: the settings it was made from.
Offer(f, at, list, quota) == [asked |-> f, at |-> at, list |-> list, quota |-> quota]
Address(explicit, id) == [explicit |-> explicit, id |-> id]
NoOffer == Offer(Blank, Address(Unset, 0), SourceAllowlist(Unset), NoQuota)

(***************************************************************************)
(* The daemon's configuration, and yggdrasil's.                            *)
(***************************************************************************)
Manage(f) == Or(f.manage, TRUE)
Admin(f) == Or(f.admin, DefaultAdmin)
StateDir(f) == Or(f.dir, DefaultDir)

ValidOverlay(f) ==
    /\ ParsesAdmin(f.admin)
    /\ PeerUri(f.peers) /\ ListenUri(f.listen) /\ ParsesKey(f.keys)
    /\ ParsesIfname(f.ifname)

Valid(f) ==
    /\ f.syntax = Unset
    /\ ValidOverlay(f)
    /\ ValidExit(f)
    /\ Manage(f) \/ Enabled(f)

NoConf == [Peers |-> "none", Listen |-> "none", MulticastInterfaces |-> "none",
           AdminListen |-> Unset, IfName |-> "none", AllowedPublicKeys |-> "none",
           PrivateKeyPath |-> Unset, PrivateKey |-> 0]

\* yggdrasil -genconf: its defaults and a fresh key.
Genconf(fresh) ==
    [Peers |-> "generated", Listen |-> "generated", MulticastInterfaces |-> "generated",
     AdminListen |-> "generated", IfName |-> "generated", AllowedPublicKeys |-> "generated",
     PrivateKeyPath |-> Unset, PrivateKey |-> fresh]

\* Empty lists and unset options leave what the base says.
ApplyToBaseConfig(f, path, base) ==
    [base EXCEPT !.Peers = Or(f.peers, @),
                 !.Listen = Or(f.listen, @),
                 !.MulticastInterfaces = Or(f.multicast, @),
                 !.AdminListen = Admin(f),
                 !.IfName = Or(f.ifname, "auto"),
                 !.AllowedPublicKeys = Or(PublicKeyHex(f.keys), @),
                 !.PrivateKeyPath = Or(path, @)]

GenerateFromLast(f, path, fresh) ==   \* mutant: the last configuration is the base
    ApplyToBaseConfig(f, path, IF conf[StateDir(f)] = NoConf THEN Genconf(fresh)
                               ELSE conf[StateDir(f)])

GenerateConfig(f, path, fresh) == ApplyToBaseConfig(f, path, Genconf(fresh))

(***************************************************************************)
(* The state.                                                              *)
(***************************************************************************)
Start == 1..MaxStarts
Outside == 0         \* instead of a state directory: not a sidecar
Owners == {"daemon", "sn-exit"}
Overlay(start, dir, id, c) == [start |-> start, dir |-> dir, id |-> id, conf |-> c]

TypeOK ==
    /\ DOMAIN file = DOMAIN Texts
    /\ \A k \in DOMAIN Texts : file[k] = Unset \/ file[k] \in Texts[k]
    /\ edits \in 0..MaxEdits /\ starts \in 0..MaxStarts
    /\ pc \in {"off", "key", "conf", "spawn", "wait", "serve", "leech"}
    /\ pc # "off" => Valid(loaded) /\ starts \in Start
    /\ key \in [Dirs -> 0..MaxStarts]
    /\ DOMAIN conf = Dirs
    /\ \A o \in Owners : ValidQuota(exits[o].quota)
    /\ pc \in {"conf", "spawn"} => key[StateDir(loaded)] # 0
    /\ \A p \in overlays : p.id # 0

Init ==
    /\ file \in {Blank, Sharing}
    /\ edits = 0
    /\ pc = "off"
    /\ starts = 0
    /\ loaded = Blank
    /\ key = [d \in Dirs |-> 0]
    /\ conf = [d \in Dirs |-> NoConf]
    /\ overlays = {}
    /\ exits = [o \in Owners |-> NoOffer]
    /\ out = NoConf

Edit ==
    /\ edits < MaxEdits
    /\ edits' = edits + 1
    /\ \E k \in DOMAIN Texts : \E text \in Texts[k] \cup {Unset} :
          file' = [file EXCEPT ![k] = text]
    /\ UNCHANGED <<pc, starts, loaded, disk, overlays, exits, out>>

(***************************************************************************)
(* sn-node daemon.                                                         *)
(***************************************************************************)

\* The file is read and validated; nothing is touched before that.  With --check, or
\* if it is refused, this is all.
Load ==
    /\ pc = "off" /\ starts < MaxStarts
    /\ starts' = starts + 1
    /\ loaded' = file
    /\ pc' = IF ~Valid(file) THEN "off" ELSE IF Manage(file) THEN "key" ELSE "wait"
    /\ UNCHANGED <<file, edits, disk, overlays, exits, out>>

\* A key that is in the state directory is reused, else the generated one is stored.
PrepareKeyAnew ==   \* mutant: the generated key is always stored
    /\ pc = "key"
    /\ key' = [key EXCEPT ![StateDir(loaded)] = starts]
    /\ pc' = "conf"
    /\ UNCHANGED <<file, edits, starts, loaded, conf, overlays, exits, out>>

PrepareKeyNever ==   \* mutant: storing the key is left to yggdrasil
    /\ pc = "key"
    /\ pc' = "conf"
    /\ UNCHANGED <<file, edits, starts, loaded, disk, overlays, exits, out>>

PrepareKey ==
    /\ pc = "key"
    /\ key' = [key EXCEPT ![StateDir(loaded)] = IF @ = 0 THEN starts ELSE @]
    /\ pc' = "conf"
    /\ UNCHANGED <<file, edits, starts, loaded, conf, overlays, exits, out>>

WriteConfig ==
    /\ pc = "conf"
    /\ conf' = [conf EXCEPT ![StateDir(loaded)] =
                   GenerateConfig(loaded, StateDir(loaded), starts)]
    /\ pc' = "spawn"
    /\ UNCHANGED <<file, edits, starts, loaded, key, overlays, exits, out>>

\* The sidecar reads its configuration, and its key where that says.
Spawn ==
    /\ pc = "spawn"
    /\ overlays' = LET c == conf[StateDir(loaded)]
                   IN  overlays \cup {Overlay(starts, StateDir(loaded), key[c.PrivateKeyPath], c)}
    /\ pc' = "wait"
    /\ UNCHANGED <<file, edits, starts, loaded, disk, exits, out>>

\* Whoever listens on the admin endpoint says who the node is: its own sidecar, one a
\* crash has left, or an overlay started by hand.
Listening == {p \in overlays : p.conf.AdminListen = Admin(loaded)}

\* An explicit bind, or the overlay address reported.
Resolve(f, id) ==
    IF ExplicitBind(f) = Unset THEN Address(Unset, id) ELSE Address(ExplicitBind(f), 0)

Serve(p) ==
    exits' = [exits EXCEPT !["daemon"] =
                 Offer(loaded, Resolve(loaded, p.id), SourceAllowlist(loaded.allow), Quota(loaded))]

OverlayUp ==
    /\ pc = "wait"
    /\ \E p \in Listening :
          IF Enabled(loaded) THEN pc' = "serve" /\ Serve(p)
          ELSE pc' = "leech" /\ UNCHANGED exits
    /\ UNCHANGED <<file, edits, starts, loaded, disk, overlays, out>>

\* The daemon ends, after a signal or on any failure: with its sidecar and its exit.
End ==
    /\ pc # "off"
    /\ pc' = "off"
    /\ overlays' = {p \in overlays : p.start # starts}
    /\ exits' = [exits EXCEPT !["daemon"] = NoOffer]
    /\ UNCHANGED <<file, edits, starts, loaded, disk, out>>

\* The sidecar stays.
Crash ==
    /\ pc # "off"
    /\ pc' = "off"
    /\ exits' = [exits EXCEPT !["daemon"] = NoOffer]
    /\ UNCHANGED <<file, edits, starts, loaded, disk, overlays, out>>

(***************************************************************************)
(* sn-node genconf, sn-exit, and the surroundings.                         *)
(***************************************************************************)

\* Bound: one of the two programs is run by hand, once.
NoneByHand == out = NoConf /\ exits["sn-exit"] = NoOffer

\* The options are the settings of the file, with an external key file or not.
RunGenconf ==
    /\ NoneByHand
    /\ ValidOverlay(file)
    /\ \E path \in {Unset, DefaultDir} : out' = GenerateConfig(file, path, MaxStarts + 1)
    /\ UNCHANGED <<file, edits, pc, starts, loaded, disk, overlays, exits>>

\* yggdrasil is started by hand with what genconf wrote; a key file that is not there
\* keeps it from starting.
StartByHand ==
    /\ out # NoConf /\ out.PrivateKeyPath = Unset
    /\ overlays' = overlays \cup {Overlay(0, Outside, out.PrivateKey, out)}
    /\ UNCHANGED <<file, edits, pc, starts, loaded, disk, exits, out>>

\* The default bind of sn-exit is a loopback address.
RunExit ==
    /\ NoneByHand
    /\ ParsesAddress(file.bind) /\ file.bind # "" /\ ParsesAddress(file.allow)
    /\ ValidQuota(CliQuota(file))
    /\ exits' = [exits EXCEPT !["sn-exit"] =
            Offer(file, Address(Or(file.bind, Loopback), 0), SourceAllowlist(file.allow),
                  CliQuota(file))]
    /\ UNCHANGED <<file, edits, pc, starts, loaded, disk, overlays, out>>

\* A process of the overlay dies; the daemon notices its own and ends.
Dies ==
    /\ \E p \in overlays : overlays' = overlays \ {p}
    /\ UNCHANGED <<file, edits, pc, starts, loaded, disk, exits, out>>

Finished ==
    /\ pc = "off" /\ starts = MaxStarts /\ edits = MaxEdits /\ overlays = {}
    /\ UNCHANGED vars

Next ==
    \/ Edit
    \/ Load \/ PrepareKey \/ WriteConfig \/ Spawn \/ OverlayUp \/ End \/ Crash
    \/ RunGenconf \/ StartByHand \/ RunExit
    \/ Dies \/ Finished

Spec == Init /\ [][Next]_vars

(***************************************************************************)
(* Properties.                                                             *)
(***************************************************************************)

\* "[<overlay address>]:port on the node's own overlay address": the exit is bound to the
\* address of the key in the state directory, also if the admin socket that answers is
\* the one of a sidecar that earlier, crashed starts have left, whatever was edited since;
\* unless something with another key listens there, which the daemon cannot tell.
BindsOwnAddress ==
    [][/\ pc = "wait" /\ pc' = "serve"
       /\ Manage(loaded) /\ ExplicitBind(loaded) = Unset
       /\ \A p \in Listening : p.dir = StateDir(loaded)
       => exits'["daemon"].at = Address(Unset, key[StateDir(loaded)])]_vars

\* The sidecar of this start runs with the settings of the file this start has read: it
\* listens where the daemon asks, uses the key of the state directory, and what the file
\* does not say is yggdrasil's default and not what an earlier file said.
SidecarAsConfigured ==
    \A p \in overlays : p.start = starts /\ pc # "off" =>
        /\ p.conf.AdminListen = Admin(loaded)
        /\ p.conf.PrivateKeyPath = StateDir(loaded) /\ p.id = key[StateDir(loaded)]
        /\ p.conf.Peers = Or(loaded.peers, "generated")
        /\ p.conf.Listen = Or(loaded.listen, "generated")
        /\ p.conf.MulticastInterfaces = Or(loaded.multicast, "generated")
        /\ p.conf.AllowedPublicKeys # "generated" <=> loaded.keys # Unset

\* An exit serves a source only if the settings it was started with list it; a loopback
\* client only if they list nobody, and of the daemon only at a loopback bind.
ServesTheListed ==
    \A o \in Owners : \A source \in Sources :
        exits[o] # NoOffer /\ IsAllowed(exits[o].list, source) =>
            \/ exits[o].asked.allow = source
            \/ /\ exits[o].asked.allow = Unset /\ source = Loopback
               /\ o = "daemon" => exits[o].at.explicit = Loopback

\* A quota that is asked for is there, and no number is so large that the quota or its
\* window becomes smaller than a smaller one, the window of sn-exit excepted.
AtLeast(amount, unit, value) == value >= amount * unit \/ value = MaxWord

QuotaAsAsked ==
    \A o \in Owners :
        LET asked == exits[o].asked
            quota == exits[o].quota
        IN  exits[o] # NoOffer /\ Or(asked.quota, DefaultMib) # 0 =>
                /\ AtLeast(Or(asked.quota, DefaultMib), Mib, quota.bytes) /\ quota.bytes # 0
                /\ AtLeast(Or(asked.hours, DefaultHours), Hour, quota.window) \/ o = "sn-exit"
                /\ quota.window # 0
=============================================================================
