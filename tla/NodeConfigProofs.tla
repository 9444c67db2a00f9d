--------------------------- MODULE NodeConfigProofs ---------------------------
(***************************************************************************)
(* Safety of NodeConfig, for any directories, endpoints and numbers, any   *)
(* width of a word, and any number of starts and edits.                    *)
(***************************************************************************)
EXTENDS NodeConfig, TLAPS

(***************************************************************************)
(* What has to be known of the settings.                                   *)
(***************************************************************************)
Fields == {"syntax", "admin", "dir", "manage", "peers", "listen", "keys", "multicast",
           "ifname", "enabled", "bind", "allow", "quota", "hours"}

Settings(f) ==
    /\ DOMAIN f = Fields
    /\ \A k \in Fields : f[k] = Unset \/ f[k] \in Texts[k]

LEMMA FieldsOfTexts == DOMAIN Texts = Fields
BY DEF Texts, Fields

LEMMA BlankSettings == Settings(Blank) /\ Settings(Sharing)
<1>1. Settings(Blank)
  BY FieldsOfTexts DEF Settings, Blank
<1>2. Settings(Sharing)
  <2>1. DOMAIN Sharing = Fields
    BY FieldsOfTexts DEF Sharing, Blank
  <2>2. ASSUME NEW k \in Fields PROVE Sharing[k] = Unset \/ Sharing[k] \in Texts[k]
    <3>1. CASE k = "enabled"
      BY <3>1, FieldsOfTexts DEF Sharing, Blank, Texts
    <3>2. CASE k = "allow"
      BY <3>2, FieldsOfTexts DEF Sharing, Blank, Texts
    <3>3. CASE k \notin {"enabled", "allow"}
      BY <3>3, FieldsOfTexts DEF Sharing, Blank
    <3> QED  BY <3>1, <3>2, <3>3
  <2> QED  BY <2>1, <2>2 DEF Settings
<1> QED  BY <1>1, <1>2

\* What the parsers and defaults make of them.
LEMMA Parsed ==
    ASSUME NEW f, Settings(f)
    PROVE  /\ StateDir(f) \in Dirs
           /\ Or(f.quota, DefaultMib) \in Nat /\ Or(f.hours, DefaultHours) \in Nat
           /\ f.keys \in {Unset, "hex", "HEX", "junk"}
<1>1. /\ f.dir = Unset \/ f.dir \in Dirs
      /\ f.quota = Unset \/ f.quota \in Amounts
      /\ f.hours = Unset \/ f.hours \in Amounts
      /\ f.keys = Unset \/ f.keys \in {"hex", "HEX", "junk"}
  BY DEF Settings, Fields, Texts
<1> QED  BY <1>1, ConfigAssumption DEF StateDir, Or

\* A saturating product is the product or the greatest word, and not 0.
LEMMA Saturates ==
    ASSUME NEW a \in Nat \ {0}, NEW b \in Nat \ {0}
    PROVE  AtLeast(a, b, SaturatingMul(a, b)) /\ SaturatingMul(a, b) # 0
<1>1. a * b \in Nat /\ a * b # 0
  BY SMT
<1>2. MaxWord \in Nat \ {0}
  BY ConfigAssumption
<1> DEFINE product == a * b
<1>3. product \in Nat /\ product # 0
  BY <1>1
<1> HIDE DEF product
<1>4. LET value == IF product > MaxWord THEN MaxWord ELSE product
      IN  (value >= product \/ value = MaxWord) /\ value # 0
  BY <1>2, <1>3, SMT
<1> QED  BY <1>4 DEF product, AtLeast, SaturatingMul

\* A valid quota keeps what was asked for: the window only where the product saturates.
LEMMA QuotaKept ==
    ASSUME NEW f, Settings(f), NEW window, Or(f.quota, DefaultMib) # 0,
           NEW quota, quota = QuotaPolicy(SaturatingMul(Or(f.quota, DefaultMib), Mib), window),
           ValidQuota(quota)
    PROVE  /\ AtLeast(Or(f.quota, DefaultMib), Mib, quota.bytes) /\ quota.bytes # 0
           /\ quota.window = window /\ window # 0
<1>1. Or(f.quota, DefaultMib) \in Nat \ {0} /\ Mib \in Nat \ {0}
  BY Parsed, ConfigAssumption
<1>2. /\ AtLeast(Or(f.quota, DefaultMib), Mib, SaturatingMul(Or(f.quota, DefaultMib), Mib))
      /\ SaturatingMul(Or(f.quota, DefaultMib), Mib) # 0
  BY <1>1, Saturates
<1>3. quota.bytes = SaturatingMul(Or(f.quota, DefaultMib), Mib) /\ quota.window = window
  BY DEF QuotaPolicy
<1>4. quota # NoQuota
  BY <1>2, <1>3 DEF NoQuota
<1> QED  BY <1>2, <1>3, <1>4, Zenon DEF ValidQuota

LEMMA DaemonQuota ==
    ASSUME NEW f, Settings(f), ValidQuota(Quota(f)), Or(f.quota, DefaultMib) # 0
    PROVE  /\ AtLeast(Or(f.quota, DefaultMib), Mib, Quota(f).bytes) /\ Quota(f).bytes # 0
           /\ AtLeast(Or(f.hours, DefaultHours), Hour, Quota(f).window) /\ Quota(f).window # 0
<1> DEFINE window == SaturatingMul(Or(f.hours, DefaultHours), Hour)
<1>1. Quota(f) = QuotaPolicy(SaturatingMul(Or(f.quota, DefaultMib), Mib), window)
  BY DEF Quota
<1>2. /\ AtLeast(Or(f.quota, DefaultMib), Mib, Quota(f).bytes) /\ Quota(f).bytes # 0
      /\ Quota(f).window = window /\ window # 0
  BY <1>1, QuotaKept
<1>3. Or(f.hours, DefaultHours) # 0
  <2>1. Hour \in Nat /\ MaxWord \in Nat
    BY ConfigAssumption
  <2>2. SaturatingMul(0, Hour) = 0
    BY <2>1, SMT DEF SaturatingMul
  <2> QED  BY <1>2, <2>2
<1>4. AtLeast(Or(f.hours, DefaultHours), Hour, window)
  BY <1>3, Parsed, Saturates, ConfigAssumption
<1> QED  BY <1>2, <1>4

LEMMA ExitQuota ==
    ASSUME NEW f, Settings(f), ValidQuota(CliQuota(f)), Or(f.quota, DefaultMib) # 0
    PROVE  /\ AtLeast(Or(f.quota, DefaultMib), Mib, CliQuota(f).bytes)
           /\ CliQuota(f).bytes # 0 /\ CliQuota(f).window # 0
<1>1. CliQuota(f) = QuotaPolicy(SaturatingMul(Or(f.quota, DefaultMib), Mib),
                                WrappingMul(Or(f.hours, DefaultHours), Hour))
  BY DEF CliQuota
<1> QED  BY <1>1, QuotaKept

-----------------------------------------------------------------------------
(***************************************************************************)
(* The invariant.                                                          *)
(***************************************************************************)

\* What the daemon has read is valid from its first step on.
ControlInv ==
    /\ Settings(file) /\ Settings(loaded)
    /\ edits \in 0..MaxEdits /\ starts \in 0..MaxStarts
    /\ pc \in {"off", "key", "conf", "spawn", "wait", "serve", "leech"}
    /\ pc # "off" => Valid(loaded) /\ starts \in Start

\* The files of the state directory are there when the sidecar needs them.
DiskInv ==
    /\ key \in [Dirs -> 0..MaxStarts] /\ DOMAIN conf = Dirs
    /\ pc \in {"conf", "spawn"} => key[StateDir(loaded)] # 0
    /\ pc = "spawn" =>
           conf[StateDir(loaded)] = GenerateConfig(loaded, StateDir(loaded), starts)
    /\ out = NoConf \/ out.PrivateKey = MaxStarts + 1

\* Every sidecar has the key of its directory, and none is of a start to come.
OverlayInv ==
    \A p \in overlays :
        /\ p.id # 0 /\ (p.dir \in Dirs => p.id = key[p.dir])
        /\ p.start \in 0..starts
        /\ pc \in {"key", "conf", "spawn"} => p.start # starts

ExitInv ==
    /\ DOMAIN exits = Owners
    /\ \A o \in Owners : ValidQuota(exits[o].quota)
    /\ ServesTheListed
    /\ QuotaAsAsked

IInv == ControlInv /\ DiskInv /\ OverlayInv /\ SidecarAsConfigured /\ ExitInv

LEMMA NoOfferValid == ValidQuota(NoOffer.quota)
BY DEF NoOffer, Offer, ValidQuota

LEMMA InitIInv == Init => IInv
<1> SUFFICES ASSUME Init PROVE IInv
  OBVIOUS
<1> USE DEF Init
<1>1. ControlInv
  <2>1. 0 \in 0..MaxEdits /\ 0 \in 0..MaxStarts
    BY ConfigAssumption, SMT
  <2> QED  BY <2>1, BlankSettings DEF ControlInv
<1>2. DiskInv
  <2>1. 0 \in 0..MaxStarts
    BY ConfigAssumption, SMT
  <2> QED  BY <2>1 DEF DiskInv
<1>3. OverlayInv /\ SidecarAsConfigured
  BY DEF OverlayInv, SidecarAsConfigured
<1>4. ExitInv
  BY NoOfferValid DEF ExitInv, ServesTheListed, QuotaAsAsked
<1> QED  BY <1>1, <1>2, <1>3, <1>4 DEF IInv

LEMMA ControlStep == ASSUME IInv, [Next]_vars PROVE ControlInv'
<1> USE DEF IInv, ControlInv, disk
<1>1. CASE Edit
  <2>1. Settings(file')
    <3>1. PICK k \in DOMAIN Texts : \E text \in Texts[k] \cup {Unset} :
              file' = [file EXCEPT ![k] = text]
      BY <1>1 DEF Edit
    <3> QED  BY <3>1, FieldsOfTexts DEF Settings
  <2>2. edits' \in 0..MaxEdits
    BY <1>1, ConfigAssumption, SMT DEF Edit
  <2> QED  BY <1>1, <2>1, <2>2 DEF Edit
<1>2. CASE Load
  <2>1. starts' \in 0..MaxStarts /\ starts' \in Start
    BY <1>2, ConfigAssumption, SMT DEF Load, Start
  <2>2. pc' \in {"off", "key", "wait"} /\ (pc' # "off" => Valid(file))
    BY <1>2 DEF Load
  <2>3. loaded' = file /\ file' = file /\ edits' = edits
    BY <1>2 DEF Load
  <2>4. Valid(loaded') = Valid(file)
    BY <2>3
  <2> QED  BY <2>1, <2>2, <2>3, <2>4
<1>3. ASSUME UNCHANGED <<file, edits, starts, loaded>>,
             pc' = pc \/ pc' = "off"
                \/ (pc # "off" /\ pc' \in {"conf", "spawn", "wait", "serve", "leech"})
      PROVE  ControlInv'
  BY <1>3, Zenon
<1>4. CASE PrepareKey \/ WriteConfig \/ Spawn \/ OverlayUp \/ End \/ Crash
  BY <1>3, <1>4 DEF PrepareKey, WriteConfig, Spawn, OverlayUp, End, Crash
<1>5. CASE RunGenconf \/ StartByHand \/ RunExit \/ Dies \/ Finished \/ UNCHANGED vars
  BY <1>3, <1>5 DEF RunGenconf, StartByHand, RunExit, Dies, Finished, vars
<1> QED  BY <1>1, <1>2, <1>4, <1>5 DEF Next

\* The steps that touch neither the daemon's start nor the state directories.
Aside ==
    \/ Edit \/ RunGenconf \/ StartByHand \/ RunExit \/ Dies \/ Finished
    \/ UNCHANGED vars

LEMMA AsideKeeps ==
    ASSUME Aside PROVE UNCHANGED <<pc, starts, loaded, key, conf>>
BY DEF Aside, Edit, RunGenconf, StartByHand, RunExit, Dies, Finished, vars, disk

LEMMA GenconfKey ==
    ASSUME NEW f, NEW path, NEW fresh PROVE GenerateConfig(f, path, fresh).PrivateKey = fresh
BY DEF GenerateConfig, ApplyToBaseConfig, Genconf

LEMMA DiskStep == ASSUME IInv, [Next]_vars PROVE DiskInv'
<1> USE DEF IInv, DiskInv, disk
<1>1. Settings(loaded) /\ starts \in 0..MaxStarts /\ (pc # "off" => starts \in Start)
  BY DEF ControlInv
<1>2. StateDir(loaded) \in Dirs
  BY <1>1, Parsed
<1>3. CASE PrepareKey
  <2>1. starts \in 0..MaxStarts /\ starts # 0
    BY <1>1, <1>3, SMT DEF PrepareKey, Start
  <2>2. key' = [key EXCEPT ![StateDir(loaded)] = IF @ = 0 THEN starts ELSE @]
        /\ pc' = "conf" /\ loaded' = loaded /\ conf' = conf /\ out' = out
    BY <1>3 DEF PrepareKey
  <2>3. key' \in [Dirs -> 0..MaxStarts] /\ key'[StateDir(loaded)] # 0
    BY <1>2, <2>1, <2>2
  <2>4. StateDir(loaded)' = StateDir(loaded)
    BY <2>2
  <2> QED  BY <2>2, <2>3, <2>4
<1>4. CASE WriteConfig
  <2>1. /\ conf' = [conf EXCEPT ![StateDir(loaded)] =
                        GenerateConfig(loaded, StateDir(loaded), starts)]
        /\ pc = "conf" /\ loaded' = loaded /\ starts' = starts /\ key' = key /\ out' = out
    BY <1>4 DEF WriteConfig
  <2>2. DOMAIN conf' = Dirs
        /\ conf'[StateDir(loaded)] = GenerateConfig(loaded, StateDir(loaded), starts)
    BY <1>2, <2>1
  <2>3. StateDir(loaded)' = StateDir(loaded)
        /\ GenerateConfig(loaded, StateDir(loaded), starts)'
               = GenerateConfig(loaded, StateDir(loaded), starts)
    BY <2>1 DEF GenerateConfig
  <2> QED  BY <2>1, <2>2, <2>3
<1>5. CASE Load \/ Spawn \/ OverlayUp \/ End \/ Crash
  <2>1. /\ pc' \notin {"conf", "spawn"}
        /\ key' = key /\ conf' = conf /\ out' = out
    BY <1>5 DEF Load, Spawn, OverlayUp, End, Crash
  <2> QED  BY <2>1
<1>6. CASE Aside
  <2>1. pc' = pc /\ starts' = starts /\ loaded' = loaded /\ key' = key /\ conf' = conf
    BY <1>6, AsideKeeps
  <2>2. StateDir(loaded)' = StateDir(loaded)
        /\ GenerateConfig(loaded, StateDir(loaded), starts)'
               = GenerateConfig(loaded, StateDir(loaded), starts)
    BY <2>1 DEF GenerateConfig
  <2>3. out' = NoConf \/ out'.PrivateKey = MaxStarts + 1
    <3>1. out' = out \/ \E path : out' = GenerateConfig(file, path, MaxStarts + 1)
      BY <1>6 DEF Aside, Edit, RunGenconf, StartByHand, RunExit, Dies, Finished, vars
    <3> QED  BY <3>1, GenconfKey
  <2> QED  BY <2>1, <2>2, <2>3
<1> QED  BY <1>3, <1>4, <1>5, <1>6 DEF Next, Aside

\* What the sidecar of this start finds when it starts.
LEMMA Spawned ==
    ASSUME IInv, Spawn
    PROVE  /\ overlays' = overlays \cup {Overlay(starts, StateDir(loaded), key[StateDir(loaded)],
                                                 conf[StateDir(loaded)])}
           /\ conf[StateDir(loaded)] = GenerateConfig(loaded, StateDir(loaded), starts)
           /\ GenerateConfig(loaded, StateDir(loaded), starts).PrivateKeyPath = StateDir(loaded)
           /\ key[StateDir(loaded)] # 0
<1>1. /\ conf[StateDir(loaded)] = GenerateConfig(loaded, StateDir(loaded), starts)
      /\ key[StateDir(loaded)] # 0
  BY DEF Spawn, IInv, DiskInv
<1>2. GenerateConfig(loaded, StateDir(loaded), starts).PrivateKeyPath = StateDir(loaded)
  BY DEF GenerateConfig, ApplyToBaseConfig, Genconf, Or
<1> QED  BY <1>1, <1>2 DEF Spawn

LEMMA OverlayStep == ASSUME IInv, [Next]_vars PROVE OverlayInv'
<1> SUFFICES ASSUME NEW p \in overlays'
             PROVE  /\ p.id # 0 /\ (p.dir \in Dirs => p.id = key'[p.dir])
                    /\ p.start \in 0..(starts')
                    /\ pc' \in {"key", "conf", "spawn"} => p.start # starts'
  BY DEF OverlayInv
<1>1. /\ starts \in 0..MaxStarts /\ (pc # "off" => starts # 0)
      /\ key \in [Dirs -> 0..MaxStarts] /\ StateDir(loaded) \in Dirs
  BY Parsed, SMT DEF IInv, ControlInv, DiskInv, Start
<1>2. ASSUME p \in overlays
      PROVE  /\ p.id # 0 /\ (p.dir \in Dirs => p.id = key[p.dir])
             /\ p.start \in 0..starts
             /\ pc \in {"key", "conf", "spawn"} => p.start # starts
  BY <1>2 DEF IInv, OverlayInv
<1>3. CASE Load
  <2>1. p \in overlays /\ key' = key /\ starts' = starts + 1
    BY <1>3 DEF Load, disk
  <2>2. p.start \in 0..starts /\ starts \in Nat
    BY <1>1, <1>2, <2>1
  <2>3. p.start \in 0..(starts + 1) /\ p.start # starts + 1
    BY <2>2, SMT
  <2> QED  BY <1>2, <2>1, <2>3
<1>4. CASE PrepareKey
  <2>1. /\ p \in overlays /\ starts' = starts /\ pc = "key"
        /\ key' = [key EXCEPT ![StateDir(loaded)] = IF @ = 0 THEN starts ELSE @]
    BY <1>4 DEF PrepareKey
  <2>2. p.dir \in Dirs => p.id = key'[p.dir]
    BY <1>1, <1>2, <2>1
  <2> QED  BY <1>2, <2>1, <2>2
<1>5. CASE WriteConfig
  BY <1>2, <1>5 DEF WriteConfig
<1>6. CASE Spawn
  <2>1. key' = key /\ starts' = starts /\ pc' = "wait"
    BY <1>6 DEF Spawn, disk
  <2>2. CASE p \in overlays
    BY <1>2, <2>1, <2>2
  <2>3. CASE p = Overlay(starts, StateDir(loaded), key[StateDir(loaded)], conf[StateDir(loaded)])
    <3>1. p.start = starts /\ p.dir = StateDir(loaded) /\ p.id = key[StateDir(loaded)]
      BY <2>3 DEF Overlay
    <3>2. starts \in 0..starts
      BY <1>1, SMT
    <3> QED  BY <1>6, <2>1, <3>1, <3>2, Spawned
  <2> QED  BY <1>6, <2>2, <2>3, Spawned
<1>7. CASE OverlayUp \/ End \/ Crash
  <2>1. p \in overlays /\ key' = key /\ starts' = starts /\ pc' \notin {"key", "conf", "spawn"}
    BY <1>7 DEF OverlayUp, End, Crash, disk
  <2> QED  BY <1>2, <2>1
<1>8. CASE Aside
  <2>1. pc' = pc /\ starts' = starts /\ key' = key
    BY <1>8, AsideKeeps
  <2>2. CASE p \in overlays
    BY <1>2, <2>1, <2>2
  <2>3. CASE out # NoConf /\ p = Overlay(0, Outside, out.PrivateKey, out)
    <3>1. p.start = 0 /\ p.dir \notin Dirs /\ p.id = MaxStarts + 1
      BY <2>3, ConfigAssumption DEF Overlay, Outside, IInv, DiskInv
    <3>2. MaxStarts + 1 # 0 /\ 0 \in 0..starts
      BY <1>1, ConfigAssumption, SMT
    <3>3. pc \in {"key", "conf", "spawn"} => starts # 0
      BY <1>1
    <3> QED  BY <2>1, <3>1, <3>2, <3>3
  <2> QED
    BY <1>8, <2>2, <2>3
       DEF Aside, Edit, RunGenconf, StartByHand, RunExit, Dies, Finished, vars
<1> QED  BY <1>3, <1>4, <1>5, <1>6, <1>7, <1>8 DEF Next, Aside

\* The generated configuration says what the settings say, and else yggdrasil's default.
LEMMA Generated ==
    ASSUME NEW f, Settings(f), NEW fresh, NEW c, c = GenerateConfig(f, StateDir(f), fresh)
    PROVE  /\ c.AdminListen = Admin(f) /\ c.PrivateKeyPath = StateDir(f)
           /\ c.Peers = Or(f.peers, "generated") /\ c.Listen = Or(f.listen, "generated")
           /\ c.MulticastInterfaces = Or(f.multicast, "generated")
           /\ c.AllowedPublicKeys # "generated" <=> f.keys # Unset
<1>1. /\ c.AdminListen = Admin(f) /\ c.PrivateKeyPath = StateDir(f)
      /\ c.Peers = Or(f.peers, "generated") /\ c.Listen = Or(f.listen, "generated")
      /\ c.MulticastInterfaces = Or(f.multicast, "generated")
      /\ c.AllowedPublicKeys = Or(PublicKeyHex(f.keys), "generated")
  BY DEF GenerateConfig, ApplyToBaseConfig, Genconf, Or
<1>2. Or(PublicKeyHex(f.keys), "generated") # "generated" <=> f.keys # Unset
  BY Parsed, ConfigAssumption DEF Or, PublicKeyHex
<1> QED  BY <1>1, <1>2

LEMMA SidecarStep == ASSUME IInv, [Next]_vars PROVE SidecarAsConfigured'
<1> SUFFICES ASSUME NEW p \in overlays', p.start = starts', pc' # "off"
             PROVE  (/\ p.conf.AdminListen = Admin(loaded)
                     /\ p.conf.PrivateKeyPath = StateDir(loaded) /\ p.id = key[StateDir(loaded)]
                     /\ p.conf.Peers = Or(loaded.peers, "generated")
                     /\ p.conf.Listen = Or(loaded.listen, "generated")
                     /\ p.conf.MulticastInterfaces = Or(loaded.multicast, "generated")
                     /\ p.conf.AllowedPublicKeys # "generated" <=> loaded.keys # Unset)'
  BY DEF SidecarAsConfigured
<1>1. starts \in 0..MaxStarts /\ (pc # "off" => starts # 0) /\ Settings(loaded)
  BY SMT DEF IInv, ControlInv, Start
<1>2. ASSUME p \in overlays
      PROVE  p.start \in 0..starts /\ (pc \in {"key", "conf", "spawn"} => p.start # starts)
  BY <1>2 DEF IInv, OverlayInv
<1>3. CASE Load
  <2>1. p \in overlays /\ starts' = starts + 1
    BY <1>3 DEF Load
  <2>2. p.start \in 0..starts /\ starts \in Nat
    BY <1>1, <1>2, <2>1
  <2> QED  BY <2>1, <2>2, SMT
<1>4. CASE PrepareKey \/ WriteConfig
  <2>1. p \in overlays /\ starts' = starts /\ pc \in {"key", "conf"}
    BY <1>4 DEF PrepareKey, WriteConfig
  <2> QED  BY <1>2, <2>1
<1>5. CASE Spawn
  <2>1. starts' = starts /\ loaded' = loaded /\ key' = key /\ pc = "spawn"
    BY <1>5 DEF Spawn, disk
  <2>2. p = Overlay(starts, StateDir(loaded), key[StateDir(loaded)], conf[StateDir(loaded)])
    BY <1>2, <1>5, <2>1, Spawned
  <2>3. /\ p.id = key[StateDir(loaded)]
        /\ p.conf = GenerateConfig(loaded, StateDir(loaded), starts)
    BY <1>5, <2>2, Spawned DEF Overlay
  <2>4. StateDir(loaded)' = StateDir(loaded) /\ Admin(loaded)' = Admin(loaded)
    BY <2>1
  <2>5. /\ p.conf.AdminListen = Admin(loaded) /\ p.conf.PrivateKeyPath = StateDir(loaded)
        /\ p.conf.Peers = Or(loaded.peers, "generated")
        /\ p.conf.Listen = Or(loaded.listen, "generated")
        /\ p.conf.MulticastInterfaces = Or(loaded.multicast, "generated")
        /\ p.conf.AllowedPublicKeys # "generated" <=> loaded.keys # Unset
    BY <1>1, <2>3, Generated
  <2> QED  BY <2>1, <2>3, <2>4, <2>5 DEF Or
<1>6. CASE OverlayUp \/ End \/ Crash \/ Aside
  <2>1. starts' = starts /\ loaded' = loaded /\ key' = key /\ pc # "off"
    BY <1>6, AsideKeeps DEF OverlayUp, End, Crash, disk
  <2>2. p \in overlays
    <3>1. p \in overlays \/ (out # NoConf /\ p = Overlay(0, Outside, out.PrivateKey, out))
      BY <1>6 DEF OverlayUp, End, Crash, Aside, Edit, RunGenconf, StartByHand, RunExit,
                  Dies, Finished, vars
    <3>2. Overlay(0, Outside, out.PrivateKey, out).start = 0
      BY DEF Overlay
    <3> QED  BY <1>1, <2>1, <3>1, <3>2
  <2>3. StateDir(loaded)' = StateDir(loaded) /\ Admin(loaded)' = Admin(loaded)
    BY <2>1
  <2> QED  BY <2>1, <2>2, <2>3 DEF IInv, SidecarAsConfigured, Or
<1> QED  BY <1>3, <1>4, <1>5, <1>6 DEF Next, Aside

-----------------------------------------------------------------------------
(***************************************************************************)
(* The exits, one by one.                                                  *)
(***************************************************************************)
Listed(o, x) ==
    \A source \in Sources : IsAllowed(x.list, source) =>
        \/ x.asked.allow = source
        \/ /\ x.asked.allow = Unset /\ source = Loopback
           /\ o = "daemon" => x.at.explicit = Loopback

Asked(o, x) ==
    Or(x.asked.quota, DefaultMib) # 0 =>
        /\ AtLeast(Or(x.asked.quota, DefaultMib), Mib, x.quota.bytes) /\ x.quota.bytes # 0
        /\ AtLeast(Or(x.asked.hours, DefaultHours), Hour, x.quota.window) \/ o = "sn-exit"
        /\ x.quota.window # 0

Honest(o, x) == ValidQuota(x.quota) /\ (x # NoOffer => Listed(o, x) /\ Asked(o, x))

LEMMA HonestExits ==
    DOMAIN exits = Owners => (ExitInv <=> \A o \in Owners : Honest(o, exits[o]))
BY DEF ExitInv, Honest, Listed, Asked, ServesTheListed, QuotaAsAsked

\* An allowlist made from a setting has its entry, or nobody but loopback clients.
LEMMA AllowedSources ==
    ASSUME NEW text, NEW source \in Sources, IsAllowed(SourceAllowlist(text), source)
    PROVE  text = source \/ (text = Unset /\ source = Loopback)
BY DEF IsAllowed, SourceAllowlist

LEMMA DaemonHonest ==
    ASSUME NEW f, Settings(f), Valid(f), Enabled(f), NEW id, NEW x,
           x = Offer(f, Resolve(f, id), SourceAllowlist(f.allow), Quota(f))
    PROVE  Honest("daemon", x)
<1>1. /\ x.asked = f /\ x.at = Resolve(f, id) /\ x.list = SourceAllowlist(f.allow)
      /\ x.quota = Quota(f)
  BY DEF Offer
<1>2. ValidExit(f) /\ ValidQuota(Quota(f))
  BY Zenon DEF Valid, ValidExit
<1>3. f.allow = Unset => ExplicitBind(f) = Loopback
  BY <1>2, Zenon DEF ValidExit
<1>4. Listed("daemon", x)
  <2> SUFFICES ASSUME NEW source \in Sources, IsAllowed(SourceAllowlist(f.allow), source)
               PROVE  \/ f.allow = source
                      \/ /\ f.allow = Unset /\ source = Loopback
                         /\ Resolve(f, id).explicit = Loopback
    BY <1>1 DEF Listed
  <2>1. ExplicitBind(f) = Loopback => Resolve(f, id).explicit = Loopback
    BY DEF Resolve, Address
  <2> QED  BY <1>3, <2>1, AllowedSources
<1>5. Asked("daemon", x)
  BY <1>1, <1>2, DaemonQuota DEF Asked
<1> QED  BY <1>1, <1>2, <1>4, <1>5 DEF Honest

LEMMA CliHonest ==
    ASSUME NEW f, Settings(f), ValidQuota(CliQuota(f)), NEW at, NEW x,
           x = Offer(f, at, SourceAllowlist(f.allow), CliQuota(f))
    PROVE  Honest("sn-exit", x)
<1>1. x.asked = f /\ x.list = SourceAllowlist(f.allow) /\ x.quota = CliQuota(f)
  BY DEF Offer
<1>2. Listed("sn-exit", x)
  BY <1>1, AllowedSources DEF Listed
<1>3. Asked("sn-exit", x)
  BY <1>1, ExitQuota DEF Asked
<1> QED  BY <1>1, <1>2, <1>3 DEF Honest

LEMMA ExitStep == ASSUME IInv, [Next]_vars PROVE ExitInv'
<1>1. DOMAIN exits = Owners /\ \A o \in Owners : Honest(o, exits[o])
  BY HonestExits DEF IInv, ExitInv
<1>2. ASSUME NEW o \in Owners, NEW x, Honest(o, x), exits' = [exits EXCEPT ![o] = x]
      PROVE  DOMAIN exits' = Owners /\ \A q \in Owners : Honest(q, exits'[q])
  BY <1>1, <1>2
<1>3. \A o \in Owners : Honest(o, NoOffer)
  BY NoOfferValid DEF Honest
<1>4. DOMAIN exits' = Owners /\ \A o \in Owners : Honest(o, exits'[o])
  <2>1. CASE UNCHANGED exits
    BY <1>1, <2>1
  <2>2. CASE OverlayUp
    <3>1. \/ UNCHANGED exits
          \/ Enabled(loaded) /\ pc = "wait" /\ \E p \in Listening : Serve(p)
      BY <2>2 DEF OverlayUp
    <3>2. ASSUME Enabled(loaded), pc = "wait", NEW p \in Listening, Serve(p)
          PROVE  DOMAIN exits' = Owners /\ \A o \in Owners : Honest(o, exits'[o])
      <4> DEFINE x == Offer(loaded, Resolve(loaded, p.id), SourceAllowlist(loaded.allow),
                            Quota(loaded))
      <4>1. Settings(loaded) /\ Valid(loaded)
        BY <3>2 DEF IInv, ControlInv
      <4>2. Honest("daemon", x)
        BY <3>2, <4>1, DaemonHonest
      <4>3. exits' = [exits EXCEPT !["daemon"] = x]
        BY <3>2 DEF Serve
      <4> HIDE DEF x
      <4> QED  BY <1>2, <4>2, <4>3 DEF Owners
    <3> QED  BY <2>1, <3>1, <3>2
  <2>3. CASE End \/ Crash
    <3>1. exits' = [exits EXCEPT !["daemon"] = NoOffer]
      BY <2>3 DEF End, Crash
    <3> QED  BY <1>2, <1>3, <3>1 DEF Owners
  <2>4. CASE RunExit
    <3> DEFINE x == Offer(file, Address(Or(file.bind, Loopback), 0),
                          SourceAllowlist(file.allow), CliQuota(file))
    <3>1. exits' = [exits EXCEPT !["sn-exit"] = x] /\ ValidQuota(CliQuota(file))
      BY <2>4 DEF RunExit
    <3>2. Honest("sn-exit", x)
      BY <3>1, CliHonest DEF IInv, ControlInv
    <3> HIDE DEF x
    <3> QED  BY <1>2, <3>1, <3>2 DEF Owners
  <2> QED
    BY <2>1, <2>2, <2>3, <2>4
       DEF Next, Edit, Load, PrepareKey, WriteConfig, Spawn, RunGenconf, StartByHand, Dies,
           Finished, vars
<1> QED
  BY <1>4 DEF ExitInv, Honest, Listed, Asked, ServesTheListed, QuotaAsAsked

LEMMA IInvHolds == Spec => []IInv
<1>1. Init => IInv  BY InitIInv
<1>2. IInv /\ [Next]_vars => IInv'
  BY ControlStep, DiskStep, OverlayStep, SidecarStep, ExitStep DEF IInv
<1> QED  BY <1>1, <1>2, PTL DEF Spec

-----------------------------------------------------------------------------

\* Types, and what the daemon has at each point of a start (daemon.rs, daemon_config.rs).
THEOREM ConfigTypeCorrect == Spec => []TypeOK
<1>1. IInv => TypeOK
  BY FieldsOfTexts
     DEF IInv, ControlInv, DiskInv, OverlayInv, ExitInv, TypeOK, Settings
<1> QED  BY <1>1, IInvHolds, PTL

\* The sidecar of a start runs with the settings that start has read (generate_config).
THEOREM SidecarAlwaysAsConfigured == Spec => []SidecarAsConfigured
<1>1. IInv => SidecarAsConfigured  BY DEF IInv
<1> QED  BY <1>1, IInvHolds, PTL

\* An exit serves only who its settings list (validate_exit, SourceAllowlist).
THEOREM OnlyTheListedServed == Spec => []ServesTheListed
<1>1. IInv => ServesTheListed  BY DEF IInv, ExitInv
<1> QED  BY <1>1, IInvHolds, PTL

\* No quota shrinks by overflow (validate_exit, and the bytes of sn-exit).
THEOREM QuotasAsAsked == Spec => []QuotaAsAsked
<1>1. IInv => QuotaAsAsked  BY DEF IInv, ExitInv
<1> QED  BY <1>1, IInvHolds, PTL

\* The exit is bound to the address of the key in the state directory, also if an orphaned
\* sidecar answers (ExitBind::resolve, spawn_sidecar).
THEOREM ExitBindsOwnAddress == Spec => BindsOwnAddress
<1> DEFINE A == /\ pc = "wait" /\ pc' = "serve"
                /\ Manage(loaded) /\ ExplicitBind(loaded) = Unset
                /\ \A p \in Listening : p.dir = StateDir(loaded)
                => exits'["daemon"].at = Address(Unset, key[StateDir(loaded)])
<1>1. IInv /\ [Next]_vars => [A]_vars
  <2> SUFFICES ASSUME IInv, Next, pc = "wait", pc' = "serve", ExplicitBind(loaded) = Unset,
                      \A p \in Listening : p.dir = StateDir(loaded)
               PROVE  exits'["daemon"].at = Address(Unset, key[StateDir(loaded)])
    OBVIOUS
  <2>1. OverlayUp
    BY DEF Next, Edit, Load, PrepareKey, WriteConfig, Spawn, End, Crash, RunGenconf,
           StartByHand, RunExit, Dies, Finished, vars
  <2>2. PICK p \in Listening : Serve(p)
    BY <2>1 DEF OverlayUp
  <2>3. p.id = key[StateDir(loaded)]
    <3>1. StateDir(loaded) \in Dirs
      BY Parsed DEF IInv, ControlInv
    <3> QED  BY <2>2, <3>1 DEF Listening, IInv, OverlayInv
  <2>4. exits'["daemon"].at = Resolve(loaded, p.id)
    BY <2>2 DEF Serve, Offer, IInv, ExitInv, Owners
  <2> QED  BY <2>3, <2>4 DEF Resolve
<1> QED  BY <1>1, IInvHolds, PTL DEF Spec, BindsOwnAddress
=============================================================================
