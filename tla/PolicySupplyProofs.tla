-------------------------- MODULE PolicySupplyProofs --------------------------
(***************************************************************************)
(* Proofs about PolicySupply: what is in force on a supervised host is     *)
(* what the last push handled to the end said, the supervisor enforces a   *)
(* pair that lay on the disk together, no Store loses a policy it has, an  *)
(* unsigned push never loosens, and a launch sees the first push.          *)
(***************************************************************************)
EXTENDS PolicySupply, WellFoundedInduction, TLAPS

RuleSets == {0} \cup {c.rules : c \in KindConfigs}
Ages     == {Local.age} \cup {c.age : c \in KindConfigs}
Payload  == [grant : 0..MaxCerts, rules : RuleSets, mode : Mode, age : Ages]
Handling == [pc : {"grant", "rules", "reload", "settings"}, p : Payload, signature : Signature,
             loaded : BOOLEAN]

\* What OnActorConfig and the ticker of the interception role hold between two steps.
WorkInv ==
  /\ handler.pc # "idle" => handler \in Handling
  /\ tick.pc = "grant" => tick.grant \in 1..MaxCerts
  /\ handled \in Nat

\* Whatever a Store has, the files have: a reload finds no less.
CoverInv ==
  /\ tick.pc = "grant" => disk.grant # 0
  /\ sup.grant # 0 => disk.grant # 0
  /\ sup.rules # 0 => disk.rules # 0
  /\ icpt.grant # 0 => disk.grant # 0
  /\ icpt.rules # 0 => disk.rules # 0

PairInv == disk \in pairs /\ sup \in pairs

\* How far the push under way has come.
PushInv ==
  /\ handler.pc \in {"rules", "reload", "settings"} =>
       (handler.p.grant # 0 => disk.grant = handler.p.grant)
  /\ handler.pc \in {"reload", "settings"} =>
       (handler.p.rules # 0 => disk.rules = handler.p.rules)
  /\ handler.pc = "settings" =>
       (handler.loaded => sup.grant = disk.grant /\ sup.rules = disk.rules)

\* What the host was told holds throughout, a push that has reloaded and not yet ended apart.
ArtefactsHold ==
  last.artefacts # NoPush =>
    /\ last.artefacts.grant # 0 => sup.grant = last.artefacts.grant
    /\ last.artefacts.rules # 0 => sup.rules = last.artefacts.rules
SettingsHold ==
  last.settings # NoPush =>
    /\ last.settings.mode # Local.mode => settings.mode = last.settings.mode
    /\ last.settings.age # Local.age => settings.age = last.settings.age
ForceInv ==
  up => /\ SettingsHold
        /\ (handler.pc = "settings" => ~handler.loaded) => ArtefactsHold

LaunchInv == launch = "synced" => handled > 0

SupplyInv ==
  /\ TypeOK /\ WorkInv /\ CoverInv /\ PairInv /\ PushInv /\ LaunchInv
  /\ ForceInv /\ LaunchSeesFirstPush

-----------------------------------------------------------------------------
(* The newest active certificate.                                          *)

Before == {ss \in Nat \X Nat : ss[1] < ss[2]}

LEMMA HasLeast ==
  ASSUME NEW S \in SUBSET Nat, S # {}
  PROVE  \E l \in S : \A k \in S : l <= k
<1>1. IsWellFoundedOn(Before, Nat)
  BY NatLessThanWellFounded, Zenon DEF Before, OpToRel
<1>2. PICK l \in S : \A k \in S : ~(<<k, l>> \in Before) BY <1>1, WFMin, Zenon
<1>3. ASSUME NEW k \in S PROVE l <= k
  <2>1. l \in Nat /\ k \in Nat OBVIOUS
  <2>2. <<k, l>> \notin Before BY <1>2
  <2>3. k < l => <<k, l>> \in Before BY <2>1 DEF Before
  <2> QED BY <2>1, <2>2, <2>3
<1> QED BY <1>3

\* Certificates are numbered from 1, so the newest of some is one of them.
LEMMA TokenFacts ==
  ASSUME NEW n \in Nat, NEW S \in SUBSET (1..n)
  PROVE  /\ GrantToken(S) \in 0..n
         /\ S # {} => GrantToken(S) \in S
<1>1. CASE S = {} BY <1>1 DEF GrantToken
<1>2. CASE S # {}
  <2> DEFINE D == {n - k : k \in S}
  <2>1. D \in SUBSET Nat /\ D # {}
    <3>1. \A k \in S : n - k \in Nat OBVIOUS
    <3> QED BY <1>2, <3>1
  <2>2. PICK d \in D : \A e \in D : d <= e
    <3> HIDE DEF D
    <3> QED BY <2>1, HasLeast
  <2>3. PICK m \in S : d = n - m OBVIOUS
  <2>4. ASSUME NEW k \in S PROVE k <= m
    <3>1. n - m <= n - k BY <2>2, <2>3
    <3> QED BY <3>1
  <2>5. Max(S) \in S BY <2>4 DEF Max
  <2>6. GrantToken(S) = Max(S) BY <1>2 DEF GrantToken
  <2>7. \A k \in S : k \in 0..n OBVIOUS
  <2> HIDE DEF Max
  <2> QED BY <2>5, <2>6, <2>7
<1> QED BY <1>1, <1>2

-----------------------------------------------------------------------------
(* Types.                                                                  *)

LEMMA KeepFacts ==
  ASSUME NEW file, NEW token
  PROVE  /\ token # 0 => Keep(file, token) = token
         /\ file # 0 => Keep(file, token) # 0
         /\ Keep(file, token) \in {file, token}
BY DEF Keep

\* A Store ends a reload with what it had, or with what it read.
LEMMA LoadedFacts ==
  ASSUME NEW store, NEW g, NEW r
  PROVE  /\ r \in Unusable => Loaded(store, g, r) = store
         /\ r \notin Unusable => /\ Loaded(store, g, r) = [grant |-> g, rules |-> r]
                                 /\ Loaded(store, g, r).grant = g
                                 /\ Loaded(store, g, r).rules = r
BY DEF Loaded

LEMMA PairFields ==
  ASSUME NEW d \in Pair
  PROVE  /\ d.grant \in 0..MaxCerts /\ d.rules \in RuleSets
         /\ d = [grant |-> d.grant, rules |-> d.rules]
BY DEF Pair, RuleSets

LEMMA PayloadTyped ==
  ASSUME TypeOK, NEW p \in Payloads
  PROVE  p \in Payload
<1>1. PICK g \in grants, c \in rows :
        p = [grant |-> g, rules |-> c.rules, mode |-> c.mode, age |-> c.age]
  BY DEF Payloads
<1>2. g \in 0..MaxCerts /\ c \in KindConfigs BY DEF TypeOK
<1>3. c.rules \in RuleSets /\ c.mode \in Mode /\ c.age \in Ages
  BY <1>2, SupplyAssumption DEF RuleSets, Ages
<1> QED BY <1>1, <1>2, <1>3 DEF Payload

\* The settings a push leaves are the host's, or the push's own.
LEMMA SettingsTyped ==
  ASSUME NEW now \in [mode : Mode, age : Ages], NEW p \in Payload
  PROVE  /\ Verified(now, p) \in [mode : Mode, age : Ages]
         /\ Ratcheted(now, p) \in [mode : Mode, age : Ages]
BY DEF Verified, Ratcheted, Payload

\* Each artefact write is one step of the handler, and leaves a pair of types on the disk.
LEMMA WriteFacts ==
  ASSUME SupplyInv, WriteGrant \/ WriteRules
  PROVE  /\ handler \in Handling /\ handler' \in Handling
         /\ handler'.p = handler.p /\ handler'.signature = handler.signature
         /\ disk' \in Pair /\ pairs' = pairs \cup {disk'}
         /\ disk.grant # 0 => disk'.grant # 0
         /\ disk.rules # 0 => disk'.rules # 0
         /\ WriteGrant => /\ handler.pc = "grant" /\ handler'.pc = "rules"
                          /\ handler.p.grant # 0 => disk'.grant = handler.p.grant
         /\ WriteRules => /\ handler.pc = "rules" /\ handler'.pc = "reload"
                          /\ disk'.grant = disk.grant
                          /\ handler.p.rules # 0 => disk'.rules = handler.p.rules
<1>1. handler \in Handling BY DEF SupplyInv, WorkInv, WriteGrant, WriteRules
<1>2. disk \in Pair BY DEF SupplyInv, TypeOK
<1>3. handler.p \in Payload BY <1>1 DEF Handling
<1>4. handler.p.grant \in 0..MaxCerts /\ handler.p.rules \in RuleSets BY <1>3 DEF Payload
<1>5. CASE WriteGrant
  <2> DEFINE g == Keep(disk.grant, handler.p.grant)
  <2>1. disk' = [disk EXCEPT !.grant = g] /\ handler' = [handler EXCEPT !.pc = "rules"]
    BY <1>5 DEF WriteGrant
  <2>2. g \in 0..MaxCerts BY <1>2, <1>4, PairFields, KeepFacts
  <2>3. /\ handler.p.grant # 0 => g = handler.p.grant
        /\ disk.grant # 0 => g # 0
    BY KeepFacts
  <2> HIDE DEF g
  <2>4. disk' \in Pair /\ disk'.grant = g /\ disk'.rules = disk.rules
    BY <1>2, <2>1, <2>2 DEF Pair
  <2>5. /\ handler' \in Handling /\ handler'.p = handler.p /\ handler'.signature = handler.signature
        /\ handler'.pc = "rules"
    BY <1>1, <2>1 DEF Handling
  <2>6. handler.pc = "grant" /\ pairs' = pairs \cup {disk'} /\ ~WriteRules
    BY <1>5 DEF WriteGrant, WriteRules
  <2> QED BY <1>1, <2>3, <2>4, <2>5, <2>6
<1>6. CASE WriteRules
  <2> DEFINE r == Keep(disk.rules, handler.p.rules)
  <2>1. disk' = [disk EXCEPT !.rules = r] /\ handler' = [handler EXCEPT !.pc = "reload"]
    BY <1>6 DEF WriteRules
  <2>2. r \in RuleSets BY <1>2, <1>4, PairFields, KeepFacts
  <2>3. /\ handler.p.rules # 0 => r = handler.p.rules
        /\ disk.rules # 0 => r # 0
    BY KeepFacts
  <2> HIDE DEF r
  <2>4. disk' \in Pair /\ disk'.grant = disk.grant /\ disk'.rules = r
    BY <1>2, <2>1, <2>2 DEF Pair, RuleSets
  <2>5. /\ handler' \in Handling /\ handler'.p = handler.p /\ handler'.signature = handler.signature
        /\ handler'.pc = "reload"
    BY <1>1, <2>1 DEF Handling
  <2>6. handler.pc = "rules" /\ pairs' = pairs \cup {disk'} /\ ~WriteGrant
    BY <1>6 DEF WriteGrant, WriteRules
  <2> QED BY <1>1, <2>3, <2>4, <2>5, <2>6
<1> QED BY <1>5, <1>6

-----------------------------------------------------------------------------
(* The invariant, in two halves: the control plane with the connection, and the host.  *)

CentralTyped ==
  /\ config \in KindConfigs /\ issued \in 0..MaxCerts
  /\ live \subseteq 1..issued /\ expired \subseteq 1..issued
  /\ rows \subseteq KindConfigs /\ grants \subseteq 0..MaxCerts
  /\ linked => up /\ config \in rows /\ GrantToken(live) \in grants

HostTyped ==
  /\ handler.pc \in {"idle", "grant", "rules", "reload", "settings"}
  /\ handler.pc # "idle" => up
  /\ disk \in Pair /\ sup \in Pair /\ icpt \in Pair /\ pairs \subseteq Pair
  /\ sup.rules \notin Unusable /\ icpt.rules \notin Unusable
  /\ settings \in [mode : Mode, age : Ages]
  /\ launch \in {"waiting", "synced", "timeout"}

HostInv ==
  /\ HostTyped /\ WorkInv /\ CoverInv /\ PairInv /\ PushInv /\ LaunchInv
  /\ ForceInv /\ LaunchSeesFirstPush

LEMMA Halves == SupplyInv => CentralTyped /\ HostInv
BY DEF SupplyInv, TypeOK, CentralTyped, HostInv, HostTyped, Ages

LEMMA Whole == ASSUME CentralTyped', HostInv' PROVE SupplyInv'
BY DEF SupplyInv, TypeOK, CentralTyped, HostInv, HostTyped, Ages

LEMMA CentralStays ==
  ASSUME CentralTyped, UNCHANGED <<central, link, up>>
  PROVE  CentralTyped'
BY DEF CentralTyped, central, link

LEMMA HostStays ==
  ASSUME HostInv, UNCHANGED <<up, process, files, sup, tick, icpt>>
  PROVE  HostInv'
BY DEF HostInv, HostTyped, WorkInv, CoverInv, PairInv, PushInv, LaunchInv, ForceInv,
       ArtefactsHold, SettingsHold, LaunchSeesFirstPush, process, files

LEMMA ControlPlaneKeeps ==
  ASSUME SupplyInv, ControlPlane
  PROVE  SupplyInv'
<1>0. CentralTyped /\ HostInv BY Halves
<1>1. HostInv'
  <2>1. UNCHANGED <<up, process, files, sup, tick, icpt>>
    BY DEF ControlPlane, Edit, Certify, Expire, Connect, Disconnect, other
  <2> QED BY <1>0, <2>1, HostStays
<1>2. ASSUME Edit PROVE CentralTyped'
  BY <1>0, <1>2 DEF Edit, CentralTyped
<1>3. ASSUME Certify PROVE CentralTyped'
  <2>1. issued \in Nat /\ MaxCerts \in Nat /\ live \subseteq 1..issued
    BY <1>0, SupplyAssumption DEF CentralTyped
  <2>2. issued' \in 0..MaxCerts /\ live' \subseteq 1..issued' /\ expired' \subseteq 1..issued'
    <3>0. expired' = expired /\ expired \subseteq 1..issued BY <1>0, <1>3 DEF Certify, CentralTyped
    <3>1. CASE issued < MaxCerts /\ issued' = issued + 1 /\ live' = live \cup {issued'}
      <4>1. issued' \in Nat /\ issued' = issued + 1 /\ issued' <= MaxCerts BY <2>1, <3>1
      <4>2. ASSUME NEW k \in live' PROVE k \in 1..issued' BY <2>1, <3>1, <4>1
      <4>3. ASSUME NEW k \in expired' PROVE k \in 1..issued' BY <2>1, <3>0, <4>1
      <4> QED BY <2>1, <4>1, <4>2, <4>3
    <3>2. CASE UNCHANGED issued /\ \E c \in live : live' = live \ {c}
      BY <1>0, <2>1, <3>0, <3>2 DEF CentralTyped
    <3> QED BY <1>3, <3>1, <3>2 DEF Certify
  <2>3. issued' \in Nat /\ GrantToken(live') \in 0..issued' BY <2>1, <2>2, TokenFacts
  <2>4. GrantToken(live') \in 0..MaxCerts BY <2>1, <2>2, <2>3
  <2>5. UNCHANGED <<config, rows, linked, up>> /\ (linked => grants' = grants \cup {GrantToken(live')})
        /\ (~linked => grants' = grants)
    BY <1>3 DEF Certify
  <2> HIDE DEF GrantToken
  <2>6. grants' \subseteq 0..MaxCerts BY <1>0, <2>4, <2>5 DEF CentralTyped
  <2> QED BY <1>0, <2>2, <2>5, <2>6 DEF CentralTyped
<1>4. ASSUME Connect PROVE CentralTyped'
  <2>1. issued \in Nat /\ MaxCerts \in Nat /\ live \subseteq 1..issued /\ issued <= MaxCerts
    BY <1>0, SupplyAssumption DEF CentralTyped
  <2>2. GrantToken(live) \in 0..issued BY <2>1, TokenFacts
  <2>3. /\ UNCHANGED <<config, issued, live, expired, up>> /\ up
        /\ rows' = {config} /\ grants' = {GrantToken(live)}
    BY <1>4 DEF Connect, central
  <2>4. GrantToken(live)' = GrantToken(live) BY <2>3
  <2>5. grants' \subseteq 0..MaxCerts BY <2>1, <2>2, <2>3
  <2> QED BY <1>0, <2>3, <2>4, <2>5 DEF CentralTyped
<1>5. ASSUME Disconnect PROVE CentralTyped'
  BY <1>0, <1>5 DEF Disconnect, CentralTyped, central
<1>6. ASSUME Expire PROVE CentralTyped'
  BY <1>0, <1>6 DEF Expire, CentralTyped, link
<1> QED BY <1>1, <1>2, <1>3, <1>4, <1>5, <1>6, Whole DEF ControlPlane

\* OnActorConfig takes a message.
LEMMA ReceiveKeeps ==
  ASSUME SupplyInv, Receive
  PROVE  SupplyInv'
<1>0. CentralTyped /\ HostInv /\ TypeOK BY Halves DEF SupplyInv
<1>1. PICK p \in Payloads, s \in Signature :
        handler' = [pc |-> "grant", p |-> p, signature |-> s, loaded |-> FALSE]
  BY DEF Receive
<1>2. p \in Payload BY <1>0, PayloadTyped
<1>3. handler' \in Handling /\ handler'.pc = "grant" BY <1>1, <1>2 DEF Handling
<1>4. up /\ handler.pc = "idle" BY <1>0 DEF Receive, CentralTyped
<1>5. /\ UNCHANGED <<config, issued, live, expired, rows, grants, linked, up>>
      /\ UNCHANGED <<settings, launch, profile, handled, last, files, sup, tick, icpt>>
  BY DEF Receive, central, other
<1>6. CentralTyped' BY <1>0, <1>5 DEF CentralTyped
<1>7. HostTyped' /\ WorkInv' /\ CoverInv' /\ PairInv' /\ LaunchInv'
  BY <1>0, <1>3, <1>4, <1>5 DEF HostInv, HostTyped, WorkInv, CoverInv, PairInv, LaunchInv, files
<1>8. PushInv' /\ ForceInv'
  BY <1>0, <1>3, <1>4, <1>5 DEF HostInv, PushInv, ForceInv, ArtefactsHold, SettingsHold
<1>9. LaunchSeesFirstPush' BY <1>0, <1>4, <1>5 DEF HostInv, LaunchSeesFirstPush
<1> QED BY <1>6, <1>7, <1>8, <1>9, Whole DEF HostInv

\* An artefact is replaced.
LEMMA WriteKeeps ==
  ASSUME SupplyInv, WriteGrant \/ WriteRules
  PROVE  SupplyInv'
<1>0. CentralTyped /\ HostInv BY Halves
<1>1. UNCHANGED <<central, link, up, settings, launch, profile, handled, last, sup, tick, icpt>>
  BY DEF WriteGrant, WriteRules, other
<1>2. CentralTyped' BY <1>0, <1>1, CentralStays
<1>3. /\ handler \in Handling /\ handler' \in Handling /\ handler'.p = handler.p
      /\ disk' \in Pair /\ pairs' = pairs \cup {disk'}
      /\ disk.grant # 0 => disk'.grant # 0
      /\ disk.rules # 0 => disk'.rules # 0
      /\ handler.pc \in {"grant", "rules"} /\ handler'.pc \in {"rules", "reload"}
  BY WriteFacts
<1>4. HostTyped' BY <1>0, <1>1, <1>3 DEF HostInv, HostTyped
<1>5. WorkInv' /\ CoverInv' /\ PairInv' /\ LaunchInv'
  BY <1>0, <1>1, <1>3 DEF HostInv, WorkInv, CoverInv, PairInv, LaunchInv
<1>6. PushInv'
  <2>1. CASE WriteGrant BY <2>1, <1>3, WriteFacts DEF PushInv
  <2>2. CASE WriteRules BY <2>2, <1>0, <1>3, WriteFacts DEF HostInv, PushInv
  <2> QED BY <2>1, <2>2
<1>7. ForceInv'
  <2>1. handler.pc # "settings" /\ handler'.pc # "settings" BY <1>3
  <2> QED BY <1>0, <1>1, <2>1 DEF HostInv, ForceInv, ArtefactsHold, SettingsHold
<1>8. LaunchSeesFirstPush' BY <1>0, <1>1, <1>3 DEF HostInv, LaunchSeesFirstPush
<1> QED BY <1>2, <1>4, <1>5, <1>6, <1>7, <1>8, Whole DEF HostInv

LEMMA WriteFailsKeeps ==
  ASSUME SupplyInv, WriteFails
  PROVE  SupplyInv'
<1>0. CentralTyped /\ HostInv BY Halves
<1>1. /\ UNCHANGED <<central, link, up, settings, launch, profile, disk, pairs, sup, tick, icpt>>
      /\ handler' = Waiting /\ handled' = handled + 1 /\ last' = last
      /\ handler.pc # "settings"
  BY DEF WriteFails, files, other
<1>2. CentralTyped' BY <1>0, <1>1, CentralStays
<1>3. HostTyped' /\ WorkInv' /\ CoverInv' /\ PairInv' /\ LaunchInv' /\ PushInv'
  BY <1>0, <1>1
  DEF HostInv, HostTyped, WorkInv, CoverInv, PairInv, PushInv, LaunchInv, Waiting
<1>4. ForceInv'
  BY <1>0, <1>1 DEF HostInv, ForceInv, ArtefactsHold, SettingsHold, Waiting
<1>5. LaunchSeesFirstPush'
  BY <1>0, <1>1 DEF HostInv, WorkInv, LaunchInv, LaunchSeesFirstPush
<1> QED BY <1>2, <1>3, <1>4, <1>5, Whole DEF HostInv

\* Store.Reload: the pair on the disk, or what the Store had.
LEMMA ReloadKeeps ==
  ASSUME SupplyInv, Reload
  PROVE  SupplyInv'
<1>0. CentralTyped /\ HostInv BY Halves
<1>1. /\ UNCHANGED <<central, link, up, settings, launch, profile, handled, last, disk, pairs,
                     tick, icpt>>
      /\ sup' = IF Verifies(disk.grant) THEN Loaded(sup, disk.grant, disk.rules) ELSE sup
      /\ handler.pc = "reload"
      /\ handler' = [handler EXCEPT !.pc = "settings",
                       !.loaded = Verifies(disk.grant) /\ disk.rules \notin Unusable]
  BY DEF Reload, files, other
<1>2. CentralTyped' BY <1>0, <1>1, CentralStays
<1>3. handler \in Handling BY <1>0, <1>1 DEF HostInv, WorkInv
<1>4. /\ handler' \in Handling /\ handler'.pc = "settings" /\ handler'.p = handler.p
      /\ handler'.loaded <=> (Verifies(disk.grant) /\ disk.rules \notin Unusable)
  <2> DEFINE ok == Verifies(disk.grant) /\ disk.rules \notin Unusable
  <2>1. ok \in BOOLEAN OBVIOUS
  <2>2. handler' = [handler EXCEPT !.pc = "settings", !.loaded = ok] BY <1>1
  <2> HIDE DEF ok
  <2>3. /\ handler' \in Handling /\ handler'.pc = "settings" /\ handler'.p = handler.p
        /\ handler'.loaded = ok
    BY <1>3, <2>1, <2>2 DEF Handling
  <2> QED BY <2>3 DEF ok
<1>5. /\ ~handler'.loaded => sup' = sup
      /\ handler'.loaded => sup' = disk /\ disk.rules \notin Unusable
  <2>1. disk = [grant |-> disk.grant, rules |-> disk.rules]
    BY <1>0, PairFields DEF HostInv, HostTyped
  <2> QED BY <1>1, <1>4, <2>1, LoadedFacts
<1>6. HostTyped' BY <1>0, <1>1, <1>4, <1>5 DEF HostInv, HostTyped
<1>7. WorkInv' /\ CoverInv' /\ PairInv' /\ LaunchInv'
  BY <1>0, <1>1, <1>4, <1>5 DEF HostInv, WorkInv, CoverInv, PairInv, LaunchInv
<1>8. PushInv' BY <1>0, <1>1, <1>4, <1>5 DEF HostInv, PushInv
<1>9. ForceInv' /\ LaunchSeesFirstPush'
  BY <1>0, <1>1, <1>4, <1>5
  DEF HostInv, ForceInv, ArtefactsHold, SettingsHold, LaunchSeesFirstPush
<1> QED BY <1>2, <1>6, <1>7, <1>8, <1>9, Whole DEF HostInv

\* The push is handled to the end: what it said of the artefacts, if they verified, is
\* what the reload left, and its settings, if they were signed, are installed here.
LEMMA EndKeeps ==
  ASSUME SupplyInv, ApplySettings \/ RefuseSettings
  PROVE  SupplyInv'
<1> DEFINE p == handler.p
<1>0. CentralTyped /\ HostInv BY Halves
<1>1. /\ UNCHANGED <<central, link, up, launch, profile, disk, pairs, sup, tick, icpt>>
      /\ handler.pc = "settings" /\ handler' = Waiting /\ handled' = handled + 1
      /\ last'.artefacts = IF handler.loaded THEN p ELSE last.artefacts
  BY DEF ApplySettings, RefuseSettings, EndPush, files, other
<1>2. \/ settings' = Verified(settings, p) /\ last'.settings = p
      \/ settings' = Ratcheted(settings, p) /\ last'.settings = NoPush
      \/ settings' = settings /\ last'.settings = last.settings
  BY DEF ApplySettings, RefuseSettings, EndPush
<1>3. CentralTyped' BY <1>0, <1>1, CentralStays
<1>4. handler \in Handling /\ p \in Payload BY <1>0, <1>1 DEF HostInv, WorkInv, Handling
<1>5. settings' \in [mode : Mode, age : Ages]
  BY <1>0, <1>2, <1>4, SettingsTyped DEF HostInv, HostTyped
<1>6. HostTyped' BY <1>0, <1>1, <1>5 DEF HostInv, HostTyped, Waiting
<1>7. WorkInv' /\ CoverInv' /\ PairInv' /\ PushInv' /\ LaunchInv'
  BY <1>0, <1>1 DEF HostInv, WorkInv, CoverInv, PairInv, PushInv, LaunchInv, Waiting
<1>8. ForceInv'
  <2>1. handler.loaded =>
          /\ p.grant # 0 => sup.grant = p.grant
          /\ p.rules # 0 => sup.rules = p.rules
    BY <1>0, <1>1 DEF HostInv, PushInv
  <2>2. up => ArtefactsHold'
    BY <1>0, <1>1, <2>1 DEF HostInv, ForceInv, ArtefactsHold
  <2>3. ASSUME up PROVE SettingsHold'
    <3>1. CASE settings' = Verified(settings, p) /\ last'.settings = p
      BY <3>1 DEF Verified, SettingsHold
    <3>2. CASE last'.settings = NoPush BY <3>2 DEF SettingsHold
    <3>3. CASE settings' = settings /\ last'.settings = last.settings
      BY <1>0, <2>3, <3>3 DEF HostInv, ForceInv, SettingsHold
    <3> QED BY <1>2, <3>1, <3>2, <3>3
  <2> QED BY <1>1, <2>2, <2>3 DEF ForceInv
<1>9. LaunchSeesFirstPush'
  BY <1>0, <1>1 DEF HostInv, WorkInv, LaunchInv, LaunchSeesFirstPush
<1> QED BY <1>3, <1>6, <1>7, <1>8, <1>9, Whole DEF HostInv

LEMMA LaunchKeeps ==
  ASSUME SupplyInv, Launch \/ LaunchTimeout
  PROVE  SupplyInv'
<1>0. CentralTyped /\ HostInv BY Halves
<1>1. UNCHANGED <<central, link, up, handler, settings, handled, last, disk, pairs, sup, tick,
                  icpt>>
  BY DEF Launch, LaunchTimeout, files, other
<1>2. CentralTyped' BY <1>0, <1>1, CentralStays
<1>3. \/ launch' = "synced" /\ handled > 0 /\ profile' = sup.rules
      \/ launch' = "timeout"
  BY DEF Launch, LaunchTimeout
<1>4. HostTyped' /\ WorkInv' /\ CoverInv' /\ PairInv' /\ PushInv' /\ ForceInv'
  BY <1>0, <1>1, <1>3
  DEF HostInv, HostTyped, WorkInv, CoverInv, PairInv, PushInv, ForceInv, ArtefactsHold,
      SettingsHold
<1>5. LaunchInv' /\ LaunchSeesFirstPush' BY <1>1, <1>3 DEF LaunchInv, LaunchSeesFirstPush
<1> QED BY <1>2, <1>4, <1>5, Whole DEF HostInv

LEMMA CrashKeeps ==
  ASSUME SupplyInv, Crash
  PROVE  SupplyInv'
<1>0. CentralTyped /\ HostInv BY Halves
<1>1. /\ UNCHANGED <<config, issued, live, expired, settings, launch, profile, handled, last, disk,
                     pairs, sup, tick, icpt>>
      /\ up' = FALSE /\ linked' = FALSE /\ rows' = {} /\ grants' = {} /\ handler' = Waiting
  BY DEF Crash, central, files, other
<1>2. CentralTyped' BY <1>0, <1>1 DEF CentralTyped
<1>3. HostTyped' /\ WorkInv' /\ CoverInv' /\ PairInv' /\ PushInv' /\ LaunchInv'
  BY <1>0, <1>1
  DEF HostInv, HostTyped, WorkInv, CoverInv, PairInv, PushInv, LaunchInv, Waiting
<1>4. ForceInv' /\ LaunchSeesFirstPush' BY <1>1 DEF ForceInv, LaunchSeesFirstPush
<1> QED BY <1>2, <1>3, <1>4, Whole DEF HostInv

LEMMA StartKeeps ==
  ASSUME SupplyInv, Start
  PROVE  SupplyInv'
<1>0. CentralTyped /\ HostInv BY Halves
<1>1. /\ UNCHANGED <<central, link, handler, disk, pairs, tick, icpt>>
      /\ ~up /\ up' = TRUE /\ disk.rules \notin Unusable /\ sup' = disk /\ settings' = Local
      /\ launch' = "waiting" /\ profile' = 0 /\ handled' = 0 /\ last' = Untold
  BY DEF Start, files, other
<1>2. CentralTyped' BY <1>0, <1>1 DEF CentralTyped, central, link
<1>3. handler.pc = "idle" BY <1>0, <1>1 DEF HostInv, HostTyped
<1>4. settings' \in [mode : Mode, age : Ages]
  <2>1. Local \in [mode : Mode, age : Int] /\ Local.age \in Ages BY SupplyAssumption DEF Ages
  <2> QED BY <1>1, <2>1
<1>5. HostTyped' BY <1>0, <1>1, <1>3, <1>4 DEF HostInv, HostTyped
<1>6. WorkInv' /\ CoverInv' /\ PairInv' /\ PushInv' /\ LaunchInv'
  BY <1>0, <1>1, <1>3 DEF HostInv, WorkInv, CoverInv, PairInv, PushInv, LaunchInv
<1>7. ForceInv' /\ LaunchSeesFirstPush'
  BY <1>1 DEF ForceInv, ArtefactsHold, SettingsHold, LaunchSeesFirstPush, Untold
<1> QED BY <1>2, <1>5, <1>6, <1>7, Whole DEF HostInv

\* The interception role's two reads.
LEMMA TickKeeps ==
  ASSUME SupplyInv, TickGrant \/ TickRules
  PROVE  SupplyInv'
<1>0. CentralTyped /\ HostInv BY Halves
<1>1. UNCHANGED <<central, link, up, handler, settings, launch, profile, handled, last, disk,
                  pairs, sup>>
  BY DEF TickGrant, TickRules, process, files
<1>2. CentralTyped' BY <1>0, <1>1, CentralStays
<1>3. disk \in Pair /\ icpt \in Pair BY <1>0 DEF HostInv, HostTyped
<1>4. /\ PairInv' /\ PushInv' /\ LaunchInv' /\ ForceInv' /\ LaunchSeesFirstPush'
  BY <1>0, <1>1 DEF HostInv, PairInv, PushInv, LaunchInv, ForceInv, ArtefactsHold, SettingsHold,
                    LaunchSeesFirstPush
<1>5. CASE TickGrant
  <2>1. /\ icpt' = icpt /\ disk.grant # 0
        /\ tick' = [pc |-> "grant", grant |-> disk.grant]
    BY <1>5 DEF TickGrant
  <2>2. tick'.grant \in 1..MaxCerts
    <3>1. disk.grant \in 0..MaxCerts BY <1>3, PairFields
    <3> QED BY <2>1, <3>1, SupplyAssumption
  <2>3. HostTyped' /\ WorkInv' /\ CoverInv'
    BY <1>0, <1>1, <2>1, <2>2 DEF HostInv, HostTyped, WorkInv, CoverInv
  <2> QED BY <1>2, <1>4, <2>3, Whole DEF HostInv
<1>6. CASE TickRules
  <2>1. /\ tick.pc = "grant" /\ icpt' = Loaded(icpt, tick.grant, disk.rules)
        /\ tick' = [pc |-> "idle"]
    BY <1>6 DEF TickRules
  <2>2. tick.grant \in 0..MaxCerts BY <1>0, <2>1, SupplyAssumption DEF HostInv, WorkInv
  <2>3. disk.rules \in RuleSets BY <1>3, PairFields
  <2>4. /\ icpt' \in Pair /\ icpt'.rules \notin Unusable
        /\ icpt'.rules # 0 => disk.rules # 0
    <3>1. CASE disk.rules \in Unusable
      <4>1. icpt' = icpt BY <2>1, <3>1, LoadedFacts
      <4> QED BY <1>0, <4>1 DEF HostInv, HostTyped, CoverInv
    <3>2. CASE disk.rules \notin Unusable
      <4>1. icpt' = [grant |-> tick.grant, rules |-> disk.rules] BY <2>1, <3>2, LoadedFacts
      <4> QED BY <2>2, <2>3, <3>2, <4>1 DEF Pair, RuleSets
    <3> QED BY <3>1, <3>2
  <2>5. icpt'.grant # 0 => disk.grant # 0
    BY <1>0, <2>1, LoadedFacts DEF HostInv, CoverInv, WorkInv
  <2>6. HostTyped' BY <1>0, <1>1, <2>4 DEF HostInv, HostTyped
  <2>7. WorkInv' /\ CoverInv' BY <1>0, <1>1, <2>1, <2>4, <2>5 DEF HostInv, WorkInv, CoverInv
  <2> QED BY <1>2, <1>4, <2>6, <2>7, Whole DEF HostInv
<1> QED BY <1>5, <1>6

-----------------------------------------------------------------------------
(* The theorems.                                                           *)

LEMMA InitSound == Init => SupplyInv
<1> SUFFICES ASSUME Init PROVE SupplyInv OBVIOUS
<1>1. disk = [grant |-> 0, rules |-> 0] /\ sup = disk /\ icpt = disk /\ pairs = {disk}
  BY DEF Init
<1>2. disk \in Pair /\ disk.grant = 0 /\ disk.rules = 0 /\ 0 \notin Unusable
  BY <1>1, SupplyAssumption DEF Pair
<1>3. settings \in [mode : Mode, age : Ages]
  <2>1. Local \in [mode : Mode, age : Int] /\ Local.age \in Ages BY SupplyAssumption DEF Ages
  <2> QED BY <2>1 DEF Init
<1>4. TypeOK
  BY <1>1, <1>2, <1>3, SupplyAssumption DEF Init, TypeOK, Waiting, Ages
<1>5. WorkInv /\ CoverInv /\ PairInv /\ PushInv /\ LaunchInv
  BY <1>1, <1>2 DEF Init, WorkInv, CoverInv, PairInv, PushInv, LaunchInv, Waiting
<1>6. ForceInv /\ LaunchSeesFirstPush
  BY DEF Init, ForceInv, ArtefactsHold, SettingsHold, LaunchSeesFirstPush, Untold
<1> QED BY <1>4, <1>5, <1>6 DEF SupplyInv

LEMMA StepSound == SupplyInv /\ [Next]_vars => SupplyInv'
<1> SUFFICES ASSUME SupplyInv, [Next]_vars PROVE SupplyInv' OBVIOUS
<1>1. CASE UNCHANGED vars
  <2>1. UNCHANGED <<central, link, up, process, files, sup, tick, icpt>> BY <1>1 DEF vars, other
  <2>2. CentralTyped /\ HostInv BY Halves
  <2> QED BY <2>1, <2>2, CentralStays, HostStays, Whole
<1>2. CASE Next
  BY <1>2, ControlPlaneKeeps, ReceiveKeeps, WriteKeeps, WriteFailsKeeps, ReloadKeeps,
     EndKeeps, LaunchKeeps, CrashKeeps, StartKeeps, TickKeeps DEF Next, Sensor
<1> QED BY <1>1, <1>2

\* Through pushes, failed writes, crashes and restarts, the files, the Stores and the
\* settings stay where OnActorConfig's order of writes puts them.
THEOREM SupplyInvariant == Spec => []SupplyInv
<1> QED BY InitSound, StepSound, PTL DEF Spec

\* The type invariant of PolicySupply.
THEOREM SupplyTypeCorrect == Spec => []TypeOK
<1>1. SupplyInv => TypeOK BY DEF SupplyInv
<1> QED BY <1>1, SupplyInvariant, PTL

\* OnActorConfig, from a start of the process to its end: the grant and the rules in force
\* are those of the last push whose artefacts verified, the settings those of the last
\* signed one, and a push that fails to write, to verify or to be signed changes neither.
THEOREM LastPushRules == Spec => []LastPushInForce
<1>1. SupplyInv => LastPushInForce
  BY DEF SupplyInv, ForceInv, ArtefactsHold, SettingsHold, LastPushInForce
<1> QED BY <1>1, SupplyInvariant, PTL

\* Store.Reload takes both artefacts or neither, so a pair in force lay on the disk as a pair.
THEOREM PairsAreWhole == Spec => []SupervisorPairWasOnDisk
<1>1. SupplyInv => SupervisorPairWasOnDisk BY DEF SupplyInv, PairInv, SupervisorPairWasOnDisk
<1> QED BY <1>1, SupplyInvariant, PTL

\* awaitFirstConfig: a launch released by a push is confined by the rules it left in force.
THEOREM LaunchAgreesWithPush == Spec => []LaunchSeesFirstPush
<1>1. SupplyInv => LaunchSeesFirstPush BY DEF SupplyInv
<1> QED BY <1>1, SupplyInvariant, PTL

\* No Store that has a grant, or rules, loses them: the supervisor's by its reload or a
\* restart, the interception role's by a read torn by a push.
THEOREM PolicyIsKept == Spec => PolicyNeverDropped
<1>1. ASSUME SupplyInv, [Next]_vars
      PROVE  /\ sup.grant # 0 => sup'.grant # 0
             /\ sup.rules # 0 => sup'.rules # 0
             /\ icpt.grant # 0 => icpt'.grant # 0
             /\ icpt.rules # 0 => icpt'.rules # 0
  <2>0. CoverInv /\ WorkInv BY <1>1 DEF SupplyInv
  <2>1. CASE Reload
    <3>1. sup' \in {sup, Loaded(sup, disk.grant, disk.rules)} /\ icpt' = icpt
      BY <2>1 DEF Reload, other
    <3> QED BY <2>0, <3>1, LoadedFacts DEF CoverInv
  <2>2. CASE Start
    BY <2>0, <2>2 DEF Start, CoverInv, other
  <2>3. CASE TickRules
    <3>1. /\ icpt' = Loaded(icpt, tick.grant, disk.rules) /\ sup' = sup
          /\ tick.grant \in 1..MaxCerts
      BY <2>0, <2>3 DEF TickRules, WorkInv
    <3>2. tick.grant # 0 BY <3>1
    <3> QED BY <2>0, <3>1, <3>2, LoadedFacts DEF CoverInv
  <2>4. CASE ~Reload /\ ~Start /\ ~TickRules
    <3>1. sup' = sup /\ icpt' = icpt
      BY <1>1, <2>4
      DEF Next, ControlPlane, Sensor, Edit, Certify, Expire, Connect, Disconnect, Receive, WriteGrant,
          WriteRules, WriteFails, ApplySettings, RefuseSettings, EndPush, Launch, LaunchTimeout, Crash, TickGrant, vars,
          other
    <3> QED BY <3>1
  <2> QED BY <2>1, <2>2, <2>3, <2>4
<1>2. SupplyInv /\ [Next]_vars =>
        [\A f \in {"grant", "rules"} :
           /\ sup[f] # 0 => sup'[f] # 0
           /\ icpt[f] # 0 => icpt'[f] # 0]_vars
  BY <1>1
<1> QED BY <1>2, SupplyInvariant, PTL DEF Spec, PolicyNeverDropped

\* ApplyPushedConfig: whatever an older control plane sends unsigned, and in whatever state
\* it finds the host, the mode and the age bound are not looser after it.
THEOREM UnsignedOnlyTightens == Spec => UnsignedNeverLoosens
<1>1. ASSUME SupplyInv, [Next]_vars, handler.pc = "settings", handler.signature = "none", up'
      PROVE  NotLooser(settings', settings)
  <2>1. settings \in [mode : Mode, age : Int]
    <3>1. settings \in [mode : Mode, age : Ages] /\ Ages \subseteq Int
      BY <1>1, SupplyAssumption DEF SupplyInv, TypeOK, Ages
    <3> QED BY <3>1
  <2>2. settings'.age = settings.age
        /\ (settings.mode = "explicit" => settings'.mode = "explicit")
    <3>1. CASE ApplySettings
      <4>1. settings' = Ratcheted(settings, handler.p) BY <1>1, <3>1 DEF ApplySettings
      <4> QED BY <4>1 DEF Ratcheted
    <3>2. CASE ~ApplySettings
      <4>1. up /\ ~Start BY <1>1 DEF SupplyInv, TypeOK, Start
      <4>2. settings' = settings
        BY <1>1, <3>2, <4>1
        DEF Next, ControlPlane, Sensor, Edit, Certify, Expire, Connect, Disconnect, Receive,
            WriteGrant, WriteRules, WriteFails, Reload, RefuseSettings, Launch, LaunchTimeout,
            Crash, TickGrant, TickRules, vars, process
      <4> QED BY <4>2
    <3> QED BY <3>1, <3>2
  <2>3. settings.age \in Int BY <2>1
  <2>4. ~StatusAgeStricter(settings.age, settings.age)
    BY <2>3 DEF StatusAgeStricter, Rank
  <2> QED BY <2>2, <2>4 DEF NotLooser
<1>2. SupplyInv /\ [Next]_vars =>
        [handler.pc = "settings" /\ handler.signature = "none" /\ up' =>
           NotLooser(settings', settings)]_vars
  BY <1>1
<1> QED BY <1>2, SupplyInvariant, PTL DEF Spec, UnsignedNeverLoosens
=============================================================================
