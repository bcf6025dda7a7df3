---------------------------- MODULE PolicySupply ----------------------------
(***************************************************************************)
(* How an admin's edit reaches the decisions of a supervised host:         *)
(* pushActorConfig and buildActorConfig in the control plane               *)
(* (packages/controlplane/lib/ws-server.ts, lib/actor-config.ts), the      *)
(* connection, OnActorConfig in vaultysclaw-sensor (cmd/sensor/            *)
(* supervise.go, internal/supervise/push.go, settings.go), the artefact    *)
(* files, the Store that loads them (internal/intercept/store.go), and the *)
(* interception role of the same host, whose own Store re-reads the same   *)
(* files on a timer.                                                       *)
(*                                                                         *)
(* A grant is the number of its certificate, a rule set its name; 0 is the *)
(* null the control plane sends, or a missing file.                        *)
(***************************************************************************)
EXTENDS Integers, Sequences, FiniteSets, FiniteSetsExt

CONSTANTS
  KindConfigs, \* what the admin may store: records of rules, mode and age
  Unusable,    \* rule sets Set.Validate refuses on this host
  Local,       \* the host's own configuration: mode and age
  MaxCerts,    \* bound of the model: certificates issued
  MaxEdits,    \* bound of the model: edits of the stored configuration
  MaxPushes,   \* bound of the model: pushes that reach the sensor
  MaxDrops,    \* bound of the model: connections lost
  MaxCrashes,  \* bound of the model: restarts of the sensor
  MaxTicks,    \* bound of the model: reloads of the interception role
  MaxFailures  \* bound of the model: artefact writes that fail

Mode == {"observe", "explicit"}

ASSUME SupplyAssumption ==
  /\ \A c \in KindConfigs : c.rules \in Nat /\ c.mode \in Mode /\ c.age \in Int
  /\ Unusable \subseteq Nat \ {0}
  /\ Local \in [mode : Mode, age : Int]
  /\ MaxCerts \in Nat /\ MaxEdits \in Nat /\ MaxPushes \in Nat
  /\ MaxDrops \in Nat /\ MaxCrashes \in Nat /\ MaxTicks \in Nat
  /\ MaxFailures \in Nat

VARIABLES
  config,    \* the Actor's stored kindConfig
  issued,    \* certificates issued so far
  live,      \* those that are active
  expired,   \* those grant.Verify refuses
  edits,
  session,   \* number of the connection
  linked,    \* the connection is up
  rows,      \* configurations a push of this connection may have read
  grants,    \* grants a push of this connection may have read
  pushes,
  up,        \* the sensor runs
  handler,   \* OnActorConfig: where it is, and the payload
  disk,      \* the artefact files
  sup,       \* the supervisor's Store
  settings,  \* Settings
  launch,    \* the harness: "waiting", or what released the launch
  profile,   \* rule set its confinement was compiled from
  handled,   \* pushes this process has handled to the end
  last,      \* history: the payloads this process last took artefacts and settings from
  tick,      \* the interception role's Reload, between its two reads
  icpt,      \* the interception role's Store
  ticks,
  pairs,     \* history: what the two files held together
  crashes, failures

central == <<config, issued, live, expired, edits>>
link    == <<session, linked, rows, grants, pushes>>
files   == <<disk, pairs>>
process == <<handler, settings, launch, profile, handled, last>>
other   == <<tick, icpt, ticks>>
vars == <<central, link, up, process, files, sup, other, crashes, failures>>

Waiting == [pc |-> "idle"]
NoPush  == [none |-> TRUE]
Untold  == [artefacts |-> NoPush, settings |-> NoPush]

Init ==
  /\ config \in KindConfigs
  /\ issued = 0 /\ live = {} /\ expired = {} /\ edits = 0
  /\ session = 0 /\ linked = FALSE /\ rows = {} /\ grants = {} /\ pushes = 0
  /\ up = TRUE /\ handler = Waiting
  /\ disk = [grant |-> 0, rules |-> 0] /\ sup = disk /\ icpt = disk
  /\ pairs = {disk}
  /\ settings = Local
  /\ launch = "waiting" /\ profile = 0 /\ handled = 0 /\ last = Untold
  /\ tick = [pc |-> "idle"] /\ ticks = 0
  /\ crashes = 0 /\ failures = 0

-----------------------------------------------------------------------------
\* resolveGrantToken: the newest active certificate, or null.
GrantToken(certs) == IF certs = {} THEN 0 ELSE Max(certs)

\* The admin stores a new configuration, issues a certificate, or revokes one.
\* Each is followed by a push, and pushes are not serialised.
Edit ==
  /\ edits < MaxEdits /\ edits' = edits + 1
  /\ \E c \in KindConfigs \ {config} : config' = c
  /\ rows' = IF linked THEN rows \cup {config'} ELSE rows
  /\ UNCHANGED <<issued, live, expired, session, linked, grants, pushes, up, process, files,
                 sup, other, crashes, failures>>

Certify ==
  /\ \/ issued < MaxCerts /\ issued' = issued + 1 /\ live' = live \cup {issued'}
     \/ UNCHANGED issued /\ \E c \in live : live' = live \ {c}
  /\ grants' = IF linked THEN grants \cup {GrantToken(live')} ELSE grants
  /\ UNCHANGED <<config, expired, edits, session, linked, rows, pushes, up, process, files,
                 sup, other, crashes, failures>>

\* A certificate's term ends.  Its row keeps its status, so it may still be sent.
Expire ==
  /\ \E c \in (1..issued) \ expired : expired' = expired \cup {c}
  /\ UNCHANGED <<config, issued, live, edits, link, up, process, files, sup, other,
                 crashes, failures>>

\* A handshake ends in a push of its own; a payload that was being built for an
\* earlier connection is sent to nobody.
Connect ==
  /\ up /\ ~linked /\ session <= MaxDrops
  /\ linked' = TRUE /\ session' = session + 1
  /\ rows' = {config} /\ grants' = {GrantToken(live)}
  /\ UNCHANGED <<central, pushes, up, process, files, sup, other, crashes, failures>>

Disconnect ==
  /\ linked /\ session <= MaxDrops
  /\ linked' = FALSE /\ rows' = {} /\ grants' = {}
  /\ UNCHANGED <<central, session, pushes, up, process, files, sup, other, crashes,
                 failures>>

\* buildActorConfig reads the Actor's row and, later, its certificates; builds
\* overlap, and one that was slow is sent after one that began later.  So what
\* arrives combines a configuration and a grant that were current at some time
\* during the connection.
Signature == {"none", "verified", "refused"}
Payloads == {[grant |-> g, rules |-> c.rules, mode |-> c.mode, age |-> c.age] :
               g \in grants, c \in rows}

\* OnActorConfig runs for one message at a time.  A control plane of an older
\* release sends the settings without a signature, and one may not verify.
Receive ==
  /\ linked /\ handler.pc = "idle" /\ pushes < MaxPushes
  /\ \E p \in Payloads, s \in Signature :
       handler' = [pc |-> "grant", p |-> p, signature |-> s, loaded |-> FALSE]
  /\ pushes' = pushes + 1
  /\ UNCHANGED <<central, session, linked, rows, grants, up, settings, launch,
                 profile, handled, last, files, sup, other, crashes, failures>>

\* writeToken replaces a file in one rename; a null token clears nothing.
Keep_Clears(file, token) == token

Keep(file, token) == IF token = 0 THEN file ELSE token
WriteGrant ==
  /\ handler.pc = "grant"
  /\ disk' = [disk EXCEPT !.grant = Keep(@, handler.p.grant)]
  /\ pairs' = pairs \cup {disk'}
  /\ handler' = [handler EXCEPT !.pc = "rules"]
  /\ UNCHANGED <<central, link, up, settings, launch,
                 profile, handled, last, sup, other, crashes, failures>>

WriteRules ==
  /\ handler.pc = "rules"
  /\ disk' = [disk EXCEPT !.rules = Keep(@, handler.p.rules)]
  /\ pairs' = pairs \cup {disk'}
  /\ handler' = [handler EXCEPT !.pc = "reload"]
  /\ UNCHANGED <<central, link, up, settings, launch,
                 profile, handled, last, sup, other, crashes, failures>>

\* A write that fails ends the handler: what was written stays, nothing is
\* reloaded, no setting is applied.  A waiting launch is released all the same.
WriteFails ==
  /\ handler.pc \in {"grant", "rules"} /\ failures < MaxFailures
  /\ failures' = failures + 1
  /\ handler' = Waiting /\ handled' = handled + 1
  /\ UNCHANGED <<central, link, up, settings, launch, last,
                 profile, files, sup, other, crashes>>

\* Store.Reload: both artefacts or neither.  A grant that does not verify ends it, and
\* goes on doing so until another replaces the file.
Verifies(grant) == grant \notin expired

Loaded_Halves(store, grant, rules) ==
  IF rules \in Unusable THEN [store EXCEPT !.grant = grant]
  ELSE [grant |-> grant, rules |-> rules]
Loaded(store, grant, rules) ==
  IF rules \in Unusable THEN store ELSE [grant |-> grant, rules |-> rules]

Reload ==
  /\ handler.pc = "reload"
  /\ sup' = IF Verifies(disk.grant) THEN Loaded(sup, disk.grant, disk.rules) ELSE sup
  /\ handler' = [handler EXCEPT !.pc = "settings",
                   !.loaded = Verifies(disk.grant) /\ disk.rules \notin Unusable]
  /\ UNCHANGED <<central, link, up, settings, launch,
                 profile, handled, last, files, other, crashes, failures>>

\* statusAgeStricter: 0 accepts no cached status, a negative bound any.
Rank(age) == IF age < 0 THEN 2 ELSE IF age = 0 THEN 0 ELSE 1
StatusAgeStricter(local, pushed) ==
  \/ Rank(pushed) < Rank(local)
  \/ Rank(pushed) = 1 /\ Rank(local) = 1 /\ pushed < local

\* ApplyVerifiedConfig and Settings.Apply: what differs from the host's own
\* configuration, which is read once, is installed; the rest is left as it is.
Verified_OnlyTightens(now, p) ==
  [mode |-> IF p.mode = "explicit" THEN p.mode ELSE now.mode,
   age  |-> IF StatusAgeStricter(now.age, p.age) THEN p.age ELSE now.age]
Verified(now, p) ==
  [mode |-> IF p.mode # Local.mode THEN p.mode ELSE now.mode,
   age  |-> IF p.age # Local.age THEN p.age ELSE now.age]

\* ApplyPushedConfig: an unsigned push may only tighten.  Whether the age
\* changed is decided before the pushed one is looked at.
Ratcheted_AgeToo(now, p) ==
  [mode |-> IF p.mode = "explicit" /\ Local.mode = "observe" THEN p.mode ELSE now.mode,
   age  |-> IF StatusAgeStricter(Local.age, p.age) THEN p.age ELSE now.age]
Ratcheted(now, p) ==
  [mode |-> IF p.mode = "explicit" /\ Local.mode = "observe" THEN p.mode ELSE now.mode,
   age  |-> now.age]

\* The push has been handled to the end, and told the host its settings or did not.
EndPush(said) ==
  /\ handled' = handled + 1 /\ handler' = Waiting
  /\ last' = [artefacts |-> IF handler.loaded THEN handler.p ELSE last.artefacts,
              settings  |-> said]

ApplySettings ==
  /\ handler.pc = "settings" /\ handler.signature # "refused"
  /\ IF handler.signature = "verified"
     THEN settings' = Verified(settings, handler.p) /\ EndPush(handler.p)
     ELSE settings' = Ratcheted(settings, handler.p) /\ EndPush(NoPush)
  /\ UNCHANGED <<central, link, up, launch, profile, files,
                 sup, other, crashes, failures>>

\* A signature that does not verify: the unsigned copy is not looked at either.
RefuseSettings ==
  /\ handler.pc = "settings" /\ handler.signature = "refused"
  /\ EndPush(last.settings)
  /\ UNCHANGED <<central, link, up, settings, launch, profile, files,
                 sup, other, crashes, failures>>

-----------------------------------------------------------------------------
\* awaitFirstConfig, then the confinement is compiled and the harness launched.
Launch_OnArrival ==
  /\ up /\ launch = "waiting" /\ (handled > 0 \/ handler.pc # "idle")
  /\ launch' = "synced" /\ profile' = sup.rules
  /\ UNCHANGED <<central, link, up, handler, settings,
                 handled, last, files, sup, other, crashes, failures>>

Launch ==
  /\ up /\ launch = "waiting" /\ handled > 0
  /\ launch' = "synced" /\ profile' = sup.rules
  /\ UNCHANGED <<central, link, up, handler, settings,
                 handled, last, files, sup, other, crashes, failures>>

LaunchTimeout ==
  /\ up /\ launch = "waiting"
  /\ launch' = "timeout" /\ profile' = sup.rules
  /\ UNCHANGED <<central, link, up, handler, settings,
                 handled, last, files, sup, other, crashes, failures>>

Crash ==
  /\ up /\ crashes < MaxCrashes
  /\ crashes' = crashes + 1
  /\ up' = FALSE /\ linked' = FALSE /\ rows' = {} /\ grants' = {}
  /\ handler' = Waiting
  /\ UNCHANGED <<central, session, pushes, settings, launch, profile, handled, last,
                 files, sup, other, failures>>

\* NewStore loads the files before anything connects, and fails on a grant that
\* expired or a rule set this host cannot validate: the sensor does not start again.
Start ==
  /\ ~up /\ Verifies(disk.grant) /\ disk.rules \notin Unusable
  /\ up' = TRUE
  /\ sup' = disk /\ settings' = Local
  /\ launch' = "waiting" /\ profile' = 0 /\ handled' = 0 /\ last' = Untold
  /\ UNCHANGED <<central, link, handler, files, other,
                 crashes, failures>>

\* The interception role's ticker: Reload reads and verifies the grant, then the rule set.
TickGrant ==
  /\ tick.pc = "idle" /\ disk.grant # 0 /\ Verifies(disk.grant) /\ ticks < MaxTicks
  /\ ticks' = ticks + 1
  /\ tick' = [pc |-> "grant", grant |-> disk.grant]
  /\ UNCHANGED <<central, link, up, process, files, sup,
                 icpt, crashes, failures>>

TickRules ==
  /\ tick.pc = "grant"
  /\ icpt' = Loaded(icpt, tick.grant, disk.rules)
  /\ tick' = [pc |-> "idle"] /\ UNCHANGED ticks
  /\ UNCHANGED <<central, link, up, process, files, sup,
                 crashes, failures>>

ControlPlane == Edit \/ Certify \/ Expire \/ Connect \/ Disconnect
Sensor ==
  \/ Receive \/ WriteGrant \/ WriteRules \/ WriteFails \/ Reload \/ ApplySettings
  \/ RefuseSettings \/ Launch \/ LaunchTimeout \/ Crash \/ Start \/ TickGrant \/ TickRules
Next == ControlPlane \/ Sensor

Spec == Init /\ [][Next]_vars
-----------------------------------------------------------------------------
Pair == [grant : 0..MaxCerts, rules : {0} \cup {c.rules : c \in KindConfigs}]

TypeOK ==
  /\ config \in KindConfigs /\ issued \in 0..MaxCerts
  /\ live \subseteq 1..issued /\ expired \subseteq 1..issued
  /\ rows \subseteq KindConfigs /\ grants \subseteq 0..MaxCerts
  /\ linked => up /\ config \in rows /\ GrantToken(live) \in grants
  /\ handler.pc \in {"idle", "grant", "rules", "reload", "settings"}
  /\ handler.pc # "idle" => up
  /\ {disk, sup, icpt} \cup pairs \subseteq Pair
  /\ sup.rules \notin Unusable /\ icpt.rules \notin Unusable
  /\ settings \in [mode : Mode, age : {Local.age} \cup {c.age : c \in KindConfigs}]
  /\ launch \in {"waiting", "synced", "timeout"}

\* Since the process started, what is in force is what was pushed last: the grant and
\* the rule set of the last push whose artefacts verified, where it named them, and,
\* unless an unsigned push came after it, each setting of the last signed push that
\* differs from the host's own.  A push that fails to write, to verify or to be signed
\* leaves both as they were.  While a push is between its reload and its settings, and
\* from a restart until the next push, nothing is said.
LastPushInForce ==
  up /\ handler.pc # "settings" =>
    /\ last.artefacts # NoPush =>
         /\ last.artefacts.grant # 0 => sup.grant = last.artefacts.grant
         /\ last.artefacts.rules # 0 => sup.rules = last.artefacts.rules
    /\ last.settings # NoPush =>
         /\ last.settings.mode # Local.mode => settings.mode = last.settings.mode
         /\ last.settings.age # Local.age => settings.age = last.settings.age

\* push.go: an unsigned push may make a host stricter, never looser, and that
\* is meant of what the host is running, not only of its own file.
NotLooser(new, old) ==
  /\ old.mode = "explicit" => new.mode = "explicit"
  /\ ~StatusAgeStricter(new.age, old.age)
UnsignedNeverLoosens ==
  [][handler.pc = "settings" /\ handler.signature = "none" /\ up' =>
       NotLooser(settings', settings)]_vars

\* store.go: no push widens access by dropping the rules half, and none takes
\* a working grant away.  Whatever is pushed, fails, is torn by a crash or is
\* read half-written, a Store that has a rule set keeps having one.
PolicyNeverDropped ==
  [][\A f \in {"grant", "rules"} :
       /\ sup[f] # 0 => sup'[f] # 0
       /\ icpt[f] # 0 => icpt'[f] # 0]_vars

\* store.go: "all-or-nothing".  The supervisor enforces a grant and a rule set
\* that lay on the disk together, never one of each.
SupervisorPairWasOnDisk == sup \in pairs

\* supervise.go: the confinement compiled after the wait describes the policy
\* the first push left in force.  Until a second push is loaded, the kernel
\* profile and the decisions at the tool boundary agree.
LaunchSeesFirstPush ==
  up /\ launch = "synced" /\ handled = 1 /\ handler.pc # "settings" =>
    profile = sup.rules
=============================================================================
