----------------------------- MODULE Authority ------------------------------
(***************************************************************************)
(* What one Actor may do, from the ledger to the two places that decide:   *)
(*                                                                         *)
(* - online, the control plane's answer for each certificate               *)
(*   (packages/controlplane/lib/kill-switch.ts, packages/policy) and       *)
(*   resolvePermission over the answers (packages/trust; sdk-go/authz is   *)
(*   its port and held to the same vectors);                               *)
(* - offline, on a host, one pushed certificate and a signed rule set      *)
(*   (lib/actor-config.ts, internal/intercept/store.go), decided by        *)
(*   intercept.Decide for a destination and by supervise.Decide for a tool *)
(*   call, both with sdk-go/rules.                                         *)
(*                                                                         *)
(* A pattern, of a rule or of a scope, is the set of what it matches; so a *)
(* certificate without a scope has all resources, and NoResource, in its   *)
(* own.  How a push travels is in PolicySupply, and how the armed switches *)
(* are read in KillSwitch; here each is one step.  The host is one whose   *)
(* proxy has an Attributor; without one, a Store refuses rule sets with    *)
(* subjects (PolicySupply's Unusable), and nothing here depends on callers.*)
(***************************************************************************)
EXTENDS Integers, Sequences, FiniteSets, FiniteSetsExt

CONSTANTS
  Templates,    \* certificates an admin may issue (see IsTemplate)
  Custom,       \* capabilities that exist while the registry lists them
  RuleSets,     \* rule sets an admin may store (see IsRule); {} is none
  Resources,    \* destinations and resource URIs
  NoResource,   \* an action that names none
  Floor,        \* resources under a path of the safety floor
  Actions,      \* what is asked for: [cap, res]
  Callers,      \* what attribution may find: [governed, workload]
  Nobody,       \* attribution found, or was asked, nothing
  Home,         \* workspace of the Actor itself
  MaxStatusAge, \* bound on the age of a status, of the host
  FailClosed,   \* what the host does beyond it
  MaxCerts,     \* bound of the model: certificates issued
  MaxEdits,     \* bound of the model: changes of rules, switches, registry
  MaxTime       \* bound of the model: the clock

Any == "any"  Agent == "agent"
Global == "global"

IsTemplate(t) ==
  /\ t.scope \subseteq Resources \cup {NoResource} /\ t.domains \subseteq Resources
  /\ t.ttl \in Nat /\ t.offline \in BOOLEAN
IsRule(r) == r.covers \subseteq Resources /\ r.effect \in {"allow", "deny"}

ASSUME AuthorityAssumption ==
  /\ \A t \in Templates : IsTemplate(t)
  /\ \A rs \in RuleSets : \A r \in rs : IsRule(r)
  /\ {} \in RuleSets /\ NoResource \notin Resources /\ Floor \subseteq Resources
  /\ Nobody \notin Callers
  /\ MaxStatusAge \in Int /\ FailClosed \in BOOLEAN
  /\ MaxCerts \in Nat /\ MaxEdits \in Nat /\ MaxTime \in Nat

VARIABLES
  rows,     \* the ledger, oldest first
  armed,    \* armed switches
  registry, \* custom capabilities of the registry
  config,   \* the Actor's stored rules
  now, edits,
  disk,     \* the host's artefact files, each with its time
  store,    \* what its Store has loaded
  heard,    \* history: when a push last brought the host anything
  backed    \* history: what the ledger allowed when the grant was last pushed

vars == <<rows, armed, registry, config, now, edits, disk, store, heard, backed>>

NoGrant == 0

Init ==
  /\ rows = <<>> /\ armed = {} /\ registry = Custom /\ config = {}
  /\ now = 0 /\ edits = 0
  /\ disk = [grant |-> NoGrant, rules |-> {}, grantAt |-> 0, rulesAt |-> 0]
  /\ store = [grant |-> NoGrant, rules |-> {}, at |-> 0]
  /\ heard = 0 /\ backed = {}

-----------------------------------------------------------------------------
\* resolvePermission: any certificate that is usable, carries the capability
\* and admits the resource.  Nothing counts uses at this commit.
Expired(c, t) == c.expires # 0 /\ c.expires <= t
Usable(c, t) == c.status = "active" /\ ~Expired(c, t)
Grants(c, a) == a.cap \in c.caps /\ a.res \in c.scope

\* A variant: the first certificate that carries the capability decides.
Resolve_FirstCarrier(certs, a, t) ==
  LET carriers == {i \in DOMAIN certs : Usable(certs[i], t) /\ a.cap \in certs[i].caps}
  IN carriers # {} /\ Grants(certs[Min(carriers)], a)
Resolve(certs, a, t) ==
  \E i \in DOMAIN certs : Usable(certs[i], t) /\ Grants(certs[i], a)

\* suppressionFor: the global switch, or that of a workspace of the Actor, of the
\* certificate's row or named by its scope.
Suppressed(workspaces, switches) ==
  Global \in switches \/ workspaces \cap switches # {}
Suspended(switches) == Suppressed({Home}, switches)

\* resolveCertStatus: expiry overlays the row, a switch answers "revoked", and
\* what the registry has lost is dropped.
Effective(c, t, switches, names) ==
  IF Suppressed({Home} \cup c.workspaces, switches)
  THEN [c EXCEPT !.status = "revoked", !.caps = {}]
  ELSE [c EXCEPT !.status = IF @ = "active" /\ Expired(c, t) THEN "expired" ELSE @,
                 !.caps = @ \ (Custom \ names)]

Answers(ledger, t, switches, names) ==
  [i \in DOMAIN ledger |-> Effective(ledger[i], t, switches, names)]
Permits(a) == Resolve(Answers(rows, now, armed, registry), a, now)

-----------------------------------------------------------------------------
\* appliesTo, and the third answer: a subject nobody has looked up.
Decidable(r, who) == r.subject = Any \/ who # Nobody
AppliesTo(r, who) ==
  \/ r.subject = Any
  \/ who # Nobody /\ who.governed /\ (r.subject = Agent \/ r.subject = who.workload)

\* Evaluate and EvaluateResource: a deny wins wherever it stands, and a subject
\* that could not be decided is reported unless the request is denied anyway.
Evaluate(rs, x, who) ==
  LET matching == {r \in rs : x \in r.covers}
      deciding == {r \in matching : AppliesTo(r, who)}
      verdict == IF \E r \in deciding : r.effect = "deny" THEN "deny"
                 ELSE IF deciding # {} THEN "allow" ELSE "govern"
  IN [verdict |-> verdict,
      missed |-> verdict # "deny" /\ \E r \in matching : ~Decidable(r, who)]

\* staleness: 0 accepts no cached status, a negative bound any.
Stale(at, t) == MaxStatusAge = 0 \/ (MaxStatusAge > 0 /\ t - at > MaxStatusAge)

\* The certificate a Store holds counts as active: a signed grant cannot carry
\* its own revocation.
Held(s) == IF s.grant = NoGrant THEN <<>>
           ELSE <<[rows[s.grant] EXCEPT !.status = "active"]>>
Authorized(s, a) ==
  ~(Stale(s.at, now) /\ FailClosed) /\ Resolve(Held(s), a, now)

\* intercept.Decide: rules, then the certificate, then its domains.
InDomains(s, x) == rows[s.grant].domains = {} \/ x \in rows[s.grant].domains
Intercept(s, a, who) ==
  LET e == Evaluate(s.rules, a.res, who)
  IN [allowed |-> \/ e.verdict = "allow"
                  \/ e.verdict = "govern" /\ Authorized(s, a) /\ InDomains(s, a.res),
      missed |-> e.missed]

\* handle: attribution is looked up only if a rule with a subject may match.
NeedsAttribution_Agents(rs, x) == \E r \in rs : r.subject = Agent /\ x \in r.covers
NeedsAttribution(rs, x) == \E r \in rs : r.subject # Any /\ x \in r.covers
Attributed(s, x, who) == IF NeedsAttribution(s.rules, x) THEN who ELSE Nobody

\* supervise.Decide of a mapped call in explicit mode: rules, floor, certificate.
\* Observe mode permits and records this as what it would have decided.
Supervise_FloorStepsAside(s, a) ==
  LET e == Evaluate(s.rules, a.res, Nobody)
  IN \/ e.verdict = "allow"
     \/ e.verdict = "govern" /\ (a.res \notin Floor \/ s.rules # {}) /\ Authorized(s, a)
Supervise(s, a) ==
  LET e == Evaluate(s.rules, a.res, Nobody)
  IN \/ e.verdict = "allow"
     \/ e.verdict = "govern" /\ a.res \notin Floor /\ Authorized(s, a)

-----------------------------------------------------------------------------
\* issueCertificateAction: refused while the Actor is suspended, or for a
\* capability the registry does not list.
Issue ==
  /\ Len(rows) < MaxCerts /\ ~Suspended(armed)
  /\ \E t \in Templates :
       /\ t.caps \cap Custom \subseteq registry
       /\ rows' = Append(rows,
            [status |-> "active", caps |-> t.caps, scope |-> t.scope,
             domains |-> t.domains, workspaces |-> t.workspaces, offline |-> t.offline,
             expires |-> IF t.ttl = 0 THEN 0 ELSE now + t.ttl])
  /\ UNCHANGED <<armed, registry, config, now, edits, disk, store, heard, backed>>

Revoke ==
  /\ \E i \in DOMAIN rows :
       rows[i].status = "active" /\ rows' = [rows EXCEPT ![i].status = "revoked"]
  /\ UNCHANGED <<armed, registry, config, now, edits, disk, store, heard, backed>>

Workspaces == {Home} \cup UNION {t.workspaces : t \in Templates}

Throw ==
  /\ edits < MaxEdits /\ edits' = edits + 1
  /\ \E s \in {Global} \cup Workspaces :
       armed' = IF s \in armed THEN armed \ {s} ELSE armed \cup {s}
  /\ UNCHANGED <<rows, registry, config, now, disk, store, heard, backed>>

\* createCapabilityAction.
Register ==
  /\ edits < MaxEdits /\ edits' = edits + 1
  /\ \E c \in Custom \ registry : registry' = registry \cup {c}
  /\ UNCHANGED <<rows, armed, config, now, disk, store, heard, backed>>

Affected(c) == {i \in DOMAIN rows : rows[i].status = "active" /\ c \in rows[i].caps}

\* deleteCapabilityAction: the entry goes first, then the certificates that carry it
\* are revoked one by one, and a failure leaves the others.
Unregister ==
  /\ edits < MaxEdits /\ edits' = edits + 1
  /\ \E c \in registry : \E reached \in SUBSET Affected(c) :
       /\ registry' = registry \ {c}
       /\ rows' = [i \in DOMAIN rows |->
                    IF i \in reached THEN [rows[i] EXCEPT !.status = "revoked"] ELSE rows[i]]
  /\ UNCHANGED <<armed, config, now, disk, store, heard, backed>>

EditRules ==
  /\ edits < MaxEdits /\ edits' = edits + 1
  /\ \E rs \in RuleSets \ {config} : config' = rs
  /\ UNCHANGED <<rows, armed, registry, now, disk, store, heard, backed>>

Tick ==
  /\ now < MaxTime /\ now' = now + 1
  /\ UNCHANGED <<rows, armed, registry, config, edits, disk, store, heard, backed>>

-----------------------------------------------------------------------------
\* resolveGrantToken: the newest active certificate that can be verified
\* offline, and none if it names a capability the registry has lost.
GrantToken_AnyStatus ==
  LET verifiable == {i \in DOMAIN rows : rows[i].offline}
  IN IF verifiable = {} THEN NoGrant
     ELSE IF rows[Max(verifiable)].caps \cap Custom \subseteq registry
          THEN Max(verifiable) ELSE NoGrant
GrantToken ==
  LET verifiable == {i \in DOMAIN rows : rows[i].status = "active" /\ rows[i].offline}
  IN IF verifiable = {} THEN NoGrant
     ELSE IF rows[Max(verifiable)].caps \cap Custom \subseteq registry
          THEN Max(verifiable) ELSE NoGrant

\* pushActorConfig, buildActorConfig and WriteArtefacts, for whatever Actor has a
\* connection: no switch is asked.  Null, which also stands for a rule set without
\* rules, clears nothing; what is written again is new.
Push ==
  /\ LET g == GrantToken IN
       /\ disk' = [grant   |-> IF g = NoGrant THEN disk.grant ELSE g,
                   grantAt |-> IF g = NoGrant THEN disk.grantAt ELSE now,
                   rules   |-> IF config = {} THEN disk.rules ELSE config,
                   rulesAt |-> IF config = {} THEN disk.rulesAt ELSE now]
       /\ backed' = IF g = NoGrant THEN backed
                    ELSE {a \in Actions : Resolve(rows, a, now)}
       /\ heard' = IF g = NoGrant /\ config = {} THEN heard ELSE now
  /\ UNCHANGED <<rows, armed, registry, config, now, edits, store>>

\* Store.Reload: nothing is loaded if the grant has expired; the age of the
\* status counts from the later of the two files.
Loaded_Now == [grant |-> disk.grant, rules |-> disk.rules, at |-> now]
Loaded == [grant |-> disk.grant, rules |-> disk.rules,
           at |-> Max({disk.grantAt, disk.rulesAt})]
Reload ==
  /\ \A g \in {disk.grant} \ {NoGrant} : ~Expired(rows[g], now)
  /\ store' = Loaded
  /\ UNCHANGED <<rows, armed, registry, config, now, edits, disk, heard, backed>>

ControlPlane == Issue \/ Revoke \/ Throw \/ Register \/ Unregister \/ EditRules
Host == Push \/ Reload
Next == ControlPlane \/ Host \/ Tick

Spec == Init /\ [][Next]_vars
-----------------------------------------------------------------------------
Row == [status : {"active", "revoked"}, caps : {t.caps : t \in Templates},
        scope : SUBSET (Resources \cup {NoResource}), domains : SUBSET Resources,
        workspaces : SUBSET Workspaces, offline : BOOLEAN, expires : Nat]

TypeOK ==
  /\ rows \in Seq(Row)
  /\ armed \subseteq {Global} \cup Workspaces /\ registry \subseteq Custom
  /\ {config, disk.rules, store.rules} \subseteq RuleSets
  /\ {disk.grant, store.grant} \subseteq {NoGrant} \cup DOMAIN rows
  /\ {now, edits, disk.grantAt, disk.rulesAt, store.at, heard} \subseteq Nat
  /\ backed \subseteq Actions

\* packages/trust: "revoking never grants more, adding never removes access".
\* Of the control plane's answers this must hold for whatever else bears on
\* them: no revocation, expiry, switch or deletion from the registry lets an
\* action through, and no certificate, disarming or registration stops one.
Takes == /\ \A i \in DOMAIN rows' : i \in DOMAIN rows
         /\ armed \subseteq armed' /\ registry' \subseteq registry
Adds == /\ \A i \in DOMAIN rows : rows'[i] = rows[i]
        /\ armed' \subseteq armed /\ registry \subseteq registry' /\ now' = now
AuthorityIsMonotone ==
  [][\A a \in Actions : /\ Takes /\ Permits(a)' => Permits(a)
                        /\ Adds /\ Permits(a) => Permits(a)']_vars

\* intercept.go: passing without attribution "must be audited as an attribution
\* miss, never as a clean pass".  A request decided without knowing the caller
\* and not marked is decided the same way whoever the caller turns out to be.
MissIsMarked ==
  \A a \in Actions : LET blind == Intercept(store, a, Nobody) IN
    blind.missed \/ \A who \in Callers :
                       Intercept(store, a, who).allowed = blind.allowed

\* proxy.go: the socket is looked up only if a rule needs it.  Not looking has
\* no effect on any decision, and no miss is reported that a look would clear.
LazyIsEnough ==
  \A a \in Actions, who \in Callers \cup {Nobody} :
    Intercept(store, a, Attributed(store, a.res, who)) = Intercept(store, a, who)

\* The two together: a decision made without the caller, by choice or for want of
\* an answer, is the one the caller would have got, or says that it may not be.
AttributionIsSound == MissIsMarked /\ LazyIsEnough

\* supervise/decide.go: "adding policy must not remove protection".  A call on
\* the safety floor passes only because a signed rule in force allows that very
\* resource, whatever certificate is held and whatever other rules there are.
FloorHolds ==
  \A a \in Actions : a.res \in Floor /\ Supervise(store, a) =>
    \E r \in store.rules : r.effect = "allow" /\ a.res \in r.covers

\* Governed: passed on the strength of the certificate.
Governed(a) == Authorized(store, a) /\ Evaluate(store.rules, a.res, Nobody).verdict = "govern"

\* A host never permits by certificate what the ledger, kill switch aside, did
\* not permit when it last confirmed that grant, and nothing past its expiry:
\* neither reloads, nor lost capabilities, nor pushes without a grant add to it.
HostWithinLedger ==
  \A a \in Actions : Governed(a) /\ store.grant = disk.grant =>
    a \in backed /\ ~Expired(rows[store.grant], now)

\* staleness, Reload: where the host fails closed, silence withdraws its certificate.
\* Once nothing has been brought for longer than the bound, by which alone a suspension
\* or a lost connection can reach a host that decides offline, no certificate lets
\* anything through, and no reload of what is on the disk revives it.
SilenceWithdraws ==
  FailClosed /\ MaxStatusAge >= 0 /\ now - heard > MaxStatusAge =>
    \A a \in Actions : ~Governed(a)
=============================================================================
