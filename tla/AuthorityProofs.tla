-------------------------- MODULE AuthorityProofs ---------------------------
(***************************************************************************)
(* What holds of the decisions of Authority for every set of certificates, *)
(* rule sets, resources, capabilities and callers, and for every bound:    *)
(* deciding without the caller is sound, the safety floor holds, the       *)
(* answers of the control plane are monotone in what an admin grants, and  *)
(* a host stays within what the ledger confirmed, until nothing reaches it.*)
(***************************************************************************)
EXTENDS Authority, WellFoundedInduction, TLAPS

\* The rules stored, on disk and loaded are ones an admin stored.
RulesInv == {config, disk.rules, store.rules} \subseteq RuleSets

\* What monotonicity needs of the ledger and the clock.
LedgerInv == rows \in Seq(Row) /\ now \in Nat

-----------------------------------------------------------------------------
\* Evaluate knows three verdicts, and a miss is one it did not deny.
LEMMA VerdictFacts ==
  ASSUME NEW rs, NEW x, NEW who
  PROVE  /\ Evaluate(rs, x, who).verdict = "deny" <=>
              \E r \in rs : x \in r.covers /\ AppliesTo(r, who) /\ r.effect = "deny"
         /\ Evaluate(rs, x, who).verdict = "allow" <=>
              /\ Evaluate(rs, x, who).verdict # "deny"
              /\ \E r \in rs : x \in r.covers /\ AppliesTo(r, who)
         /\ Evaluate(rs, x, who).verdict \in {"deny", "allow", "govern"}
         /\ Evaluate(rs, x, who).missed <=>
              /\ Evaluate(rs, x, who).verdict # "deny"
              /\ \E r \in rs : x \in r.covers /\ ~Decidable(r, who)
<1> DEFINE matching == {r \in rs : x \in r.covers}
           deciding == {r \in matching : AppliesTo(r, who)}
           verdict == IF \E r \in deciding : r.effect = "deny" THEN "deny"
                      ELSE IF deciding # {} THEN "allow" ELSE "govern"
           missed == verdict # "deny" /\ \E r \in matching : ~Decidable(r, who)
<1>1. Evaluate(rs, x, who) = [verdict |-> verdict, missed |-> missed]
  BY DEF Evaluate
<1>2. /\ Evaluate(rs, x, who).verdict = verdict
      /\ Evaluate(rs, x, who).missed = missed
  BY <1>1
<1>3. verdict = "deny" <=>
        \E r \in rs : x \in r.covers /\ AppliesTo(r, who) /\ r.effect = "deny"
  OBVIOUS
<1>4. verdict = "allow" <=> /\ verdict # "deny"
                            /\ \E r \in rs : x \in r.covers /\ AppliesTo(r, who)
  OBVIOUS
<1>5. missed <=> /\ verdict # "deny"
                 /\ \E r \in rs : x \in r.covers /\ ~Decidable(r, who)
  OBVIOUS
<1>6. verdict \in {"deny", "allow", "govern"}
  OBVIOUS
<1> HIDE DEF verdict, missed
<1> QED
  BY <1>2, <1>3, <1>4, <1>5, <1>6

\* Where two callers meet the same verdict, they meet the same decision.
LEMMA SameVerdict ==
  ASSUME NEW s, NEW a, NEW p, NEW q,
         Evaluate(s.rules, a.res, p).verdict = Evaluate(s.rules, a.res, q).verdict
  PROVE  Intercept(s, a, p).allowed = Intercept(s, a, q).allowed
BY DEF Intercept

\* Two callers to whom the same covering rules apply meet the same verdict.
LEMMA SameRules ==
  ASSUME NEW rs, NEW x, NEW p, NEW q,
         \A r \in rs : x \in r.covers => (AppliesTo(r, p) <=> AppliesTo(r, q))
  PROVE  Evaluate(rs, x, p).verdict = Evaluate(rs, x, q).verdict
BY VerdictFacts

\* An unmarked decision made without the caller was denied by a rule for
\* everyone, or met no rule that asks who the caller is.
LEMMA MissesAreMarked == MissIsMarked
<1> SUFFICES ASSUME NEW a \in Actions, ~Intercept(store, a, Nobody).missed,
                    NEW who \in Callers
             PROVE  Intercept(store, a, who).allowed = Intercept(store, a, Nobody).allowed
  BY DEF MissIsMarked
<1> DEFINE rs == store.rules
           x == a.res
<1>1. Intercept(store, a, Nobody).missed = Evaluate(rs, x, Nobody).missed
  BY DEF Intercept
<1>2. Evaluate(rs, x, who).verdict = Evaluate(rs, x, Nobody).verdict
  <2>1. CASE Evaluate(rs, x, Nobody).verdict = "deny"
    <3>1. PICK r \in rs : x \in r.covers /\ AppliesTo(r, Nobody) /\ r.effect = "deny"
      BY <2>1, VerdictFacts
    <3>2. AppliesTo(r, who)
      BY <3>1 DEF AppliesTo
    <3> QED
      BY <2>1, <3>1, <3>2, VerdictFacts
  <2>2. CASE Evaluate(rs, x, Nobody).verdict # "deny"
    <3>1. \A r \in rs : x \in r.covers => Decidable(r, Nobody)
      BY <1>1, <2>2, VerdictFacts
    <3>2. \A r \in rs : x \in r.covers => r.subject = Any
      BY <3>1 DEF Decidable
    <3>3. \A r \in rs : x \in r.covers => (AppliesTo(r, who) <=> AppliesTo(r, Nobody))
      BY <3>2 DEF AppliesTo
    <3> QED
      BY <3>3, SameRules
  <2> QED
    BY <2>1, <2>2
<1> QED
  BY <1>2, SameVerdict

\* Where no rule that covers the resource has a subject, who the caller is bears
\* neither on the verdict nor on whether a miss is reported.
LEMMA LazinessIsEnough == LazyIsEnough
<1> SUFFICES ASSUME NEW a \in Actions, NEW who \in Callers \cup {Nobody}
             PROVE  Intercept(store, a, Attributed(store, a.res, who))
                      = Intercept(store, a, who)
  BY DEF LazyIsEnough
<1> DEFINE rs == store.rules
           x == a.res
<1>1. CASE NeedsAttribution(rs, x)
  BY <1>1 DEF Attributed
<1>2. CASE ~NeedsAttribution(rs, x)
  <2>1. \A r \in rs : x \in r.covers => r.subject = Any
    BY <1>2 DEF NeedsAttribution
  <2>2. \A r \in rs : x \in r.covers => (AppliesTo(r, who) <=> AppliesTo(r, Nobody))
    BY <2>1 DEF AppliesTo
  <2>3. Evaluate(rs, x, who).verdict = Evaluate(rs, x, Nobody).verdict
    BY <2>2, SameRules
  <2>4. ~Evaluate(rs, x, who).missed /\ ~Evaluate(rs, x, Nobody).missed
    BY <2>1, VerdictFacts DEF Decidable
  <2>5. Evaluate(rs, x, who) = Evaluate(rs, x, Nobody)
    BY <2>3, <2>4 DEF Evaluate
  <2>6. Attributed(store, x, who) = Nobody
    BY <1>2 DEF Attributed
  <2> QED
    BY <2>5, <2>6 DEF Intercept
<1> QED
  BY <1>1, <1>2

\* sdk-go/rules and proxy.go: in every state, whatever the rules and the
\* callers, looking the caller up only where a rule asks for it changes nothing,
\* and a decision made blindly is the caller's or is marked as a miss.
THEOREM BlindDecisionsAreSound == Spec => []AttributionIsSound
<1>1. AttributionIsSound
  BY MissesAreMarked, LazinessIsEnough DEF AttributionIsSound
<1> QED
  BY <1>1, PTL

-----------------------------------------------------------------------------
\* Rules are only ever copied: from the console to the files to the store.
LEMMA RulesStep == RulesInv /\ [Next]_vars => RulesInv'
<1> SUFFICES ASSUME RulesInv, [Next]_vars PROVE RulesInv'
  OBVIOUS
<1> USE DEF RulesInv
<1>1. CASE UNCHANGED vars
  BY <1>1 DEF vars
<1>2. CASE Issue \/ Revoke \/ Throw \/ Register \/ Unregister \/ Tick
  BY <1>2 DEF Issue, Revoke, Throw, Register, Unregister, Tick
<1>3. CASE EditRules
  BY <1>3 DEF EditRules
<1>4. CASE Push
  BY <1>4 DEF Push
<1>5. CASE Reload
  BY <1>5 DEF Reload, Loaded
<1> QED
  BY <1>1, <1>2, <1>3, <1>4, <1>5 DEF Next, ControlPlane, Host

\* internal/supervise: whatever certificate a host holds and whatever rules it
\* was sent, a call on the safety floor passes only by a rule that allows that
\* very resource.
THEOREM FloorAlwaysHolds == Spec => []FloorHolds
<1>1. Init => RulesInv
  BY AuthorityAssumption DEF Init, RulesInv
<1>2. RulesInv => FloorHolds
  <2> SUFFICES ASSUME RulesInv, NEW a \in Actions, a.res \in Floor, Supervise(store, a)
               PROVE  \E r \in store.rules : r.effect = "allow" /\ a.res \in r.covers
    BY DEF FloorHolds
  <2>1. Evaluate(store.rules, a.res, Nobody).verdict = "allow"
    BY DEF Supervise
  <2>2. PICK r \in store.rules : a.res \in r.covers /\ AppliesTo(r, Nobody)
    BY <2>1, VerdictFacts
  <2>3. r.effect # "deny"
    BY <2>1, <2>2, VerdictFacts
  <2>4. r.effect \in {"allow", "deny"}
    BY AuthorityAssumption DEF RulesInv, IsRule
  <2> QED
    BY <2>2, <2>3, <2>4
<1> QED
  BY <1>1, <1>2, RulesStep, PTL DEF Spec

-----------------------------------------------------------------------------
\* A certificate is issued from a template, and stays one that could be.
LEMMA LedgerStep == LedgerInv /\ [Next]_vars => LedgerInv'
<1> SUFFICES ASSUME LedgerInv, [Next]_vars PROVE LedgerInv'
  OBVIOUS
<1> USE DEF LedgerInv
<1>0. \A row \in Row : [row EXCEPT !.status = "revoked"] \in Row
  BY DEF Row
<1>1. CASE UNCHANGED <<rows, now>>
  BY <1>1
<1>2. CASE Issue
  <2>1. PICK t \in Templates :
          rows' = Append(rows,
            [status |-> "active", caps |-> t.caps, scope |-> t.scope,
             domains |-> t.domains, workspaces |-> t.workspaces, offline |-> t.offline,
             expires |-> IF t.ttl = 0 THEN 0 ELSE now + t.ttl])
    BY <1>2 DEF Issue
  <2>2. IsTemplate(t)
    BY AuthorityAssumption
  <2>3. (IF t.ttl = 0 THEN 0 ELSE now + t.ttl) \in Nat
    BY <2>2 DEF IsTemplate
  <2>4. t.workspaces \in SUBSET Workspaces
    BY DEF Workspaces
  <2>5. [status |-> "active", caps |-> t.caps, scope |-> t.scope,
         domains |-> t.domains, workspaces |-> t.workspaces, offline |-> t.offline,
         expires |-> IF t.ttl = 0 THEN 0 ELSE now + t.ttl] \in Row
    BY <2>2, <2>3, <2>4 DEF Row, IsTemplate
  <2>6. now' = now
    BY <1>2 DEF Issue
  <2> QED
    BY <2>1, <2>5, <2>6
<1>3. CASE Revoke
  BY <1>0, <1>3 DEF Revoke
<1>4. CASE Unregister
  <2>1. PICK c \in registry : \E reached \in SUBSET Affected(c) :
          rows' = [i \in DOMAIN rows |->
                    IF i \in reached THEN [rows[i] EXCEPT !.status = "revoked"] ELSE rows[i]]
    BY <1>4 DEF Unregister
  <2>2. now' = now
    BY <1>4 DEF Unregister
  <2> QED
    BY <1>0, <2>1, <2>2
<1>5. CASE Tick
  BY <1>5 DEF Tick
<1>6. CASE Throw \/ Register \/ EditRules \/ Push \/ Reload
  BY <1>1, <1>6 DEF Throw, Register, EditRules, Push, Reload
<1> QED
  BY <1>1, <1>2, <1>3, <1>4, <1>5, <1>6 DEF Next, ControlPlane, Host, vars

\* A step of the ledger adds rows, or revokes some, and time moves forward.
LEMMA RowsStep ==
  ASSUME LedgerInv, [Next]_vars
  PROVE  /\ DOMAIN rows \subseteq DOMAIN rows' /\ now <= now'
         /\ \A i \in DOMAIN rows :
              rows'[i] = rows[i] \/ rows'[i].status = "revoked"
<1> USE DEF LedgerInv
<1>0. \A i \in DOMAIN rows : rows[i] \in Row
  OBVIOUS
<1>1. CASE UNCHANGED <<rows, now>>
  BY <1>1
<1>2. CASE Issue
  BY <1>2 DEF Issue
<1>3. CASE Revoke
  BY <1>0, <1>3 DEF Revoke, Row
<1>4. CASE Unregister
  BY <1>0, <1>4 DEF Unregister, Row
<1>5. CASE Tick
  BY <1>5 DEF Tick
<1>6. CASE Throw \/ Register \/ EditRules \/ Push \/ Reload
  BY <1>1, <1>6 DEF Throw, Register, EditRules, Push, Reload
<1> QED
  BY <1>1, <1>2, <1>3, <1>4, <1>5, <1>6 DEF Next, ControlPlane, Host, vars

\* When the control plane's answer for a certificate lets an action through, read
\* off the row itself: the overlay of resolveCertStatus removes, and never adds.
LEMMA AnswerFacts ==
  ASSUME NEW c \in Row, NEW t \in Nat, NEW S, NEW R, NEW a
  PROVE  Usable(Effective(c, t, S, R), t) /\ Grants(Effective(c, t, S, R), a) <=>
           /\ ~Suppressed({Home} \cup c.workspaces, S)
           /\ c.status = "active" /\ ~Expired(c, t)
           /\ a.cap \in c.caps /\ a.cap \notin Custom \ R /\ a.res \in c.scope
<1> DEFINE e == Effective(c, t, S, R)
<1>1. CASE Suppressed({Home} \cup c.workspaces, S)
  <2>1. e = [c EXCEPT !.status = "revoked", !.caps = {}]
    BY <1>1 DEF Effective
  <2>2. e.status = "revoked"
    BY <2>1 DEF Row
  <2> HIDE DEF e
  <2>3. ~Usable(e, t)
    BY <2>2 DEF Usable
  <2> QED
    BY <1>1, <2>3 DEF e
<1>2. CASE ~Suppressed({Home} \cup c.workspaces, S)
  <2>1. e = [c EXCEPT !.status = IF @ = "active" /\ Expired(c, t) THEN "expired" ELSE @,
                      !.caps = @ \ (Custom \ R)]
    BY <1>2 DEF Effective
  <2>2. /\ e.status = IF c.status = "active" /\ Expired(c, t) THEN "expired" ELSE c.status
        /\ e.caps = c.caps \ (Custom \ R)
        /\ e.scope = c.scope /\ e.expires = c.expires
    BY <2>1 DEF Row
  <2> HIDE DEF e
  <2>3. Usable(e, t) <=> c.status = "active" /\ ~Expired(c, t)
    BY <2>2 DEF Usable, Expired
  <2>4. Grants(e, a) <=> a.cap \in c.caps /\ a.cap \notin Custom \ R /\ a.res \in c.scope
    BY <2>2 DEF Grants
  <2> QED
    BY <1>2, <2>3, <2>4 DEF e
<1> QED
  BY <1>1, <1>2

\* Some certificate of the ledger lets the action through.
Carried(ledger, t, S, R, a) ==
  \E i \in DOMAIN ledger :
    /\ ~Suppressed({Home} \cup ledger[i].workspaces, S)
    /\ ledger[i].status = "active" /\ ~Expired(ledger[i], t)
    /\ a.cap \in ledger[i].caps /\ a.cap \notin Custom \ R
    /\ a.res \in ledger[i].scope

LEMMA PermitFacts ==
  ASSUME NEW ledger \in Seq(Row), NEW t \in Nat, NEW S, NEW R, NEW a
  PROVE  Resolve(Answers(ledger, t, S, R), a, t) <=> Carried(ledger, t, S, R, a)
<1>1. \A i \in DOMAIN ledger : ledger[i] \in Row
  OBVIOUS
<1>2. /\ DOMAIN Answers(ledger, t, S, R) = DOMAIN ledger
      /\ \A i \in DOMAIN ledger :
           Answers(ledger, t, S, R)[i] = Effective(ledger[i], t, S, R)
  BY DEF Answers
<1>3. Resolve(Answers(ledger, t, S, R), a, t) <=>
        \E i \in DOMAIN ledger : /\ Usable(Effective(ledger[i], t, S, R), t)
                                  /\ Grants(Effective(ledger[i], t, S, R), a)
  BY <1>2 DEF Resolve
<1>4. \A i \in DOMAIN ledger :
        /\ Usable(Effective(ledger[i], t, S, R), t)
        /\ Grants(Effective(ledger[i], t, S, R), a)
        <=> /\ ~Suppressed({Home} \cup ledger[i].workspaces, S)
            /\ ledger[i].status = "active" /\ ~Expired(ledger[i], t)
            /\ a.cap \in ledger[i].caps /\ a.cap \notin Custom \ R
            /\ a.res \in ledger[i].scope
  BY <1>1, AnswerFacts
<1> QED
  BY <1>3, <1>4 DEF Carried

\* Fewer switches suppress less.
LEMMA SuppressedIsMonotone ==
  ASSUME NEW W, NEW S, NEW T, S \subseteq T, Suppressed(W, S)
  PROVE  Suppressed(W, T)
BY DEF Suppressed

\* What has expired stays expired.
LEMMA ExpiryIsFinal ==
  ASSUME NEW c \in Row, NEW t \in Nat, NEW u \in Nat, t <= u, Expired(c, t)
  PROVE  Expired(c, u)
BY DEF Expired, Row

\* packages/trust: in every step, for every capability and resource, what takes
\* from the ledger or its surroundings grants nothing, and what adds to them
\* removes nothing.
THEOREM AnswersAreMonotoneInGrants == Spec => AuthorityIsMonotone
<1> DEFINE Step == \A a \in Actions : /\ Takes /\ Permits(a)' => Permits(a)
                                      /\ Adds /\ Permits(a) => Permits(a)'
<1>1. Init => LedgerInv
  BY DEF Init, LedgerInv
<1>2. LedgerInv /\ LedgerInv' /\ [Next]_vars => Step
  <2> SUFFICES ASSUME LedgerInv, LedgerInv', [Next]_vars, NEW a \in Actions
               PROVE  /\ Takes /\ Permits(a)' => Permits(a)
                      /\ Adds /\ Permits(a) => Permits(a)'
    OBVIOUS
  <2> USE DEF LedgerInv
  <2>1. Permits(a) <=> Carried(rows, now, armed, registry, a)
    BY PermitFacts DEF Permits
  <2>2. Permits(a)' <=> Carried(rows', now', armed', registry', a)
    <3>1. Permits(a)' <=> Resolve(Answers(rows', now', armed', registry'), a, now')
      BY DEF Permits, Resolve, Answers, Effective, Suppressed, Usable, Grants, Expired
    <3>2. rows' \in Seq(Row) /\ now' \in Nat
      BY DEF Row, Workspaces
    <3> QED
      BY <3>1, <3>2, PermitFacts
  <2>3. ASSUME Takes, Permits(a)' PROVE Permits(a)
    <3>1. PICK i \in DOMAIN rows' :
            /\ ~Suppressed({Home} \cup rows'[i].workspaces, armed')
            /\ rows'[i].status = "active" /\ ~Expired(rows'[i], now')
            /\ a.cap \in rows'[i].caps /\ a.cap \notin Custom \ registry'
            /\ a.res \in rows'[i].scope
      BY <2>2, <2>3 DEF Carried
    <3>2. i \in DOMAIN rows /\ armed \subseteq armed' /\ registry' \subseteq registry
      BY <2>3 DEF Takes
    <3>3. rows'[i] = rows[i] /\ now <= now'
      BY <3>1, <3>2, RowsStep
    <3>4. ~Suppressed({Home} \cup rows[i].workspaces, armed)
      BY <3>1, <3>2, <3>3, SuppressedIsMonotone
    <3>5. ~Expired(rows[i], now)
      BY <3>1, <3>2, <3>3, ExpiryIsFinal
    <3> QED
      BY <2>1, <3>1, <3>2, <3>3, <3>4, <3>5 DEF Carried
  <2>4. ASSUME Adds, Permits(a) PROVE Permits(a)'
    <3>1. PICK i \in DOMAIN rows :
            /\ ~Suppressed({Home} \cup rows[i].workspaces, armed)
            /\ rows[i].status = "active" /\ ~Expired(rows[i], now)
            /\ a.cap \in rows[i].caps /\ a.cap \notin Custom \ registry
            /\ a.res \in rows[i].scope
      BY <2>1, <2>4 DEF Carried
    <3>2. /\ rows'[i] = rows[i] /\ now' = now
          /\ armed' \subseteq armed /\ registry \subseteq registry'
      BY <2>4 DEF Adds
    <3>3. i \in DOMAIN rows'
      BY RowsStep
    <3>4. ~Suppressed({Home} \cup rows'[i].workspaces, armed')
      BY <3>1, <3>2, SuppressedIsMonotone
    <3> QED
      BY <2>2, <3>1, <3>2, <3>3, <3>4 DEF Carried
  <2> QED
    BY <2>3, <2>4
<1>3. LedgerInv /\ LedgerInv' /\ [Next]_vars => [Step]_vars
  BY <1>2
<1> QED
  BY <1>1, <1>3, LedgerStep, PTL DEF Spec, AuthorityIsMonotone

-----------------------------------------------------------------------------
(* What a host holds, against the ledger and the clock.                    *)

\* The types of everything but the ledger, the rules and the clock.
ShapeInv ==
  /\ armed \subseteq {Global} \cup Workspaces /\ registry \subseteq Custom
  /\ {disk.grant, store.grant} \subseteq {NoGrant} \cup DOMAIN rows
  /\ {edits, disk.grantAt, disk.rulesAt, store.at, heard} \subseteq Nat
  /\ backed \subseteq Actions

\* Nothing is younger than what was last brought, and that is not from the future.
TimeInv ==
  /\ heard <= now
  /\ disk.grantAt <= heard /\ disk.rulesAt <= heard /\ store.at <= heard

\* What the grant on the host admits, as long as it has not expired, the ledger admitted
\* when it confirmed that grant.
BackedInv ==
  disk.grant # NoGrant =>
    \A a \in Actions :
      Grants(rows[disk.grant], a) /\ ~Expired(rows[disk.grant], now) => a \in backed

HostInv == LedgerInv /\ RulesInv /\ ShapeInv /\ TimeInv /\ BackedInv

Before == {ss \in Nat \X Nat : ss[1] < ss[2]}

LEMMA HasLeast ==
  ASSUME NEW S \in SUBSET Nat, S # {}
  PROVE  \E l \in S : \A k \in S : l <= k
<1>1. IsWellFoundedOn(Before, Nat)
  BY NatLessThanWellFounded, Zenon DEF Before, OpToRel
<1>2. PICK l \in S : \A k \in S : ~(<<k, l>> \in Before)
  BY <1>1, WFMin, Zenon
<1>3. ASSUME NEW k \in S PROVE l <= k
  <2>1. l \in Nat /\ k \in Nat
    OBVIOUS
  <2>2. <<k, l>> \notin Before
    BY <1>2
  <2>3. k < l => <<k, l>> \in Before
    BY <2>1 DEF Before
  <2> QED
    BY <2>1, <2>2, <2>3
<1> QED
  BY <1>3

\* The newest of some rows is one of them.
LEMMA NewestIsOne ==
  ASSUME NEW n \in Nat, NEW S \in SUBSET (1..n), S # {}
  PROVE  Max(S) \in S
<1> DEFINE D == {n - k : k \in S}
<1>1. D \in SUBSET Nat /\ D # {}
  <2>1. \A k \in S : n - k \in Nat
    OBVIOUS
  <2> QED
    BY <2>1
<1>2. PICK d \in D : \A e \in D : d <= e
  <2> HIDE DEF D
  <2> QED
    BY <1>1, HasLeast
<1>3. PICK m \in S : d = n - m
  OBVIOUS
<1>4. ASSUME NEW k \in S PROVE k <= m
  <2>1. n - m <= n - k
    BY <1>2, <1>3
  <2> QED
    BY <2>1
<1> QED
  BY <1>4 DEF Max

LEMMA LaterOfTwo ==
  ASSUME NEW a \in Nat, NEW b \in Nat
  PROVE  Max({a, b}) \in {a, b}
<1>1. \E x \in {a, b} : \A y \in {a, b} : x >= y
  OBVIOUS
<1> QED
  BY <1>1 DEF Max

\* The grant that is pushed, if there is one, is a row that is active.
LEMMA TokenFacts ==
  ASSUME LedgerInv, GrantToken # NoGrant
  PROVE  GrantToken \in DOMAIN rows /\ rows[GrantToken].status = "active"
<1> DEFINE V == {i \in DOMAIN rows : rows[i].status = "active" /\ rows[i].offline}
<1>1. rows \in Seq(Row) /\ Len(rows) \in Nat /\ DOMAIN rows = 1..Len(rows)
  BY DEF LedgerInv
<1>2. V # {} /\ GrantToken = Max(V)
  BY DEF GrantToken
<1>3. V \in SUBSET (1..Len(rows))
  BY <1>1
<1>4. Max(V) \in V
  <2> HIDE DEF V, Max
  <2> QED
    BY <1>1, <1>2, <1>3, NewestIsOne
<1> QED
  BY <1>2, <1>4

\* What a row grants, and when it expires, never changes.
LEMMA RowsKeep ==
  ASSUME LedgerInv, [Next]_vars
  PROVE  \A i \in DOMAIN rows :
           /\ i \in DOMAIN rows' /\ rows'[i].expires = rows[i].expires
           /\ rows'[i].caps = rows[i].caps /\ rows'[i].scope = rows[i].scope
<1> USE DEF LedgerInv
<1>0. \A i \in DOMAIN rows : rows[i] \in Row
  OBVIOUS
<1>1. CASE UNCHANGED rows
  BY <1>1
<1>2. CASE Issue
  BY <1>2 DEF Issue
<1>3. CASE Revoke
  BY <1>0, <1>3 DEF Revoke, Row
<1>4. CASE Unregister
  BY <1>0, <1>4 DEF Unregister, Row
<1>5. CASE Tick \/ Throw \/ Register \/ EditRules \/ Push \/ Reload
  BY <1>1, <1>5 DEF Tick, Throw, Register, EditRules, Push, Reload
<1> QED
  BY <1>1, <1>2, <1>3, <1>4, <1>5 DEF Next, ControlPlane, Host, vars

\* The host's side stands still: what it holds is as sound as it was.
LEMMA BackedStays ==
  ASSUME LedgerInv, ShapeInv, BackedInv, [Next]_vars,
         disk'.grant = disk.grant, backed' = backed
  PROVE  BackedInv'
<1> SUFFICES ASSUME disk.grant # NoGrant, NEW a \in Actions,
                    Grants(rows'[disk.grant], a), ~Expired(rows'[disk.grant], now')
             PROVE  a \in backed
  BY DEF BackedInv
<1> DEFINE g == disk.grant
<1>1. g \in DOMAIN rows
  BY DEF ShapeInv
<1>2. /\ rows'[g].expires = rows[g].expires
      /\ rows'[g].caps = rows[g].caps /\ rows'[g].scope = rows[g].scope
  BY <1>1, RowsKeep
<1>3. rows[g] \in Row /\ rows[g].expires \in Nat
  <2>1. rows[g] \in Row
    BY <1>1 DEF LedgerInv
  <2> QED
    BY <2>1 DEF Row
<1>4. now <= now' /\ now \in Nat /\ now' \in Nat
  BY RowsStep, LedgerStep DEF LedgerInv
<1>5. Grants(rows[g], a)
  BY <1>2 DEF Grants
<1>6. ~Expired(rows[g], now)
  BY <1>2, <1>3, <1>4 DEF Expired
<1> QED
  BY <1>5, <1>6 DEF BackedInv

\* A push confirms a grant, or leaves the one on the disk as it was.
LEMMA PushBacks ==
  ASSUME LedgerInv, ShapeInv, BackedInv, Push
  PROVE  /\ disk'.grant \in {NoGrant} \cup DOMAIN rows /\ backed' \subseteq Actions
         /\ BackedInv'
<1> DEFINE g == GrantToken
<1>0. [Next]_vars
  BY DEF Next, Host
<1>1. CASE g = NoGrant
  <2>1. disk'.grant = disk.grant /\ backed' = backed
    BY <1>1 DEF Push
  <2> QED
    BY <1>0, <2>1, BackedStays DEF ShapeInv
<1>2. CASE g # NoGrant
  <2>1. g \in DOMAIN rows /\ rows[g].status = "active"
    BY <1>2, TokenFacts
  <2>2. /\ disk'.grant = g /\ backed' = {a \in Actions : Resolve(rows, a, now)}
        /\ rows' = rows /\ now' = now
    BY <1>2 DEF Push
  <2> HIDE DEF g
  <2>3. ASSUME NEW a \in Actions, Grants(rows[g], a), ~Expired(rows[g], now)
        PROVE  a \in backed'
    <3>1. Usable(rows[g], now)
      BY <2>1, <2>3 DEF Usable
    <3>2. Resolve(rows, a, now)
      BY <2>1, <2>3, <3>1 DEF Resolve
    <3> QED
      BY <2>2, <3>2
  <2>4. BackedInv'
    BY <2>2, <2>3 DEF BackedInv
  <2> QED
    BY <2>1, <2>2, <2>4
<1> QED
  BY <1>1, <1>2

\* Every step keeps what the host holds behind the ledger and the clock.
LEMMA HostStep == HostInv /\ [Next]_vars => HostInv'
<1> SUFFICES ASSUME HostInv, [Next]_vars PROVE HostInv'
  OBVIOUS
<1>0. LedgerInv' /\ RulesInv'
  BY LedgerStep, RulesStep DEF HostInv
<1>1. DOMAIN rows \subseteq DOMAIN rows' /\ now <= now' /\ now \in Nat /\ now' \in Nat
  BY <1>0, RowsStep DEF HostInv, LedgerInv
<1>2. LedgerInv /\ ShapeInv /\ TimeInv /\ BackedInv
  BY DEF HostInv
<1>3. ASSUME UNCHANGED <<disk, store, heard, backed>>, armed' \subseteq {Global} \cup Workspaces,
             registry' \subseteq Custom, edits' \in Nat
      PROVE  HostInv'
  <2>1. ShapeInv'
    BY <1>1, <1>2, <1>3 DEF ShapeInv
  <2>2. TimeInv'
    BY <1>1, <1>2, <1>3 DEF TimeInv, ShapeInv
  <2>3. BackedInv'
    BY <1>2, <1>3, BackedStays
  <2> QED
    BY <1>0, <2>1, <2>2, <2>3 DEF HostInv
<1>4. CASE UNCHANGED vars
  BY <1>2, <1>3, <1>4 DEF vars, ShapeInv
<1>5. CASE Issue \/ Revoke \/ Tick
  BY <1>2, <1>3, <1>5 DEF Issue, Revoke, Tick, ShapeInv
<1>6. CASE Register \/ Unregister \/ EditRules
  BY <1>2, <1>3, <1>6 DEF Register, Unregister, EditRules, ShapeInv
<1>7. CASE Throw
  BY <1>2, <1>3, <1>7 DEF Throw, ShapeInv
<1>8. CASE Push
  <2>1. UNCHANGED <<rows, armed, registry, now, edits, store>>
    BY <1>8 DEF Push
  <2>2. \/ heard' = now /\ disk'.grantAt \in {disk.grantAt, now}
                        /\ disk'.rulesAt \in {disk.rulesAt, now}
        \/ heard' = heard /\ disk'.grantAt = disk.grantAt /\ disk'.rulesAt = disk.rulesAt
    BY <1>8 DEF Push
  <2>3. /\ disk'.grant \in {NoGrant} \cup DOMAIN rows /\ backed' \subseteq Actions
        /\ BackedInv'
    BY <1>2, <1>8, PushBacks
  <2>4. ShapeInv'
    BY <1>1, <1>2, <2>1, <2>2, <2>3 DEF ShapeInv
  <2>5. TimeInv'
    BY <1>1, <1>2, <2>1, <2>2 DEF TimeInv, ShapeInv
  <2> QED
    BY <1>0, <2>3, <2>4, <2>5 DEF HostInv
<1>9. CASE Reload
  <2>1. /\ UNCHANGED <<rows, armed, registry, now, edits, disk, heard, backed>>
        /\ store'.grant = disk.grant /\ store'.at = Max({disk.grantAt, disk.rulesAt})
    BY <1>9 DEF Reload, Loaded
  <2>2. store'.at \in {disk.grantAt, disk.rulesAt}
    BY <1>2, <2>1, LaterOfTwo DEF ShapeInv
  <2>3. ShapeInv'
    BY <1>2, <2>1, <2>2 DEF ShapeInv
  <2>4. TimeInv'
    BY <1>2, <2>1, <2>2 DEF TimeInv
  <2>5. BackedInv'
    BY <1>2, <2>1, BackedStays
  <2> QED
    BY <1>0, <2>3, <2>4, <2>5 DEF HostInv
<1> QED
  BY <1>4, <1>5, <1>6, <1>7, <1>8, <1>9 DEF Next, ControlPlane, Host

LEMMA HostSound == Spec => []HostInv
<1>1. Init => HostInv
  <2> SUFFICES ASSUME Init PROVE HostInv
    OBVIOUS
  <2>1. LedgerInv /\ RulesInv
    BY AuthorityAssumption DEF Init, LedgerInv, RulesInv
  <2>2. ShapeInv /\ TimeInv /\ BackedInv
    BY DEF Init, ShapeInv, TimeInv, BackedInv, NoGrant
  <2> QED
    BY <2>1, <2>2 DEF HostInv
<1> QED
  BY <1>1, HostStep, PTL DEF Spec

\* The type invariant of Authority.
THEOREM AuthorityTypeCorrect == Spec => []TypeOK
<1>1. HostInv => TypeOK
  BY DEF HostInv, LedgerInv, RulesInv, ShapeInv, TypeOK
<1> QED
  BY <1>1, HostSound, PTL

\* A certificate a host governs by: it is held, not expired, grants the action, and the
\* Store is not stale where staleness closes.
LEMMA GovernedFacts ==
  ASSUME HostInv, NEW a \in Actions, Governed(a)
  PROVE  /\ store.grant # NoGrant /\ Grants(rows[store.grant], a)
         /\ ~Expired(rows[store.grant], now)
         /\ ~(Stale(store.at, now) /\ FailClosed)
<1>1. Resolve(Held(store), a, now) /\ ~(Stale(store.at, now) /\ FailClosed)
  BY DEF Governed, Authorized
<1>2. store.grant # NoGrant
  BY <1>1 DEF Held, Resolve
<1> DEFINE r == rows[store.grant]
           h == [r EXCEPT !.status = "active"]
<1>3. Usable(h, now) /\ Grants(h, a)
  <2>1. Held(store) = <<h>>
    BY <1>2 DEF Held
  <2> HIDE DEF h
  <2> QED
    BY <1>1, <2>1 DEF Resolve
<1>4. r \in Row
  <2>1. store.grant \in DOMAIN rows
    BY <1>2 DEF HostInv, ShapeInv
  <2> QED
    BY <2>1 DEF HostInv, LedgerInv
<1>5. h.caps = r.caps /\ h.scope = r.scope /\ h.expires = r.expires
  BY <1>4 DEF Row
<1> QED
  BY <1>1, <1>2, <1>3, <1>5 DEF Usable, Grants, Expired

\* buildActorConfig, WriteArtefacts, Store.Reload: a host permits by certificate only what
\* the ledger permitted when it last confirmed that grant, and nothing past its expiry.
THEOREM HostStaysWithinLedger == Spec => []HostWithinLedger
<1>1. ASSUME HostInv, NEW a \in Actions, Governed(a), store.grant = disk.grant
      PROVE  a \in backed /\ ~Expired(rows[store.grant], now)
  BY <1>1, GovernedFacts DEF HostInv, BackedInv
<1>2. HostInv => HostWithinLedger
  BY <1>1 DEF HostWithinLedger
<1> QED
  BY <1>2, HostSound, PTL

\* Store.Reload and staleness: the status a Store goes by is no younger than what was last
\* brought, so a host that fails closed stops governing one bound after that, whatever it
\* reloads.
THEOREM SilenceWithdrawsEverywhere == Spec => []SilenceWithdraws
<1>1. ASSUME HostInv, FailClosed, MaxStatusAge >= 0, now - heard > MaxStatusAge,
             NEW a \in Actions, Governed(a)
      PROVE  FALSE
  <2>1. ~Stale(store.at, now)
    BY <1>1, GovernedFacts
  <2>2. store.at <= heard /\ store.at \in Nat /\ heard \in Nat /\ now \in Nat
    BY <1>1 DEF HostInv, TimeInv, ShapeInv, LedgerInv
  <2>3. now - store.at > MaxStatusAge
    BY <1>1, <2>2, AuthorityAssumption
  <2> QED
    BY <1>1, <2>1, <2>3, AuthorityAssumption DEF Stale
<1>2. HostInv => SilenceWithdraws
  BY <1>1 DEF SilenceWithdraws
<1> QED
  BY <1>2, HostSound, PTL
=============================================================================
