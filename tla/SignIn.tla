-------------------------------- MODULE SignIn --------------------------------
(***************************************************************************)
(* How a person becomes a human Actor of the control plane and signs in:   *)
(* self-registration and the bootstrap administrator, invitations, binding *)
(* an identity of an SSO connection, and sign-in proper                    *)
(* (packages/controlplane: lib/user-login-channel.ts, lib/sso.ts,          *)
(* lib/auth-config.ts, lib/certificates.ts, db/*.dao.ts and the public     *)
(* routes that open an attempt).                                           *)
(*                                                                         *)
(* A page is one browser or wallet at work; it makes one attempt at a      *)
(* time, with the VaultysId of its holder.  An attempt is an               *)
(* AuthCertificate row, and the server runs one handler for it: the        *)
(* requests of "sign in with this browser" one after the other, or the     *)
(* PeerJS session behind a QR code.  Each of a handler's database          *)
(* operations is a step, so that attempts interleave between them.         *)
(*                                                                         *)
(* The challenge proves the holder's key in two rounds.  A person may let  *)
(* an attempt wait: a browser's for a time to live, which each of its      *)
(* requests checks, a wallet's for the window of the code and then for a   *)
(* round at a time, which nothing else bounds.  A tick in which an attempt *)
(* expires costs a fault, and so does one in which a handler is at its own *)
(* operations.  A row nobody can use any more (expired, or its page was    *)
(* told that it failed) is not kept.                                       *)
(***************************************************************************)
EXTENDS Naturals, FiniteSets

CONSTANTS
  Pages, Dids, None,
  Wallets,   \* pages that scan a QR code; the others hold a key of their own
  Holder,    \* whose VaultysId a page uses
  Subjects,  \* people the SSO connection can authenticate
  NumLinks,  \* bound of the model: invitations
  Ttl,       \* AUTH_CERTIFICATE_TTL_MS
  Window,    \* the window of a QR code, at most MAX_P2P_CONNECT_WINDOW_SECONDS
  Silence,   \* the 5 seconds a wallet that is connected may be silent
  Addressed, \* subjects, and None for an administrator's invitation, whose links name
             \* the address
  MaxFaults  \* bound of the model: crashes, failed steps, silent or slow people

ASSUME SignInAssumption ==
  /\ Wallets \subseteq Pages /\ Holder \in [Pages -> Dids]
  /\ None \notin Dids \union Subjects
  /\ Addressed \subseteq Subjects \union {None}
  /\ NumLinks \in Nat /\ MaxFaults \in Nat
  /\ Ttl \in Nat /\ Window \in 0..Ttl /\ Silence \in Nat

VARIABLES
  row,      \* each page's attempt: its AuthCertificate, what is left of its handler's
            \* timer, and the ticks its handler took itself
  at,       \* what its handler does next
  humans,   \* Actors of kind human
  mail,     \* the human who holds the address, the only one of the model
  link,     \* Invitation rows
  grants,   \* certificates issued on an invitation
  boot,     \* holders of the certificate with the bootstrap id
  bound,    \* SsoIdentity.did
  minting,  \* subjects whose SSO login is between its delete and its create
  sessions, \* who got a session
  since,    \* ticks since there was a human; more than any attempt may take as soon as none
            \* is left that may register without an invitation
  faults

ledger == <<humans, mail, grants, boot>>
sso    == <<bound, minting>>
vars   == <<row, at, ledger, link, sso, sessions, since, faults>>

Links == 1..NumLinks
NoRow == [kind |-> "none", link |-> 0, st |-> "failed", age |-> 0, offer |-> FALSE,
          left |-> 0, slow |-> 0]
Unused == [st |-> "unused", of |-> None, by |-> {}]

Init ==
  /\ row = [p \in Pages |-> NoRow] /\ at = [p \in Pages |-> "idle"]
  /\ humans = {} /\ mail = None
  /\ link = [l \in Links |-> Unused] /\ grants = {} /\ boot = {}
  /\ bound = [s \in Subjects |-> None] /\ minting = {}
  /\ sessions = {}
  /\ since = 0 /\ faults = 0

Faulty == faults < MaxFaults /\ faults' = faults + 1

\* isAuthCertificateExpired: asked whenever a row is read.
Expired_Late(r) == r.age > Ttl + 1
Expired(r) == r.age > Ttl

-----------------------------------------------------------------------------
(* An attempt: opened, challenged, proved.                                 *)

Goto(p, step) == at' = [at EXCEPT ![p] = step]
Set(p, field, v) == row' = [row EXCEPT ![p][field] = v]

\* A handler that throws: a QR code's row is marked failed, a browser's page is told.
Ends(p) == row' = [row EXCEPT ![p] = NoRow] /\ Goto(p, "idle")

\* Status 2: the key of the row can be traded for a session, unless it has expired.
Done(p, offer) ==
  /\ row' = [row EXCEPT ![p] =
               IF Expired(row[p]) THEN NoRow
               ELSE [@ EXCEPT !.st = "done", !.offer = offer, !.left = 0, !.slow = 0]]
  /\ Goto(p, "idle")

\* The route that opens it: for an invitation that can be redeemed, or for whoever comes
\* (hasAnyHuman) ...
Open(p, l) ==
  /\ at[p] = "idle" /\ row[p] = NoRow
  /\ l # 0 => link[l].st = "live"
  /\ row' = [row EXCEPT ![p] = [NoRow EXCEPT
               !.kind = IF l # 0 \/ humans = {} THEN "register" ELSE "login",
               !.link = l, !.st = "asked"]]
  /\ Goto(p, "record")
  /\ UNCHANGED <<ledger, link, sso, sessions, since, faults>>

\* ... creates the row, as was decided ...
Record(p) ==
  /\ at[p] = "record"
  /\ Set(p, "st", "open")
  /\ Goto(p, IF p \in Wallets THEN "listen" ELSE "idle")
  /\ UNCHANGED <<ledger, link, sso, sessions, since, faults>>

\* ... and reads the window: startP2PSession.
Listen(p) ==
  /\ at[p] = "listen"
  /\ Set(p, "left", Window) /\ Goto(p, "dial")
  /\ UNCHANGED <<ledger, link, sso, sessions, since, faults>>

\* A wallet scans the code; it has a round, or the rest of the window, to say something.
Dial(p) ==
  /\ at[p] = "dial"
  /\ Set(p, "left", IF row[p].left < Silence THEN Silence ELSE row[p].left) /\ Goto(p, "greet")
  /\ UNCHANGED <<ledger, link, sso, sessions, since, faults>>

\* Round one: the wallet claims a key, the server signs.
Challenge(p) ==
  /\ row[p].st = "open"
  /\ IF p \in Wallets
       THEN at[p] = "greet" /\ Goto(p, "round")
            /\ row' = [row EXCEPT ![p].st = "step1", ![p].left = Silence]
       ELSE Set(p, "st", "step1") /\ UNCHANGED at
  /\ UNCHANGED <<ledger, link, sso, sessions, since, faults>>

\* The loop and its channel wait for the wallet.
Waits(p) == at[p] \in {"dial", "greet", "round"}

\* withDeadline: nobody scanned the code in its window, or a wallet went silent or away.
Deadline(p) ==
  /\ Waits(p) /\ Faulty /\ Ends(p)
  /\ UNCHANGED <<ledger, link, sso, sessions, since>>

\* loginHuman.
Known_Certified(p) == Holder[p] \in boot \union {g[2]: g \in grants}
Known(p) == Holder[p] \in humans

Registered(p) == IF row[p].link = 0 THEN "boot" ELSE "mark"

\* ensureExists: a human already there is found, another is created in a step of its own.
Ensure(p) == Goto(p, IF Holder[p] \in humans THEN Registered(p) ELSE "create")

\* Round two: the wallet's signature completes the exchange (handleSuccess).
Prove(p) ==
  /\ row[p].st = "step1" /\ at[p] \in {"idle", "round"}
  /\ IF row[p].kind = "login"
       THEN IF Known(p) THEN Done(p, FALSE) ELSE Ends(p)
       ELSE /\ IF row[p].link = 0 THEN Ensure(p) ELSE Goto(p, "look")
            /\ UNCHANGED row
  /\ UNCHANGED <<ledger, link, sso, sessions, since, faults>>

-----------------------------------------------------------------------------
(* Registration (registerHuman, registerHumanFromInvitation).              *)

Writes(p) == row[p].link # 0 /\ link[row[p].link].of \in Addressed
Refused(p) ==
  link[row[p].link].st # "live" \/ (Writes(p) /\ mail \notin {None, Holder[p]})

Look_Claims(p) ==
  LET l == row[p].link IN
  /\ at[p] = "look"
  /\ IF Refused(p)
       THEN Ends(p) /\ UNCHANGED link
       ELSE /\ link' = [link EXCEPT ![l].st = "spent", ![l].by = @ \union {Holder[p]}]
            /\ Ensure(p) /\ UNCHANGED row
  /\ UNCHANGED <<ledger, sso, sessions, since, faults>>

\* findValidByToken, findByEmail.
Look(p) ==
  /\ at[p] = "look"
  /\ IF Refused(p) THEN Ends(p) ELSE Ensure(p) /\ UNCHANGED row
  /\ UNCHANGED <<ledger, link, sso, sessions, since, faults>>

\* Actor.did and User.email are unique.
Create(p) ==
  /\ at[p] = "create"
  /\ IF Holder[p] \in humans \/ (Writes(p) /\ mail # None)
       THEN Ends(p) /\ UNCHANGED <<humans, mail>>
       ELSE /\ humans' = humans \union {Holder[p]}
            /\ mail' = IF Writes(p) THEN Holder[p] ELSE mail
            /\ Goto(p, Registered(p)) /\ UNCHANGED row
  /\ UNCHANGED <<link, grants, boot, sso, sessions, since, faults>>

\* markRedeemed; the update of a row that is gone throws.
Mark(p) ==
  LET l == row[p].link IN
  /\ at[p] = "mark"
  /\ IF link[l].st = "gone"
       THEN Ends(p) /\ UNCHANGED link
       ELSE /\ link' = [link EXCEPT ![l].st = "spent", ![l].by = @ \union {Holder[p]}]
            /\ Goto(p, IF link[l].of = None THEN "grant" ELSE "bind") /\ UNCHANGED row
  /\ UNCHANGED <<ledger, sso, sessions, since, faults>>

\* bindDid, on an unbound row only; SsoIdentity.did is unique.
Bind(p) ==
  LET s == link[row[p].link].of IN
  /\ at[p] = "bind"
  /\ IF bound[s] # None
       THEN Goto(p, "grant") /\ UNCHANGED <<row, bound>>
       ELSE IF \E t \in Subjects: bound[t] = Holder[p]
       THEN Ends(p) /\ UNCHANGED bound
       ELSE /\ bound' = [bound EXCEPT ![s] = Holder[p]]
            /\ Goto(p, "grant") /\ UNCHANGED row
  /\ UNCHANGED <<ledger, link, minting, sessions, since, faults>>

\* issueAdminGrant.
Grant(p) ==
  /\ at[p] = "grant" /\ Goto(p, "boot")
  /\ grants' = grants \union {<<row[p].link, Holder[p]>>}
  /\ UNCHANGED <<row, humans, mail, link, boot, sso, sessions, since, faults>>

-----------------------------------------------------------------------------
(* The bootstrap administrator.                                            *)

\* isBootstrapAdminNeeded: a wallet is issued the certificate, a browser is offered a round.
Needed(p) ==
  /\ at[p] = "boot"
  /\ IF boot = {} /\ p \in Wallets
       THEN Goto(p, "issue") /\ UNCHANGED row
       ELSE Done(p, boot = {})
  /\ UNCHANGED <<ledger, link, sso, sessions, since, faults>>

\* BOOTSTRAP_ADMIN_CERT_ID: a second certificate of that id is not created.
Persist_OwnId(p) == boot' = boot \union {Holder[p]}
Persist(p) == boot' = IF boot = {} THEN {Holder[p]} ELSE boot

\* ensureBootstrapAdmin, after its check.
Issue(p) ==
  /\ at[p] = "issue"
  /\ Persist(p) /\ Done(p, FALSE)
  /\ UNCHANGED <<humans, mail, grants, link, sso, sessions, since, faults>>

\* handleCertificateRequest: the round the page runs before it signs in.
Round(p) ==
  /\ row[p].st = "done" /\ row[p].offer
  /\ Persist(p) /\ Set(p, "offer", FALSE)
  /\ UNCHANGED <<at, humans, mail, grants, link, sso, sessions, since, faults>>

\* It fails, or is never run; the page signs in all the same.
NoRound(p) ==
  /\ row[p].st = "done" /\ row[p].offer /\ Faulty
  /\ Set(p, "offer", FALSE)
  /\ UNCHANGED <<at, ledger, link, sso, sessions, since>>

\* authorize: the row is spent.
Redeem(p) ==
  /\ row[p].st = "done" /\ ~row[p].offer
  /\ sessions' = sessions \union {Holder[p]}
  /\ Ends(p)
  /\ UNCHANGED <<ledger, link, sso, since, faults>>

-----------------------------------------------------------------------------
(* Where invitations come from.                                            *)

Unsent == {l \in Links: link[l].st = "unused"}
NextLink == CHOOSE l \in Unsent: \A k \in Unsent: l <= k

Sent(of) == [Unused EXCEPT !.st = "live", !.of = of]

\* createInvitationAction: refused for an address somebody holds.
Invite ==
  /\ boot # {} /\ Unsent # {} /\ (None \in Addressed => mail = None)
  /\ link' = [link EXCEPT ![NextLink] = Sent(None)]
  /\ UNCHANGED <<row, at, ledger, sso, sessions, since, faults>>

\* resolveSsoLogin: a session, or the subject's pending links are deleted ...
SsoLogin(s) ==
  /\ boot # {}
  /\ IF bound[s] # None
       THEN sessions' = sessions \union {bound[s]} /\ UNCHANGED <<link, minting>>
       ELSE /\ minting' = minting \union {s}
            /\ link' = [l \in Links |->
                 IF link[l].of = s /\ link[l].st = "live"
                 THEN [link[l] EXCEPT !.st = "gone"] ELSE link[l]]
            /\ UNCHANGED sessions
  /\ UNCHANGED <<row, at, ledger, bound, since, faults>>

\* ... and a link to bind a VaultysId is sent.
SsoLink(s) ==
  /\ s \in minting /\ Unsent # {}
  /\ minting' = minting \ {s}
  /\ link' = [link EXCEPT ![NextLink] = Sent(s)]
  /\ UNCHANGED <<row, at, ledger, bound, sessions, since, faults>>

-----------------------------------------------------------------------------
(* Faults, and time.                                                       *)

\* Handlers at an operation of their own.
Busy == {p \in Pages: at[p] # "idle" /\ ~Waits(p)}

\* A database operation of a handler fails.
Throw(p) ==
  /\ p \in Busy /\ Faulty /\ Ends(p)
  /\ UNCHANGED <<ledger, link, sso, sessions, since>>

\* Handlers and sessions are lost, rows are not.
Crash ==
  /\ Faulty
  /\ row' = [p \in Pages |-> IF at[p] = "idle" THEN row[p] ELSE NoRow]
  /\ at' = [p \in Pages |-> "idle"]
  /\ minting' = {}
  /\ UNCHANGED <<ledger, link, bound, sessions, since>>

\* A row there is gets older, until it has expired; the timer of a handler that waits runs,
\* and what another one takes is counted.
Older(p) == [row[p] EXCEPT !.age = IF row[p].st = "asked" \/ Expired(row[p]) THEN @ ELSE @ + 1,
                           !.left = IF Waits(p) THEN @ - 1 ELSE @,
                           !.slow = IF p \in Busy THEN @ + 1 ELSE @]

\* How long an attempt can wait for its person.
Patience(p) == IF p \in Wallets THEN Window + 2 * Silence ELSE Ttl
Longest == MaxFaults + IF Window + 2 * Silence > Ttl THEN Window + 2 * Silence ELSE Ttl

\* An attempt that may register without an invitation.
Walks(p) == row[p].kind = "register" /\ row[p].link = 0 /\ row[p].st # "done"

\* The loop behind a QR code does not look whether its row has expired.
Tick ==
  /\ \A p \in Pages: Waits(p) => row[p].left > 0
  /\ LET opened == {p \in Pages: row[p] # NoRow}
         late == {p \in opened: Expired(Older(p)) /\ ~Expired(row[p])}
         over == {p \in late: at[p] = "idle"}
     IN /\ since <= Longest \/ opened # {}
        /\ IF late = {} /\ Busy = {} THEN UNCHANGED faults ELSE Faulty
        /\ row' = [p \in Pages |-> IF p \in opened \ over THEN Older(p) ELSE NoRow]
  /\ since' = IF humans = {} THEN since
              ELSE IF since > Longest \/ ~\E p \in Pages: Walks(p) THEN Longest + 1
              ELSE since + 1
  /\ UNCHANGED <<at, ledger, link, sso, sessions>>

\* An attempt under way: the person, and the handler that serves them.
Attempt(p) ==
  \/ Record(p) \/ Listen(p) \/ Dial(p) \/ Challenge(p) \/ Prove(p)
  \/ Look(p) \/ Create(p) \/ Mark(p) \/ Bind(p) \/ Grant(p)
  \/ Needed(p) \/ Issue(p) \/ Round(p) \/ Redeem(p)

Next ==
  \/ \E p \in Pages, l \in 0..NumLinks: Open(p, l)
  \/ \E p \in Pages: Attempt(p) \/ Deadline(p) \/ NoRound(p) \/ Throw(p)
  \/ \E s \in Subjects: SsoLogin(s) \/ SsoLink(s)
  \/ Invite \/ Crash \/ Tick

Spec == Init /\ [][Next]_vars /\ \A p \in Pages: WF_vars(Attempt(p)) /\ SF_vars(Open(p, 0))

-----------------------------------------------------------------------------
Row == [kind: {"none", "register", "login"}, link: 0..NumLinks,
        st: {"asked", "open", "step1", "done", "failed"}, age: 0..Ttl + 1, offer: BOOLEAN,
        left: Nat, slow: Nat]

TypeOK ==
  /\ row \in [Pages -> Row]
  /\ at \in [Pages -> {"idle", "record", "listen", "dial", "greet", "round", "look",
                       "create", "mark", "bind", "grant", "boot", "issue"}]
  /\ humans \subseteq Dids /\ mail \in humans \union {None}
  /\ link \in [Links -> [st: {"unused", "live", "spent", "gone"},
                         of: Subjects \union {None}, by: SUBSET Dids]]
  /\ grants \subseteq Links \X Dids /\ boot \subseteq Dids
  /\ bound \in [Subjects -> Dids \union {None}]
  /\ minting \subseteq Subjects /\ sessions \subseteq humans
  /\ since \in 0..Longest + 1 /\ faults \in 0..MaxFaults
  /\ \A p \in Pages:
       /\ at[p] \notin {"idle"} => row[p].st \in {"asked", "open", "step1"}
       /\ at[p] = "record" <=> row[p].st = "asked"

\* Whoever registers at the same time, by a wallet or by a browser: one human at most
\* holds the certificate the system issued on its own, and is registered.
OneAdministrator == Cardinality(boot) <= 1 /\ boot \subseteq humans

\* registerHumanFromInvitation, one write after the other.  A row that can be traded for a
\* session stands for a finished onboarding: the human exists, the invitation is spent, its
\* capabilities are granted, its subject is bound.  And whatever failed on the way, no
\* invitation is spent on nobody: who redeemed it is a human by then.
OnboardingIsWhole ==
  /\ \A p \in Pages: row[p].st = "done" =>
       LET l == row[p].link IN
       /\ Holder[p] \in humans
       /\ l # 0 => /\ link[l].st = "spent" /\ <<l, Holder[p]>> \in grants
                   /\ link[l].of # None => bound[link[l].of] # None
  /\ \A l \in Links: link[l].by \subseteq humans /\ (link[l].st = "spent" => link[l].by # {})

\* Registration without an invitation ends with the last attempt whose route saw no human
\* yet.  After the first registration nobody walks in by a browser once a time to live has
\* passed, nor by a wallet once a window and two rounds have, which may be longer; but for
\* the time the handler itself took, from the route's read to the new human.
DoorCloses == [][\A p \in Pages:
  row[p].link = 0 /\ at[p] = "create" /\ at'[p] = "boot" =>
    since <= Patience(p) + row[p].slow]_vars

\* A human can sign in, whatever became of the attempt that registered them.
HumansGetIn == []<>(humans \subseteq sessions)
=============================================================================
