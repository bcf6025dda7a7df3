---------------------------- MODULE GrantDelivery ----------------------------
(***************************************************************************)
(* From a client's handshake to the certificate it holds: the connection   *)
(* maps of ControlPlaneWSServer (packages/controlplane/lib/ws-server.ts),  *)
(* the admin's decision (lib/registrations.ts), delivery from the three    *)
(* places that start it, the certificate exchange, and the client's side   *)
(* of it (packages/sdk/src/actor-runtime.ts).  Everything on the server is *)
(* an async function on one event loop: it runs to its next await in one   *)
(* step and anything may happen before it resumes.                         *)
(*                                                                         *)
(* One Actor is modelled: every map is keyed by its DID or by one of its   *)
(* sockets.  The client uses its sockets in order, one at a time.  The     *)
(* kill switch gates are the subject of KillSwitch.                        *)
(***************************************************************************)
EXTENDS Integers, Sequences, FiniteSets, SequencesExt

CONSTANTS
  NSock,      \* bound of the model: connections the client makes
  MaxRegs,    \* bound of the model: registration rows
  MaxGrants,  \* bound of the model: registrations approved
  MaxCrashes, \* bound of the model: restarts of the control plane
  Adversity   \* what else may go wrong, see below

ASSUME DeliveryAssumption ==
  /\ NSock \in Nat \ {0}
  /\ MaxRegs \in Nat \ {0} /\ MaxGrants \in Nat
  /\ MaxCrashes \in Nat
  /\ Adversity \subseteq
       {"midauth",   \* the socket drops while handleAuthChallenge is awaiting
        "lateclose", \* the client is back before the server sees its close
        "dbfail",    \* a step of handleCertChallenge throws
        "deny"}      \* a second admin denies what another is approving

Socket == 1..NSock
Reg    == 1..MaxRegs
\* Who runs deliverApprovedCapabilities: each socket's handshake, the approval
\* action and the sweep.
Approval == 0
Sweep    == NSock + 1
Source   == 0..(NSock + 1)

VARIABLES
  sock,      \* "unused", "open", "dead" (close not yet seen), "closed"
  auth,      \* where handleAuthChallenge is, per socket
  connected, \* `connected`: the socket of the Actor's entry, or 0
  bySender,  \* keys of `connectedBySender`
  awaiting,  \* `awaitingApproval`, in insertion order
  issuance,  \* `certIssuance`: registration and session per socket
  task,      \* where handleCertChallenge is, per socket
  job,       \* where each delivery is
  toClient, toServer, \* messages on the wire
  holds,     \* the SDK's certSessionId per connection, 0 when null
  status, delivered,  \* the PendingRegistration rows
  decide,    \* admin actions between their read and their write
  actor,     \* the Actor row exists
  certs,     \* certificates minted per registration (2: two or more)
  void,      \* registrations delivered with nothing left to grant
  keyless,   \* registrations whose row has no public key
  approvedOnce, \* history: registrations some admin approved
  late,      \* history: sockets closed while their handshake was awaiting
  held,      \* registrations whose certificate the client received
  crashes

server == <<auth, connected, bySender, awaiting, issuance, task, job>>
wire   == <<toClient, toServer, holds, held>>
ledger == <<delivered, actor, certs, void>>
table  == <<status, keyless, approvedOnce, ledger>>
vars   == <<sock, server, wire, table, decide, late, crashes>>

NoExchange == [reg |-> 0, ses |-> 0]
Idle       == [pc |-> "idle", reg |-> 0]

Undelivered_Any == {r \in Reg : status[r] # "none" /\ ~delivered[r]}
Undelivered == {r \in Reg : status[r] = "approved" /\ ~delivered[r]}
Pending     == {r \in Reg : status[r] = "pending"}
Oldest(R)   == CHOOSE r \in R : \A q \in R : r <= q
Waiting     == {awaiting[i] : i \in DOMAIN awaiting}

\* A message to a socket that is not open is lost (WsSender.sendRaw).
Send(s, m) == IF sock[s] = "open" THEN [toClient EXCEPT ![s] = Append(@, m)]
              ELSE toClient

Init ==
  /\ sock = [s \in Socket |-> "unused"]
  /\ auth = [s \in Socket |-> "none"]
  /\ connected = 0 /\ bySender = {} /\ awaiting = <<>>
  /\ issuance = [s \in Socket |-> NoExchange]
  /\ task = [s \in Socket |-> Idle]
  /\ job = [x \in Source |-> Idle]
  /\ toClient = [s \in Socket |-> <<>>] /\ toServer = [s \in Socket |-> <<>>]
  /\ holds = [s \in Socket |-> 0]
  /\ status = [r \in Reg |-> "none"]
  /\ delivered = [r \in Reg |-> FALSE]
  /\ decide = [r \in Reg |-> {}]
  /\ actor = FALSE
  /\ certs = [r \in Reg |-> 0]
  /\ void = {} /\ held = {} /\ crashes = 0
  /\ keyless = {} /\ approvedOnce = {} /\ late = {}

-----------------------------------------------------------------------------
\* The client connects, with its exchange state reset (connectOnce).
Open(s) ==
  /\ sock[s] = "unused"
  /\ \A t \in 1..(s - 1) :
       sock[t] = "closed" \/ (sock[t] = "dead" /\ "lateclose" \in Adversity)
  /\ sock' = [sock EXCEPT ![s] = "open"]
  /\ UNCHANGED <<server, wire, table, decide, late, crashes>>

\* The client's end of the socket goes away.
Drop(s) ==
  /\ sock[s] = "open"
  /\ "midauth" \in Adversity \/ auth[s] \in {"none", "done"}
  /\ sock' = [sock EXCEPT ![s] = "dead"]
  /\ toClient' = [toClient EXCEPT ![s] = <<>>]
  /\ UNCHANGED <<server, toServer, holds, held, table, decide, late, crashes>>

\* What the end of a socket does to the maps of connections.  The Actor's entry
\* goes, whichever socket it names.
Unfile(s) ==
  /\ \/ s \notin Waiting /\ UNCHANGED awaiting
     \/ \E i \in DOMAIN awaiting :
          awaiting[i] = s /\ awaiting' = RemoveAt(awaiting, i)
  /\ bySender' = bySender \ {s}
  /\ connected' = IF s \in bySender THEN 0 ELSE connected
  /\ late' = IF auth[s] \in {"none", "done"} THEN late ELSE late \cup {s}

\* handleClose without the entry of the exchange.
Close_KeepsExchange(s) ==
  /\ sock[s] = "dead"
  /\ sock' = [sock EXCEPT ![s] = "closed"]
  /\ Unfile(s)
  /\ toServer' = [toServer EXCEPT ![s] = <<>>]
  /\ UNCHANGED <<auth, issuance, task, job, toClient, holds, held, table, decide,
                 crashes>>

\* handleClose.
Close(s) ==
  /\ sock[s] = "dead"
  /\ sock' = [sock EXCEPT ![s] = "closed"]
  /\ Unfile(s)
  /\ issuance' = [issuance EXCEPT ![s] = NoExchange]
  /\ toServer' = [toServer EXCEPT ![s] = <<>>]
  /\ UNCHANGED <<auth, task, job, toClient, holds, held, table, decide, crashes>>

-----------------------------------------------------------------------------
\* handleAuthChallenge from the moment the identity is proven; one action per
\* stretch between awaits.  None of them looks at the socket again.
Prove(s) ==
  /\ sock[s] = "open" /\ auth[s] = "none"
  /\ auth' = [auth EXCEPT ![s] = "proven"]
  /\ UNCHANGED <<sock, connected, bySender, awaiting, issuance, task, job,
                 wire, table, decide, late, crashes>>

LookUp(s) ==
  /\ auth[s] = "proven"
  /\ auth' = [auth EXCEPT ![s] = IF actor THEN "known" ELSE "new"]
  /\ UNCHANGED <<sock, connected, bySender, awaiting, issuance, task, job,
                 wire, table, decide, late, crashes>>

Seat(s) ==
  /\ auth[s] = "known"
  /\ auth' = [auth EXCEPT ![s] = "done"]
  /\ connected' = s /\ bySender' = bySender \cup {s}
  /\ job' = [job EXCEPT ![s] = [pc |-> "find", reg |-> 0]]
  /\ UNCHANGED <<sock, awaiting, issuance, task, wire, table, decide, late, crashes>>

FindPending(s) ==
  /\ auth[s] = "new"
  /\ \/ /\ Pending # {}
        /\ auth' = [auth EXCEPT ![s] = "done"]
        /\ awaiting' = Append(awaiting, s)
     \/ /\ Pending = {}
        /\ auth' = [auth EXCEPT ![s] = "create"]
        /\ UNCHANGED awaiting
  /\ UNCHANGED <<sock, connected, bySender, issuance, task, job,
                 wire, table, decide, late, crashes>>

\* A new row; the event is recorded before the connection is filed.
NewRow == \E r \in Reg :
  /\ status[r] = "none" /\ \A q \in 1..(r - 1) : status[q] # "none"
  /\ status' = [status EXCEPT ![r] = "pending"]

Create(s) ==
  /\ auth[s] = "create"
  /\ NewRow
  /\ auth' = [auth EXCEPT ![s] = "event"]
  /\ UNCHANGED <<sock, connected, bySender, awaiting, issuance, task, job,
                 wire, keyless, approvedOnce, ledger, decide, late, crashes>>

File(s) ==
  /\ auth[s] = "event"
  /\ auth' = [auth EXCEPT ![s] = "done"]
  /\ awaiting' = Append(awaiting, s)
  /\ UNCHANGED <<sock, connected, bySender, issuance, task, job,
                 wire, table, decide, late, crashes>>

\* handleCapabilityRequest of a connected Actor for something it holds nothing
\* of: a row, unless one is pending or waiting to be delivered.  The key is that
\* of the Actor's entry, if that is still there.
CapabilityRequest(s) ==
  /\ sock[s] = "open" /\ s \in bySender /\ s \notin Waiting
  /\ Undelivered = {} /\ Pending = {}
  /\ NewRow
  /\ keyless' = IF connected = 0 THEN keyless \cup {r \in Reg : status'[r] # status[r]}
                ELSE keyless
  /\ UNCHANGED <<sock, server, wire, approvedOnce, ledger, decide, late, crashes>>

-----------------------------------------------------------------------------
MayApprove == Cardinality({r \in Reg : status[r] = "approved"}) < MaxGrants

\* approvePendingRegistration and denyPendingRegistration: the status is read,
\* and much later written unconditionally.
ReadRow(r, d) ==
  /\ status[r] = "pending" /\ d \notin decide[r]
  /\ d = "deny" => "deny" \in Adversity
  /\ decide' = [decide EXCEPT ![r] = @ \cup {d}]
  /\ UNCHANGED <<sock, server, wire, table, late, crashes>>

UpsertActor(r) ==
  /\ "approve" \in decide[r] /\ "upserted" \notin decide[r]
  /\ decide' = [decide EXCEPT ![r] = @ \cup {"upserted"}]
  /\ actor' = TRUE
  /\ UNCHANGED <<sock, server, wire, status, keyless, approvedOnce, delivered, certs,
                 void, late, crashes>>

Approve(r) ==
  /\ "upserted" \in decide[r] /\ job[Approval] = Idle
  /\ MayApprove
  /\ status' = [status EXCEPT ![r] = "approved"]
  /\ approvedOnce' = approvedOnce \cup {r}
  /\ decide' = [decide EXCEPT ![r] = @ \ {"approve", "upserted"}]
  /\ job' = [job EXCEPT ![Approval].pc = "find"]
  /\ UNCHANGED <<sock, auth, connected, bySender, awaiting, issuance, task,
                 wire, keyless, ledger, late, crashes>>

Deny(r) ==
  /\ "deny" \in decide[r]
  /\ status' = [status EXCEPT ![r] = "denied"]
  /\ decide' = [decide EXCEPT ![r] = @ \ {"deny"}]
  /\ UNCHANGED <<sock, server, wire, keyless, approvedOnce, ledger, late, crashes>>

\* A script, a second instance or SQL approves: no delivery is started here.
ApproveElsewhere(r) ==
  /\ status[r] = "pending" /\ MayApprove
  /\ status' = [status EXCEPT ![r] = "approved"]
  /\ approvedOnce' = approvedOnce \cup {r}
  /\ actor' = TRUE
  /\ UNCHANGED <<sock, server, wire, keyless, delivered, certs, void, decide, late,
                 crashes>>

-----------------------------------------------------------------------------
\* A sweep that only looks at seated Actors.
SweepQuery_SeatedOnly ==
  /\ job[Sweep] = Idle
  /\ connected # 0
  /\ Undelivered # {}
  /\ job' = [job EXCEPT ![Sweep].pc = "listed"]
  /\ UNCHANGED <<sock, auth, connected, bySender, awaiting, issuance, task,
                 wire, table, decide, late, crashes>>

\* sweepUndeliveredGrants: query, then leave out an Actor that is mid-exchange.
SweepQuery ==
  /\ job[Sweep] = Idle
  /\ connected # 0 \/ awaiting # <<>>
  /\ Undelivered # {}
  /\ job' = [job EXCEPT ![Sweep].pc = "listed"]
  /\ UNCHANGED <<sock, auth, connected, bySender, awaiting, issuance, task,
                 wire, table, decide, late, crashes>>

MidExchange == \E s \in Socket :
  issuance[s] # NoExchange /\ s \in bySender \cup Waiting

SweepPick ==
  /\ job[Sweep].pc = "listed"
  /\ job' = [job EXCEPT ![Sweep].pc = IF MidExchange THEN "idle" ELSE "find"]
  /\ UNCHANGED <<sock, auth, connected, bySender, awaiting, issuance, task,
                 wire, table, decide, late, crashes>>

\* redeliverExistingCertificate, for a handshake with nothing to deliver.
Redelivered(x) ==
  IF x \in Socket /\ \E r \in Reg : certs[r] > 0
    THEN Send(x, [type |-> "issued", n |-> CHOOSE r \in Reg : certs[r] > 0])
    ELSE toClient

\* deliverApprovedCapabilities, to its second await.
FindGrant(x) ==
  /\ job[x].pc = "find"
  /\ \/ /\ Undelivered # {}
        /\ job' = [job EXCEPT ![x] = [pc |-> "found", reg |-> Oldest(Undelivered)]]
        /\ UNCHANGED toClient
     \/ /\ Undelivered = {}
        /\ job' = [job EXCEPT ![x] = Idle]
        /\ toClient' = Redelivered(x)
  /\ UNCHANGED <<sock, auth, connected, bySender, awaiting, issuance, task,
                 toServer, holds, held, table, decide, late, crashes>>

\* A session id never used before on this connection: one nobody remembers.
Remembered(s) ==
  {issuance[s].ses, holds[s]}
    \cup {toServer[s][i] : i \in DOMAIN toServer[s]}
    \cup {toClient[s][i].n : i \in DOMAIN toClient[s]}
NewSession(s) == Oldest(1..(Cardinality(Remembered(s)) + 1) \ Remembered(s))

\* An issuance without the check for one in flight.
StartIssuance_Always(s, r) ==
  /\ issuance' = [issuance EXCEPT ![s] = [reg |-> r, ses |-> NewSession(s)]]
  /\ toClient' = Send(s, [type |-> "challenge", n |-> NewSession(s)])

\* startCertificateIssuance: never restart an exchange in flight.
StartIssuance(s, r) ==
  IF issuance[s] # NoExchange
    THEN UNCHANGED <<issuance, toClient>>
    ELSE /\ issuance' = [issuance EXCEPT ![s] = [reg |-> r, ses |-> NewSession(s)]]
         /\ toClient' = Send(s, [type |-> "challenge", n |-> NewSession(s)])

\* deliverApprovedCapabilities, the rest: the first awaiting connection is
\* promoted (without an entry when the row has no key to make one from), else the
\* connected one is used, else there is nobody to deliver to.  A grant with every
\* capability filtered away is only marked.
Deliver(x) ==
  LET r == job[x].reg
      target == IF awaiting # <<>> THEN Head(awaiting) ELSE connected
  IN
  /\ job[x].pc = "found"
  /\ job' = [job EXCEPT ![x] = Idle]
  /\ IF awaiting = <<>> THEN UNCHANGED <<awaiting, connected, bySender>>
     ELSE /\ awaiting' = Tail(awaiting)
          /\ IF r \in keyless THEN UNCHANGED <<connected, bySender>>
             ELSE connected' = target /\ bySender' = bySender \cup {target}
  /\ \/ /\ target # 0
        /\ StartIssuance(target, r)
        /\ UNCHANGED <<delivered, void>>
     \/ /\ target # 0
        /\ delivered' = [delivered EXCEPT ![r] = TRUE]
        /\ void' = void \cup {r}
        /\ UNCHANGED <<issuance, toClient>>
     \/ /\ target = 0
        /\ toClient' = Redelivered(x)
        /\ UNCHANGED <<issuance, delivered, void>>
  /\ UNCHANGED <<sock, auth, task, toServer, holds, held, status, keyless,
                 approvedOnce, actor, certs, decide, late, crashes>>

-----------------------------------------------------------------------------
\* The SDK.  The rounds of the exchange are one: the prompt and the answer.  A
\* prompt for another session than the one it remembers is an error, and only
\* cert_issued (or a new connection) makes it forget.
ClientReceive(s) ==
  /\ sock[s] = "open" /\ toClient[s] # <<>>
  /\ toClient' = [toClient EXCEPT ![s] = Tail(@)]
  /\ LET m == Head(toClient[s]) IN
       \/ /\ m.type = "challenge" /\ holds[s] = 0
          /\ holds' = [holds EXCEPT ![s] = m.n]
          /\ toServer' = [toServer EXCEPT ![s] = Append(@, m.n)]
          /\ UNCHANGED held
       \/ /\ m.type = "challenge" /\ holds[s] # 0
          /\ UNCHANGED <<holds, toServer, held>>
       \/ /\ m.type = "issued"
          /\ holds' = [holds EXCEPT ![s] = 0]
          /\ held' = held \cup {m.n}
          /\ UNCHANGED toServer
       \/ /\ m.type = "failed"
          /\ UNCHANGED <<holds, toServer, held>>
  /\ UNCHANGED <<sock, server, table, decide, late, crashes>>

\* handleCertChallenge: an answer for no session, or another one, is refused.
CertChallenge(s) ==
  /\ sock[s] \in {"open", "dead"} /\ toServer[s] # <<>> /\ task[s] = Idle
  /\ toServer' = [toServer EXCEPT ![s] = Tail(@)]
  /\ task' = IF issuance[s].ses = Head(toServer[s])
               THEN [task EXCEPT ![s] = [pc |-> "update", reg |-> issuance[s].reg]]
               ELSE task
  /\ UNCHANGED <<sock, auth, connected, bySender, awaiting, issuance, job,
                 toClient, holds, held, table, decide, late, crashes>>

\* The challenger is complete: the entry goes before the rows are written.
Complete(s) ==
  /\ task[s].pc = "update"
  /\ issuance' = [issuance EXCEPT ![s] = NoExchange]
  /\ task' = [task EXCEPT ![s].pc = "persist"]
  /\ UNCHANGED <<sock, auth, connected, bySender, awaiting, job, wire, table,
                 decide, late, crashes>>

Persist(s) ==
  /\ task[s].pc = "persist"
  /\ certs' = [certs EXCEPT ![task[s].reg] = IF @ < 2 THEN @ + 1 ELSE @]
  /\ task' = [task EXCEPT ![s].pc = "mark"]
  /\ UNCHANGED <<sock, auth, connected, bySender, awaiting, issuance, job,
                 wire, status, keyless, approvedOnce, delivered, actor, void, decide,
                 late, crashes>>

\* markDelivered, then cert_issued.
MarkDelivered(s) ==
  /\ task[s].pc = "mark"
  /\ delivered' = [delivered EXCEPT ![task[s].reg] = TRUE]
  /\ toClient' = Send(s, [type |-> "issued", n |-> task[s].reg])
  /\ task' = [task EXCEPT ![s] = Idle]
  /\ UNCHANGED <<sock, auth, connected, bySender, awaiting, issuance, job,
                 toServer, holds, held, status, keyless, approvedOnce, actor, certs,
                 void, decide, late, crashes>>

\* Any of those steps throws: failCertIssuance.  A row that is not found after the
\* exchange (a script removed it) ends it in the same way.
FailIssuance(s) ==
  /\ "dbfail" \in Adversity /\ task[s] # Idle
  /\ issuance' = [issuance EXCEPT ![s] = NoExchange]
  /\ toClient' = Send(s, [type |-> "failed", n |-> 0])
  /\ task' = [task EXCEPT ![s] = Idle]
  /\ UNCHANGED <<sock, auth, connected, bySender, awaiting, job, toServer,
                 holds, held, table, decide, late, crashes>>

\* The control plane dies and comes back: every map and task is gone.
Crash ==
  /\ crashes < MaxCrashes
  /\ crashes' = crashes + 1
  /\ sock' = [s \in Socket |-> IF sock[s] = "unused" THEN "unused" ELSE "closed"]
  /\ auth' = [s \in Socket |-> "none"]
  /\ connected' = 0 /\ bySender' = {} /\ awaiting' = <<>>
  /\ issuance' = [s \in Socket |-> NoExchange]
  /\ task' = [s \in Socket |-> Idle]
  /\ job' = [x \in Source |-> Idle]
  /\ toClient' = [s \in Socket |-> <<>>] /\ toServer' = [s \in Socket |-> <<>>]
  /\ decide' = [r \in Reg |-> {}]
  /\ UNCHANGED <<holds, held, table, late>>

Handshake(s) == Prove(s) \/ LookUp(s) \/ Seat(s) \/ FindPending(s)
                  \/ Create(s) \/ File(s)
Exchange(s)  == CertChallenge(s) \/ Complete(s) \/ Persist(s) \/ MarkDelivered(s)
Admin(r)     == UpsertActor(r) \/ Approve(r) \/ Deny(r)
Delivery(x)  == FindGrant(x) \/ Deliver(x)

Next ==
  \/ \E s \in Socket :
       \/ Open(s) \/ Drop(s) \/ Close(s)
       \/ Handshake(s) \/ CapabilityRequest(s)
       \/ ClientReceive(s) \/ Exchange(s) \/ FailIssuance(s)
  \/ \E r \in Reg :
       \/ \E d \in {"approve", "deny"} : ReadRow(r, d)
       \/ Admin(r) \/ ApproveElsewhere(r)
  \/ SweepQuery \/ SweepPick
  \/ \E x \in Source : Delivery(x)
  \/ Crash

Spec == Init /\ [][Next]_vars

\* Node resumes whatever an await has answered, the sweep runs on its timer,
\* the client reads its socket and reconnects.  Nobody has to drop, crash, ask
\* or decide.
FairSpec ==
  /\ Spec
  /\ \A s \in Socket :
       /\ WF_vars(Open(s)) /\ WF_vars(Close(s)) /\ WF_vars(Handshake(s))
       /\ WF_vars(ClientReceive(s)) /\ WF_vars(Exchange(s))
  /\ \A r \in Reg : WF_vars(Admin(r))
  /\ WF_vars(SweepPick) /\ SF_vars(SweepQuery)
  /\ \A x \in Source : WF_vars(Delivery(x))

-----------------------------------------------------------------------------
TypeOK ==
  /\ sock \in [Socket -> {"unused", "open", "dead", "closed"}]
  /\ auth \in [Socket -> {"none", "proven", "known", "new", "create", "event",
                          "done"}]
  /\ connected \in 0..NSock /\ bySender \subseteq Socket
  /\ awaiting \in Seq(Socket)
  /\ issuance \in [Socket -> [reg : 0..MaxRegs, ses : Nat]]
  /\ task \in [Socket -> [pc : {"idle", "update", "persist", "mark"},
                          reg : 0..MaxRegs]]
  /\ job \in [Source -> [pc : {"idle", "listed", "find", "found"},
                         reg : 0..MaxRegs]]
  /\ holds \in [Socket -> Nat]
  /\ status \in [Reg -> {"none", "pending", "approved", "denied"}]
  /\ delivered \in [Reg -> BOOLEAN]
  /\ decide \in [Reg -> SUBSET {"approve", "upserted", "deny"}]
  /\ actor \in BOOLEAN
  /\ certs \in [Reg -> 0..2]
  /\ void \subseteq Reg /\ held \subseteq Reg /\ crashes \in Nat
  /\ keyless \subseteq Reg /\ approvedOnce \subseteq Reg /\ late \subseteq Socket

\* "Never restart an exchange already in flight on this connection": whatever
\* approval, handshake and sweep do together, an entry is not overwritten.
ExchangeNotRestarted ==
  [][\A s \in Socket :
       issuance[s] # NoExchange => issuance'[s] \in {issuance[s], NoExchange}]_vars

\* Once handleClose has run nothing refers to the socket: no map holds it and no
\* exchange is open on it, so no delivery, from wherever it was started and at
\* whichever await it stands, picks a connection that is gone.  Excepted are the
\* sockets whose handshake was awaiting when they closed (ws-server.ts, line 670).
ClosedIsForgotten ==
  \A s \in Socket : sock[s] = "closed" /\ s \notin late =>
    s \notin bySender \cup Waiting \cup {connected} /\ issuance[s] = NoExchange

\* Certificates come from decisions: what is minted, or marked as delivered, some
\* admin approved; and what the client holds, or the console shows as delivered,
\* is in the ledger.  "Approved" and "approved now" differ: a decided registration
\* can be denied afterwards (registrations.ts, line 25).
CertificatesAreApproved ==
  \A r \in Reg :
    /\ certs[r] > 0 \/ delivered[r] => r \in approvedOnce /\ actor
    /\ r \in held \/ (delivered[r] /\ r \notin void) => certs[r] > 0

Collected(r) == r \in held \cup void
Reachable == <>[](\E s \in Socket : sock[s] = "open")

\* "Without it, such an Actor holds an approved grant it cannot collect until it
\* happens to reconnect, which for a long-lived agent may be never": with the
\* sweep, every grant reaches a client that stays connected in the end, over
\* drops, restarts, deliveries tried while it was away or started twice.
GrantCollected ==
  Reachable => \A r \in Reg : status[r] = "approved" ~> Collected(r)
=============================================================================
