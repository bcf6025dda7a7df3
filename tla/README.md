# VaultysClaw in TLA+

Specifications of the concurrent and failure-prone parts of VaultysClaw, checked
with TLC on small instances and, where a property is worth it for every size,
proved with TLAPS. Every definition is translated from the source; `PROJECT.json`
(`map`) names the lines of each.

## The system

VaultysClaw gives agents, sensors and humans ("Actors") a cryptographic identity
and certificates of capabilities. Its parts, the state they keep and how they meet:

| Part | State | Operations | Talks to |
|---|---|---|---|
| WebSocket server (`packages/controlplane/lib/ws-server.ts`) | `pending`, `connected`, `connectedBySender`, `awaitingApproval`, `certIssuance`, write buffers, sweep flag | handshake, capability request, certificate exchange, status answers, pushes, sweep, close | SDK and Go clients over sockets; the tables; called by admin actions in the same process |
| Registrations (`lib/registrations.ts`, `db/pending-registration.dao.ts`) | `PendingRegistration` rows: status, `deliveredAt` | approve, deny | WebSocket server (deliver), kill switch (gate) |
| Kill switch (`lib/kill-switch.ts`, `app/admin/kill-switch/actions.ts`, `db/kill-switch.dao.ts`) | rows = armed switches; `cache`, `inFlight` | arm, disarm, getKillSwitchState, invalidate, predicates | handshake gate, status answers, approval gate, push |
| Trust policy, custom capabilities | settings, registry rows; the same two cache variables each | read, write, invalidate | status answers, delivery filter |
| Certificates (`lib/certificates.ts`) | certificate ledger | issue, persist, revoke, bootstrap administrator | exchange, console |
| Policy and trust libraries (`packages/policy`, `packages/trust`, `sdk-go/authz`, `sdk-go/rules`) | none (pure) | resolvePermission, evaluate, renewal | clients and interception point |
| SDK (`packages/sdk`) | connection, exchange in progress, certificates, staples, outstanding status checks, snapshot file | connect and retry, exchange, refresh, apply revocation and kill switch | WebSocket server |
| Go client (`sdk-go/vconn`) | telemetry queue, capability file, pinned anchor | enqueue, flush, reconnect, pin | WebSocket server, collector |
| Sensor interception (`vaultysclaw-sensor/internal/intercept`) | policy store (grant, rules, anchor, age), audit spool (channel, batch, file, sidecar, counters) | reload, decide, record, drain | files; supervisor |
| Supervisor (`internal/supervise`) | local and pushed settings, artefact files, daemon connections | apply push, write artefacts, answer hooks | control plane, harness hooks |
| Collector (`internal/vconn`, `internal/ingest`) | pending approvals, sessions, event store | await approval, approve, reject, ingest | Go clients, operator |
| Webhooks (`packages/webhook-dispatcher`) | queue jobs with what was delivered | deliver, record, retry, dead-letter | queue, endpoints |
| Sign-in (`lib/user-login-channel.ts`, `lib/browser-connect.ts`) | token-keyed requests, timers, invitations | open, prove, claim, expire | browsers |

What is hard: all of the control plane runs on one event loop, so every `await` is
a point where anything else may run; the server, the client and the tables each
remember part of an exchange and none survives a restart or a dropped socket
together; cached state is read before an await and used after it; the spool's
goroutines, files and crashes interleave byte by byte. The list of places is
`hazards` in `PROJECT.json`.

What makes each part correct:

* kill switch: after an admin has been told the switch is on, nothing it covers is
  let in or answered "active"; after it is off, clients recover by themselves;
  an answer is never older than the time to live;
* grant delivery: an approved grant reaches a connected client; one exchange at a
  time per connection; certificates only from approvals; a registration is decided
  once;
* spool: every event is written or counted as lost, in order, and readable events
  stay until they are received; shutdown loses nothing and ends;
* policy supply: a host runs what the last push that verified said; an unsigned push
  only tightens; a Store never loses a policy it has, and loads pairs that belong
  together;
* authority: revoking grants nothing and adding removes nothing; a host permits by
  certificate only what the ledger confirmed, and nothing once it is cut off for long;
  the safety floor holds; a request decided blindly is decided soundly or marked;
* SDK: no decision on a certificate out of good standing for longer than the bound;
  a switch once obeyed is obeyed until it is disarmed; rights come back;
* webhooks: at least once per subscription, not again where it succeeded, and what is
  given up can be replayed; every event comes to an end;
* telemetry: what nobody threw away is shown, in order, and everything queued is
  applied in the end;
* sign-in: one bootstrap administrator, no half-finished onboarding behind a session,
  self-registration ends with the last attempt opened before it, every human can sign in.

## Modules

| Module | Models | Extends |
|---|---|---|
| `FileSpool` | `internal/intercept/spool.go` | |
| `SwitchCache` | `getKillSwitchState`, `invalidateKillSwitchCache` | |
| `KillSwitch` | arm and disarm against handshakes, status answers, approvals, exchanges and the push | `SwitchCache` |
| `KillSwitchProofs` | theorems about it and the cache | `KillSwitch` |
| `GrantDelivery` | connection maps, handshake, decision, delivery, exchange, client, restart | |
| `GrantDeliveryProofs` | theorems about it | `GrantDelivery` |
| `ActorRuntime` | the SDK's certificates: refresh, answers, permission checks, revocation, switch, reconnection, state file | |
| `ActorRuntimeProofs` | theorems about it | `ActorRuntime` |
| `Authority` | ledger, effective status, permission, rules, certificate and floor on a host | |
| `AuthorityProofs` | theorems about it | `Authority` |
| `PolicySupply` | from the stored configuration to the two Stores of a host: push, artefact files, settings, first launch | |
| `PolicySupplyProofs` | theorems about it | `PolicySupply` |
| `EventDelivery` | what delivery of an event promises, abstractly | |
| `WebhookDelivery` | recording, queueing, the dispatcher's two halves, retries, dead letters | implements `EventDelivery` |
| `WebhookDeliveryProofs` | theorems about it | `WebhookDelivery` |
| `Telemetry` | sensor state, client queue, collector and control plane, approval of devices | |
| `SensorProofs` | theorems about the spool and the telemetry, the two halves of the sensor program | `FileSpool`, `Telemetry` |
| `SignIn` | registration, invitations, bootstrap certificate, SSO binding, sessions | |
| `SignInProofs` | theorems about it | `SignIn` |
| `MC...` | instances for TLC | theirs |

The modules meet at the same tables and messages and are composed where the
interleaving matters: the cache with everyone who decides by it (`KillSwitch`), the
server with its clients (`GrantDelivery`, `ActorRuntime`), the control plane with a
host's files and Stores (`PolicySupply`), sensor with server (`Telemetry`). Where one
module needs another's subject and not its interleavings, it takes it in one step and
says so: `Authority` reads the switches and pushes a configuration at once, because
how both go wrong is what `KillSwitch` and `PolicySupply` are about.

Definitions named `X_Something` are variants of `X` with a plausible bug. They are
used by no specification; each is there because replacing `X` by it makes TLC
refute the property `mutants` names, which shows that the property depends on the
code.

### FileSpool

`queue` is the channel, `batch` the writer's slice, `dropped`, `pending`, `written`
the atomics, `live` and `shipping` the readable lines of the two files, `tail`
how the live file ends: with a newline, with a part of a line, or with a `bare` line
that lacks only its newline. An event is the ordinal of its
`Record`; a line is one unit of the file's cap, and carries the gap marker of
`append`. `Record`, `Take`, `Tick`, `SeeDone` and `Stop` are the cases of the
`select` statements; `append` (holding `mu`) is one step, in `Flush`: written as far
as it fits, skipped because the open failed, or cut anywhere by an error, with
events counted written that the failing `Flush` of the buffer never stored. `Drain`
is three steps, because only the rotation holds `mu`. `Crash` loses memory and may
cut an append anywhere; `Restart` is `NewFileSpool`.
`readSpool` skips a part of a line and returns a bare one. What is appended next is
glued to either, and `readSpool` then returns neither the old line nor the new one:
behind a part, the first event of the batch is lost, behind a bare line the event that
could be read before is lost too. Unreadable bytes take no room in the model.
Nothing but the tests calls `Drain` at this commit; it is modelled as the exported
operation it is, one call at a time. Marshalling an event cannot fail and is left
out.

### SwitchCache and KillSwitch

The armed set is a version number, and its content is added by `KillSwitch`. Time
is discrete and kept as ages: of the cache entry, of the outstanding query, and of
each overwritten version (`gone`, a history variable). Each age stops at the value
from which it makes no difference (the time to live for the entry, time to live plus
query time for a version), so there is no bound on the clock. A query is answered in
three steps (sent, read by the database, resolved), which is where a write and its
invalidation can fall. `Latency` bounds how long a query takes; with 0 a query still
takes its three steps, only no tick falls between them.

`KillSwitch` instantiates the callers of `getKillSwitchState` with everyone who
decides by it: per Actor the handshake gate, the status answer and the approval
gate, and per written version the push. What each does with the set it gets is
`Gate`, `Answer`, `Approve` and `PushClose`; `Resumed` runs all callers of a query to
their next await, as the promise does. Humans are exempt; a workspace switch covers
those filed under it (`Home`). Whoever is connected may ask about anybody's
certificate, one question at a time. Writes come from the actions (which go on to
invalidate, and to push when they armed) or from elsewhere. Handshakes, status
checks and the exchange are cut at their awaits; sockets close at once
(`GrantDelivery` has the late close).

### GrantDelivery

One Actor and its sockets, in the order the client opens them. `auth`, `task` and
`job` say at which await `handleAuthChallenge`, `handleCertChallenge` and each
`deliverApprovedCapabilities` is; `connected`, `bySender`, `awaiting`, `issuance`
are the maps, `awaiting` in insertion order because delivery takes the first.
Deliveries start in three places: `job[0]` the approval, `job[s]` the handshake of
socket `s`, `job[NSock+1]` the sweep. `decide` holds the admin actions that have
passed their check and not yet written. The rounds of the exchange between prompt
and completion are one message each way. The client keeps `holds`, its
`certSessionId`, exactly as the SDK does: set by the first `cert_challenge`, cleared
by `cert_issued` or a new connection and by nothing else.
A grant whose capabilities were all deleted from the registry is marked delivered
without an exchange (`void`).

A row asked for by a connection whose entry a late close has removed carries no public
key (`keyless`); a waiting connection it is delivered to goes into no map.
`approvedOnce` and `late` are history: what was ever approved, and which sockets were
closed in the middle of their handshake.

Simplifications: the registration timeout before the identity is proven and failed
proofs change none of the state shown; no part of the program deletes a registration,
and one removed by a script in the middle of an exchange ends it as a failing step
does (`FailIssuance`); the three reads of `handleCapabilityRequest` are one step; the
kill-switch gates are in `KillSwitch`. `Adversity` selects what may go wrong beyond
restarts: `midauth` the socket drops while its handshake is awaiting, `lateclose`
the client is back before the server has seen its close, `dbfail` a step of the
exchange throws, `deny` a second admin denies what another approves.

### ActorRuntime

`held` and `saved` are a status and an age of check per certificate; `waiters` is
`pendingStatusChecks`, matched first in, first out; `resumes` the awaits an answer has
resolved and that have not gone on, which is where the answer is applied; `job` the
refresh loops; `window` the bound in force, the fallback until a configuration has come.
The server's side is cut where it awaits: a request is `asked`, its row is read
(`reading`), its answer is signed and sent, and a revocation or a switch may fall
anywhere between; the redelivery (`task`), after a handshake or a request for
capabilities (`Ask`), reads what is active and sends it after an await, whatever the
switch says. `wire` holds the messages on their way in the order they were sent; one
may travel for up to `Latency` ticks, and an answer older than the bound when it arrives
is refused (`Verified`). The push of a switch is a message like the others, the end of
the connection behind it, and may miss an Actor seated past the gate (`Miss`). `gone`
and `barred` count how long a row has not been active and how long the Actor has been
under a switch, and the properties compare them with the bound. A late handler and a late
message cost a fault for each tick, so that lateness is bounded by name and not
excluded. Expiry, the registry filter and organisations that fail open are left out.

### Authority

One Actor, its certificates in order of issue, and one host. A pattern is the set of
what it matches, so rules and scopes are sets of resources, and parsing of patterns
is left out. `Effective` is `resolveCertStatus`, `Resolve` is `resolvePermission`,
`Evaluate` is `sdk-go/rules` with its third answer for a subject nobody looked up,
`Intercept` and `Supervise` are the two deciders. `Push`, `Reload` move the grant and
the rules with their times. `Push` is possible whenever the Actor could have a
connection, and asks for no switch: `pushActorConfig` does not, and an Actor the switch
covers may be connected (see what was observed below). `heard` and `backed` are history, against
which what the host permits is compared.

### PolicySupply

The control plane reads the stored configuration and the grant at different awaits, so
a push carries any configuration and any grant the connection has seen (`rows`,
`grants`), in any order. `OnActorConfig` is cut between its two files, the reload and
the settings; the sensor may crash at each cut, a write may fail, and the interception
role's Store reads the two files one after the other on its own timer. A grant on the
disk may expire, and then blocks every reload and the next start until another replaces
it; a push whose settings do not verify ends there. `last` is history: the payloads the
running process last took its artefacts and its settings from.

### EventDelivery and WebhookDelivery

`job` is the job in Redis with what `updateData` recorded; `run` the attempt and its
two halves; `adrift` and `stray` what a half goes on doing after the other one ended
the attempt. Lost workers, failing reads and writes and late answers are counted in
`faults`; BullMQ's attempts, backoff and stall limit are external. `EventDelivery` has
no queue and no attempts: an event may be settled only when each subscription that was
in force all along has received it, and abandoned only for a spent budget.
`KeepsThePromise` is the refinement, liveness included.

### Telemetry

An observation is a level per workload. The sensor compares with `entries` and sends
deltas; `backlog` is the client's bounded `queue`, `wire` the batches of a session,
`work` the handlers running on the server. `server` says which of the two servers it is:
the collector keeps an unknown device waiting (`held` is its `pending`, `decision` the
channel of the wait) and saves a `snapshot`; the control plane starts a handler per
message. Four names differ from the source because `FileSpool` has the same ones and
one module of proofs extends both. `lost` and `overtaken` are history: what
the properties say holds unless one of them has happened, and every place that sets
them is a place in the code where an event is thrown away or overtaken. `reported`
is what the last event of a workload said: a change of no more than `Epsilon` is taken
over by `Reconcile` and not reported. An event carries the confidences of its workload
(`conf`), those it had before when it stopped: the collector deletes the row of a stopped
workload, the control plane writes them like any other. `awaitApproval` is three steps,
as in the code: its `select` is woken (`Admit`, `TurnAway`, `ApprovalTimeout`), the client
is told, and the deferred deletion takes the entry away (`Release`).

### SignIn

A page is a wallet or a browser with one key; its attempt is a row and a handler
(`at`), one step per database operation. Whether there is a human is read (`Open`) before
the row is created (`Record`). A browser's requests check the row's age; the loop behind
a QR code waits on timers of its own (`left`: the window until a wallet dials in, then
what is left of it or a round, then a round) and does not, so time passes in its rounds
too, and an expired row is only found out when it could be redeemed. `slow` counts what
the handler took itself. The bootstrap certificate has a fixed id, so
a second issue fails. `since` is how long there has been a human, or more than any bound
once nobody is left who may register without an invitation. Revocation and
expiry of invitations, admin edits and the sweep of old rows are left out.

Every module states its types in `TypeOK` (`CacheTypeOK`, `TelemetryTypeOK`). It is
proved for every module but the abstract `EventDelivery`, so the runs spend themselves
on what could go wrong instead.

## Runs

Deadlock is not checked: clients may stop connecting, events, edits, faults and writes
are bounded, and each system may come to rest.

| Run | Shows | Bounds |
|---|---|---|
| `spool` | accounting, gap markers not overstated, order of the trail, durability of readable events, Close returns | queue 1, batch 2, file 2, 4 events, 1 crash, failing disk: every bound is reached and passed |
| `switch` | covered Actors are cut off and never answered active after a push | an Actor of the workspace and a newcomer, 2 writes, time to live 1 |
| `switch_disarm` | recovery after disarm, humans exempt; the cache's staleness, monotone answers, quiet invalidation; all callers resumed | an Actor and a human, 2 writes, time to live 1, query within a tick |
| `grant` | exchange not restarted, a closed socket is in no map, certificates are approved | 2 sockets, 1 registration, 1 restart, all adversities |
| `grant_calm` | the grant is collected | 2 sockets, 2 registrations, 1 grant, 1 restart, no adversity |
| `grant_evicted` | refuted: the same, when the server sees a close late | 2 sockets, 2 registrations |
| `webhook` | no second delivery where all was recorded, sound dead letters, the abstract promise | 2 hooks and a channel, 1 event of two kinds (with and without a template), 2 attempts, 1 stall, 2 faults, 1 toggle |
| `policy` | the last push is in force, unsigned pushes never loosen, no policy is dropped, consistent pairs, the launch sees the first push | 3 stored configurations (one with rules the host cannot use), 1 certificate that may expire, 1 edit, 2 pushes, 1 each of drop, crash, timer reload and failed write |
| `telemetry` | what runs is shown as last reported, reports keep their order, listed connections are open, everything settles | 2 workloads, queue 2, batch 1, 2 sessions, 1 change, 1 fault, both servers |
| `actor` | decisions are fresh, the switch stays obeyed, rights return | 2 certificates, bound 1, fallback 2, timeout 1, latency 2, 1 change, 1 fault |
| `signin` | one administrator, whole onboarding, the door closes, humans get in | a wallet and a browser, 2 people, 1 invitation, 1 SSO subject, window, round and time to live 1, 1 fault |
| `authority` | attribution, floor, host within the ledger, silence withdraws the certificate, monotone answers | 3 kinds of certificate, 2 issued, 5 rule sets, 4 resources, 2 edits, time 2, bound 1, fails closed |

The refuted run checks a statement a comment of the repository makes; `findings`
quotes it and says what the trace shows.

Two writes are enough for the switch because a write, its invalidation and its push
meet at most one outstanding query, which has read one earlier version; two
sockets because an old connection only ever interferes with its successor. One event is
enough for delivery because jobs share nothing but the subscriptions, which are
toggled. Three pushes let an old and a new configuration arrive in either order and a
third replace them. Two certificates let an answer for one be taken for the
other; a bound of one tick lets a status be fresh, at the bound and past it. Two
pages are the least at which two attempts race for one invitation, one address or the
bootstrap id; with a window, a round and a time to live of 1 a wallet still registers when
its row has long expired, and a browser does not. Two issued certificates of three kinds give every order of a
wider, a narrower and an unverifiable one.

`CutOff` and `NoActiveAnswer` speak of Actors covered since the version the last
push acted on. Until then the admin has not been told anything. A push may act on a
version without its own switch, and an Actor can be connected past the gate (both
below): `CutOff` is about connections made through the handshake. `NoActiveAnswer` says
what becomes of answers after the push: none turns out "active" any more, and one that
had, and is still being signed, goes to a requester the push did not cover.

`HealthyOnce` excepts events an attempt at which failed to record a delivery (`cut`),
`DeadLettersAreSound` those whose letter a crash lost (`mislaid`), `ReadableStays` the
one line that lacks its newline, `ViewIsCurrent`
what was `lost` or `overtaken`, `DecisionsAreFresh` certificates redelivered under the
switch (`excused`), `CutOffHolds` those whose active answer was in hand when the switch
arrived (`undone`): each exception is one of the places listed next, and no more.

### Observed while modelling

These follow from the models or were met while writing them, and have no run of their
own. Many can be seen by changing a bound of an existing cfg.

Spool and kill switch:

* After a crash or a failed write that cuts the last line, the next event is glued
  to it and cannot be read back, although it is counted written (`spool.go:187`,
  against lines 24, 69 and 295). A line cut exactly before its newline (line 225) is
  readable until then and lost with it, which line 250 ("a lost one is not" harmless)
  does not allow: `ReadableStays` without its exception for `Bare` fails.
* A query sent before a write fills the cache after the invalidation
  (`kill-switch.ts:109`, against 106 and 44); a push that joins a query sent before the
  arm computes its targets without its own switch (`kill-switch/actions.ts:84`,
  against 79 and `kill-switch.md:52`).
* A registration approved before the arm is promoted after the push
  (`ws-server.ts:365`, against `kill-switch.md:50`).
* A status answer computed before the arm is signed and sent after the push
  (`ws-server.ts:984`, two awaits before the answer): a verifier that is not covered is
  told "active" about a certificate that is.

Grants:

* One grant can give two certificates: the exchange's entry goes before the grant is
  marked delivered (`ws-server.ts:894`, against 799 and 832-837), and marking it may fail
  or not happen at all (line 914).
* Two grants to deliver on one connection (`MaxGrants = 2` in `grant_calm`): the
  second `cert_challenge` can reach the client before the `cert_issued` of the first.
  The client refuses the session it does not know (`actor-runtime.ts:680`), the
  server keeps the `certIssuance` entry, and no other exchange is started on the
  connection: `GrantCollected` fails.
* A socket that drops while its handshake awaits (`Adversity = {"midauth"}`) is filed
  in `awaitingApproval` after its close handler ran (`ws-server.ts:670`); delivery
  picks that entry first: `GrantCollected` fails. Two handshakes of one Actor that
  overlap this way both find no pending row and both create one
  (`ws-server.ts:643`): `Cardinality(Pending) <= 1` fails.
* After a failed step of the exchange (`Adversity = {"dbfail"}`) the client keeps its
  `certSessionId` (`actor-runtime.ts:565`) and refuses every later prompt on the
  connection: `GrantCollected` fails until it reconnects.
* Approve and deny update a row by id after separate checks
  (`pending-registration.dao.ts:102`): with `Adversity = {"deny"}` a decided row changes
  its status again.
* An exchange past its last round mints a certificate after a push cut its Actor off
  (`ws-server.ts:905`; the guide, `kill-switch.md:55`, says none is issued).
* The spool's `append` takes the pending gap count before it knows that the event
  fits (`spool.go:205`; line 41 promises to carry it): with a full file
  `marked + pending = dropped` fails. While the file has room and the disk works the
  equality holds (checked with 6 events and a file of 6).

Actor runtime:

* A redelivery that overtakes a revocation makes the certificate active again until the
  next refresh, for ever with a bound of -1 (`ws-server.ts:811`). A request for
  capabilities redelivers under an armed switch, as often as it is made
  (`ws-server.ts:770`), and what is redelivered counts as checked on arrival.
* An active answer that resolved its request before a `kill_switch` message of the same
  chunk is applied after it (`actor-runtime.ts:903`, 951), and saved: the Actor is active
  again under the switch it obeyed, after a restart too, until its belief is too old.
* With a bound of 0 an answer of any age is accepted (`actor-runtime.ts:923`).
* The refresh deferred by `setTimeout(0)` is skipped when the identity is not known yet;
  the timer makes up for it. Every push re-arms that timer.
* A refresh that fails in part makes `can()` deny where `allows()` allows. A check of the
  same millisecond does not count as made after. Refreshes overlap, although a comment
  says at most one is in flight, and waiters survive a close.
* `reconnectAttempts` is reset even when authentication is refused; `stop()` and
  `start()` during a backoff run two loops; the state file is not written atomically and
  a malformed one throws in the constructor. `handleCapabilityRequest` can leave a row
  for what was granted meanwhile (`ws-server.ts:743`).

Authority:

* Only the newest active verifiable certificate is sent to a host: issuing one can take
  from the host and revoking one can widen it. "Revoking never grants more, adding never
  removes" (`overview.md:84`, `resolve.go:131`) holds of the answers online.
* `Reload` counts the age from the later of the two files (`store.go:152`): a push of
  rules alone renews a revoked grant for another bound. An expired grant on disk blocks
  every reload and the next start.
* Removing the last rule sends null, which clears nothing on the host.
* Neither `pushActorConfig` (`ws-server.ts:1095`) nor `buildActorConfig` looks at the kill
  switch: a suspended Actor that is still or again connected has its host renewed by every
  push. So a suspension reaches a host by silence only where the connection is cut, and
  `SilenceWithdraws` speaks of what was brought, not of the switch.
* A rule that allows is decided before staleness: it goes on passing on a silent
  host. The domains checked are those of the first granting certificate. Nothing
  increments `usedCount`, and nothing sets an Attributor at this commit.
* Deleting a capability removes the entry first and revokes one by one without a
  transaction: creating it again revives what a failed sweep left.

Policy supply:

* "Authoritative in both directions" (`push.go:27`) is judged against the local values
  read at start: a signed push back to a local value leaves the earlier pushed one.
* The warning that a host without a token "will refuse every governed request"
  (`actor-config.ts:241`) is wrong for one that has a grant: null clears nothing.
* A tightened age from an unsigned push is reported and never applied (`push.go:180`).
* `WriteArtefacts` stores a rule set before it is validated; with an unusable one the
  next start fails. A write that fails half-way leaves the new grant with the old rules,
  and the timer of the interception role can load such a pair, or read half of two.
* Overlapping builds may send the older payload last (`ws-server.ts:1095`).
  `ConfigFor` reads Store and settings separately. Two daemons can bind one unix
  socket in turn, and `Close` waits for idle connections (`daemon.go:86`, 137).

Webhooks:

* "Healthy endpoints are never re-delivered" (`delivery.ts:157`) fails after a crash, a
  failing `updateData`, the other half's load rejecting, or an answer after the timeout.
* Channel failures are counted like the others (`index.ts:144`), although
  `webhooks.md:128` says they are not dead-lettered; the letter does not name channels
  and a replay notifies them again.
* A job failed for stalls is not dead-lettered, and a crash between the failure and the
  add loses the letter. A notification has no timeout (`apprise.ts:21`). Some events have
  no template in `render.ts`. `recordEvent` may fail after the change it records.

Telemetry:

* The control plane runs a handler per message (`ws-server.ts:467`), so an older report
  can be stored after a newer one. Deltas are not sent again: a lost batch, an overflow
  or a cut connection is never repaired, and a workload that stops while the sensor is
  down is never reported stopped. `Reconcile` overwrites what it compares with, so a
  slow drift is never material.
* The control plane never stops listing a workload: the row of a stopped one keeps its
  last confidences (`sensor-workload.dao.ts:34`), and the pages of the sensors list and
  count every row (`app/admin/sensors/page.tsx:70`, `[did]/page.tsx:96`) without a look
  at `lastEventType`.
* `ListPending` misses a waiting connection whose entry another one deleted
  (`server.go:220`); an entry is listed until the deferred deletion, so that an approval
  sent when the wait has already ended is answered 200 and lost; an
  approved device is forgotten by a crash before the next snapshot; a graceful stop
  saves while handlers still apply. The client's reads in the handshake have no deadline.
* The Go client replaces its capabilities by those of the latest certificate
  (`client.go:415`) and writes their file without a rename.

Sign-in:

* A failed certificate round is not offered again at the next sign-in, as
  `bootstrap.md:75` says, only at a new registration: there may never be an
  administrator. A revoked bootstrap certificate keeps its id, so none follows it.
* Registrations opened before the first human each register somebody: a browser for one
  time to live, a wallet for its window and two rounds of 5 seconds, past one time to live
  where the window is the longest. Such a wallet completes a valid handshake whose row
  can no longer be redeemed, which `login-window.ts:17` and its test say the cap on the
  window prevents: the cap leaves no room for the rounds. Two wallets that race for an invitation both register and both get its grant.
* Two concurrent SSO sign-ins leave two live links (`sso.ts:77`). A DID bound to one
  identity that redeems the link of another fails after the invitation is spent:
  redemption is not a transaction. `deletePending` during one makes `markRedeemed` throw
  after the Actor exists.
* An update of a swept row throws again in its handler and ends as an unhandled
  rejection. `authorize` does not look at what `deleteMany` deleted.

### Fairness

* `FairSpec` of the spool: the writer goroutine runs while it can; nobody has to
  record, drain, crash or restart. The ticker need not fire.
* `FairSpec` of the kill switch: the database answers a query, Node runs the callback,
  time passes, an action that wrote goes on,
  and a refused client tries again for ever, which is the SDK's reconnect loop.
  That is strong fairness of the attempt, as another handshake may be in the way.
* `FairSpec` of grant delivery: Node resumes answered awaits, the sweep timer fires
  again and again (strong fairness, since an exchange in progress disables it), the
  client reads its socket and reconnects. Nobody has to drop, ask, approve or
  crash. `GrantCollected` asks for the grant only if in the end some connection
  stays open (`Reachable`).

* `WebhookDelivery`: `WF(Work)`. The dispatcher runs, BullMQ's timers fire and requests
  end (a webhook by its timeout, a notification by the HTTP client's). No crash, failure
  or toggle has to happen.
* `Telemetry`: the poll loop, the enqueueing, the dial and flush timers, each handler of
  the server and its approval timer. The operator may never decide.
* `ActorRuntime`: `WF(Prompt)` (handlers run, messages arrive, answered awaits go on,
  requests time out and time passes, in any order), and, when nothing of that is under
  way, the refresh timer and the reconnect loop.
* `SignIn`: a handler goes on, a wallet scans and answers; a person whose attempt ended opens another one again and
  again (strong fairness, since an attempt under way disables it).

`Authority` and `PolicySupply` promise nothing about the future and have no fairness.

## Proofs

The theorems hold for every value of the constants that the named `ASSUME` of their
module allows: any number of Actors, sockets, certificates, pages, targets or events,
any time to live, latency, timeout, queue and file size, and any number of crashes,
faults and restarts. No other assumption is made. Where a property is not inductive by
itself, the invariant that is carries a name in the proof module; each was checked by
TLC on the run's instance before it was proved. Each proof has one lemma per action
(or per group that changes the same things), and the last step of a theorem puts
them together.

| Module | Inductive invariant | Properties of the runs it proves |
|---|---|---|
| `SensorProofs` (spool) | `SpoolInv`, `OrderInv` | `TypeOK`, `Accounting`, `GapNeverOverstated`, `CleanStop`, `TrailInOrder`, `ReadableStays` |
| `SensorProofs` (telemetry) | `TelemetryInv` | `TelemetryTypeOK`, `ViewIsCurrent`, `ReportsKeepOrder`, `PendingIsOpen` |
| `KillSwitchProofs` | `CacheInv`, `SwitchInv` | `BoundedStaleness`, `AnswersMoveForward`, `QuietInvalidationHonoured`, `TypeOK`, `CutOff`, `NoActiveAnswer` |
| `GrantDeliveryProofs` | `DeliveryInv`, `ForgetInv`, `ConnTyped` | `TypeOK`, `CertificatesAreApproved`, `ClosedIsForgotten`, `ExchangeNotRestarted` |
| `ActorRuntimeProofs` | `RuntimeInv`, `WaitInv`, `FlagsTyped` | `TypeOK`, `DecisionsAreFresh`, `CutOffHolds` |
| `AuthorityProofs` | `HostInv` | `TypeOK`, `AttributionIsSound`, `FloorHolds`, `AuthorityIsMonotone`, `HostWithinLedger`, `SilenceWithdraws` |
| `PolicySupplyProofs` | `SupplyInv` | `TypeOK`, `LastPushInForce`, `SupervisorPairWasOnDisk`, `LaunchSeesFirstPush`, `PolicyNeverDropped`, `UnsignedNeverLoosens` |
| `WebhookDeliveryProofs` | `WebhookInv` | `TypeOK`, `HealthyOnce`, `DeadLettersAreSound`, the safety part of `KeepsThePromise` |
| `SignInProofs` | `SignInv` | `TypeOK`, `OneAdministrator`, `OnboardingIsWhole`, `DoorCloses` |

**FileSpool.** `SpoolInv` is accounting, gap markers and clean stop with `RemoveAcked`
(the sidecar is removed only when its receiver has it); it is inductive because
`append` moves each event of the batch to exactly one counter (`FlushOK`), which
`WriteStep` and `FlushStep` show once for the three actions that flush. Order needs the
whole pipeline: `OrderInv` says that sidecar, file, batch and queue are each in order,
each wholly before the next, and none ahead of `recorded`. Every action moves a piece
from one stretch to the one before it (`HeadMoves`, `PieceMoves`) or loses a piece
(`LeaveOut`); a write cut anywhere stores a piece of the batch (`PersistOrder`).
`PersistShape` says what any write leaves: what was there, less a bare last line, and
a piece of the batch. `ReadableStays` needs that and `RemoveAcked`, for the one step that
removes a file.

**SwitchCache and KillSwitch.** The cache's invariant says how old a cached or read
version can be as a function of the ages of the entry and the query, that what an
outstanding query has read is no older than what any caller was shown, and that no
query was outstanding when a quiet invalidation ran unless it was started later.
`SwitchUsesCache` maps every step of the kill switch to a step of the cache or a
stutter, so that the cache's theorems hold in it (`SwitchAnswersAreSound`). `CutOff`
and `NoActiveAnswer` then follow in three parts: what a push acted on was shown to
someone (`PushInv`), so no later handshake or status request is answered with anything
older (monotone answers); a push under way has everyone on its list whom it must close
(`LookInv`), so that after it nobody it covered is left (`DoneInv`); and a version once
written stays, so that being covered since then is only ever lost (`CoverageShrinks`).
`NewAnswers` is about the steps in which an answer turns "active".

**GrantDelivery.** `DeliveryInv` follows an approval along its way. A registration
found by a delivery job, entered in `certIssuance`, or carried by the exchange's
writes was approved before (`ApprovalInv`), and that it was stays true when it is denied
afterwards (`approvedOnce`); so what reaches the ledger, the client or the `delivered`
flag comes from an approval (`LedgerInv`). `ForgetInv` says that a socket waits at most
once, and only after its handshake, so that its close takes away all there is. The
invariants speak of states between two awaits, and hence of every interleaving of
sockets, late closes and restarts.

**ActorRuntime.** `DecisionsAreFresh` bounds the age of a certificate's fall from good
standing when it is used. `AgeInv` relates the age of a belief to it: believed active,
the row was active, and no switch armed, no longer ago than its last check and the
message that came with it. This needs that what is read as active is so in that tick
(`ReadInv`), that a message which says active was true when it was sent and has aged
since (`WireInv`), and the same of an answer in hand (`HandInv`); a redelivery says
nothing of the switch, hence `excused`. `SeenInv` bounds the check itself: what it saw
is no older than its requests so far can take, `Timeout` for each certificate before
this one, which is where `NumCerts * Timeout` in the bound comes from. `CutInv` ties an
obeyed switch to the armed one, to a connection on which nothing follows, and to
every certificate being revoked in memory unless its active answer was in hand; the
state file equals memory (`Typed`).
The requests in flight are `WaitInv`: a refresh that is about a certificate stands once
among the answered awaits and those that still wait, and not otherwise, so an answer that
is handed to the oldest request always finds a refresh to move on. An answer moves the
head of the queue to the end of the other (`PartsJoin`, `StatusWaits`); an await that goes
on and a timeout leave in the step that moves the refresh on, and re-enter in the same
step if it asks again (`ResumeWaits`, `TimeOutWaits`).

**Authority.** `AttributionIsSound` is a fact of every state: a verdict without a caller
is either a deny for everyone or, if unmarked, met only rules for everyone. The floor
needs that rules are only copied (`RulesInv`). Monotone grants rest on `LedgerInv` (rows
are well formed) and `RowsStep` (a step keeps each row or revokes it, and never turns time
back). For the host, `TimeInv` says that nothing on the disk or in the Store was
confirmed later than a push last brought something, and `BackedInv` that what the grant
there admits, the ledger admitted when it confirmed it. `GovernedFacts` reads off a
decision what it needs of the certificate and its age: `HostWithinLedger` follows from
it by `BackedInv`, `SilenceWithdraws` by `TimeInv`.

**PolicySupply.** `SupplyInv` states what holds at each cut of the push: how much of the
payload is on the disk when the handler stands between two of its writes (`PushInv`),
that the Store and the settings are those last told, except between a reload and the
settings of the same push (`ForceInv`),
that whatever a Store holds the disk holds (`CoverInv`; hence a reload never loses a
policy), and that disk and supervisor hold a pair that lay on the disk together
(`PairInv`).

**WebhookDelivery.** `RunInv` says what an attempt owes: what it posts to is not yet
recorded, and a side that has loaded has dealt with every target that was subscribed all
along. `CopiesInv` says that what is recorded was received, and outside of events with
an attempt cut short only that and only once. `PromiseIsKept` is the refinement, step by
step: `StepKeepsPromise` shows that under the mapping of `WebhookDelivery` each step
of queue and dispatcher is a step of `EventDelivery` or a stutter, with one lemma for
each kind of abstract step. Its fairness and what follows from it stay with TLC.

**Telemetry.** A report is numbered when it is emitted, and is then in one of four
places: still to be queued, in the queue, in a batch on a connection, or in a batch
being applied. `QueueInv` says that what is still in the client is in order and
younger than what left it; `WireInv` that what is on the client's own connection is in
order and younger than what any other connection still carries or a handler still
applies; `DeskInv` that a collector applies one batch of that connection at a time, the
youngest of all. A connection that replaces one takes this over empty, and what the old
one still carries is older than whatever the new one will. `ReportsKeepOrder` is part of
these. `ViewIsCurrent` needs `LatestInv`: unless something was thrown away or overtaken,
the latest report of each workload says what `reported` remembers and is either the one
that was applied, and shown, or still under way; when nothing is under way it is the
former. A workload is in `reported` exactly when it is in the sensor's store. That `Reconcile` reports each changed workload once is `EachOnce`. The invariant
was checked with TLC on the run's instance and on two larger ones before the proof.

**SignIn.** `PageInv` says of every page what its row and the place of its handler may say
together, in the order of the handler's writes. An attempt without an invitation saw no
human, so there has been one for no longer than the handler was busy and the person was
waited for: each timer adds what it was set to, and what is left of it is still to come
(`DoorInv`). Past each write of
`registerHumanFromInvitation` that write has been made (`RedeemInv`). What it refers to
is never taken back (`Grows`), so another page's step cannot disturb it.
`OneAdministrator` is `BootInv`: the certificate has a fixed id, so a second write of it
fails.

The least or newest of a set of numbers is a `CHOOSE` in the models; that there is
one (`HasLeast`, `HasNewest`) comes from the well-foundedness of `<` on the naturals in the
prover's library.

Only model-checked:

* liveness and everything under fairness, which the prover does not handle:
  `DisarmRestores`, `CloseReturns`, `CallsReturn`, `GrantCollected`, `RightsReturn`,
  `EverythingSettles`, `HumansGetIn`, and that half of `KeepsThePromise`.

Every safety property a passing run checks is proved.

## Not modelled

Cryptography (a proof of identity succeeds or the handshake ends), message and
certificate formats, pages and forms, external services, the simulator, videos,
documentation site and containers: `components` gives the reason for each. They are
most of the repository's lines, and keep no state that steps of two actors share.

Of the modelled parts: heartbeats and the buffered writes of `lastSeen`; renewal;
inheritance of trust settings from workspace and organisation; the mapping of tools to
capabilities and the daemon's socket; pinning of the collector's anchor; the sensor's
heuristics of detection, and merges of a stored configuration that lose one of two
edits.

## Plan

What is left, most important first:

1. The ledger's own promises under the abstract view of a host: that `HostWithinLedger`
   of `Authority` and `LastPushInForce` of `PolicySupply` compose.
2. Renewal of certificates and inheritance of trust settings, which add writers to the
   tables `GrantDelivery` and `SignIn` model.
