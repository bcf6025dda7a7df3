----------------------------- MODULE ActorRuntime -----------------------------
(***************************************************************************)
(* What an Actor built on the SDK believes about its certificates          *)
(* (packages/sdk/src/actor-runtime.ts, cap-state.ts) while the control     *)
(* plane revokes one, arms and disarms a kill switch, or answers late      *)
(* (handleCertStatusRequest, redeliverExistingCertificate and the          *)
(* handshake of packages/controlplane/lib/ws-server.ts).                   *)
(*                                                                         *)
(* A refresh asks for the status of each certificate in turn, and an       *)
(* answer is handed to the oldest request in flight whatever it is about.  *)
(* The refreshes the runtime starts itself (a reconnection's deferred one, *)
(* the timer's, the one a notice asks for) follow each other in the model; *)
(* a permission check's own refresh overlaps them.                         *)
(*                                                                         *)
(* Messages to the actor arrive in the order they were sent.  An answer    *)
(* that somebody waits for only resumes that await, and is applied when    *)
(* the await goes on: messages that came with it are handled before.       *)
(*                                                                         *)
(* Time is counted in ticks and what the code stamps is kept as an age;    *)
(* both sides read one clock.  A request may wait for its handler for any  *)
(* time, at the cost of a fault each tick, and a message that is late      *)
(* costs one and travels for up to Latency ticks; what is not late goes    *)
(* before what the actor begins by itself.  What a handler reads and what  *)
(* it sends fall within one tick, the ledger changing in between.  The     *)
(* switch a handler reads is the one in force (how stale it may be is      *)
(* SwitchCache's subject), the configuration of a connection comes with    *)
(* the handshake, and the state file is written whenever a save is due.    *)
(* The actor's organisation fails closed.                                  *)
(***************************************************************************)
EXTENDS Integers, Sequences, FiniteSets, SequencesExt

CONSTANTS
  NumCerts,
  MaxStatusAge, \* trust.maxStatusAgeSeconds
  Fallback,     \* fallbackStatusIntervalMs: the bound until a configuration comes
  Timeout,      \* statusTimeoutMs
  Latency,      \* bound of the model: ticks a message travels
  MaxChanges,   \* bound of the model: revocations and armed switches
  MaxFaults     \* bound of the model: lost connections, restarts, requests for
                \* capabilities, answers that fail, requests and messages late

ASSUME ActorRuntimeAssumption ==
  /\ NumCerts \in Nat \ {0} /\ Timeout \in Nat \ {0}
  /\ MaxStatusAge \in Nat /\ Fallback \in Nat /\ Latency \in Nat
  /\ MaxChanges \in Nat /\ MaxFaults \in Nat

VARIABLES
  ledger,   \* status of each row
  armed,    \* a kill switch covers the actor
  gone,     \* ticks since the row of each certificate was active
  barred,   \* ticks since no armed switch covered the actor
  notify,   \* a revocation has not been announced yet
  suspend,  \* an armed switch has not been pushed yet
  asked,    \* requests no handler has read the row for
  reading,  \* handlers between their reads and their signature
  task,     \* redelivery: the certificate it read, or 0
  owes,     \* a reconnection or a request has yet to look for what to redeliver
  wire,     \* messages on their way to the actor, oldest first
  link,     \* "down", "half" (our challenger is not COMPLETE) or "up"
  held,     \* ActorRuntime.certificates
  saved,    \* the capability state file
  window,   \* maxStatusAgeMs
  job,      \* refreshes running: the certificate each waits for, 0 when idle
  waiters,  \* pendingStatusChecks, oldest first
  resumes,  \* awaits that were answered and have not gone on, oldest first
  due,      \* refreshes called for while one ran
  joining,  \* the setTimeout of onAuthComplete
  seen,     \* certificates checked since the permission check began
  answered, \* the permission check's refresh got an answer
  cut,      \* history: a kill switch still armed was obeyed
  undone,   \* history: those with an active answer in hand at that moment
  excused,  \* history: those redelivered under the switch still armed
  changes, faults

server == <<ledger, armed, gone, barred, notify, suspend, changes>>
desk   == <<asked, reading, task, owes>>
belief == <<held, saved>>
past   == <<cut, undone, excused>>
asking == <<job, waiters, resumes, due, joining, seen, answered>>
vars   == <<server, desk, wire, link, belief, past, window, asking, faults>>

Certs == 1..NumCerts \* in the order they were issued
Jobs == {"loop", "check"}
Larger(a, b) == IF a > b THEN a ELSE b
Old == 1 + Latency + Larger(Larger(Fallback, MaxStatusAge), NumCerts * Timeout)
Stale == 1 + Larger(Fallback, MaxStatusAge)
Older(age, most) == IF age = most THEN most ELSE age + 1
Status == {"active", "revoked"}
Belief == [st: Status, age: 0..Stale]
\* "issued" is cert_issued, "notice" capabilities_changed, "bye" the end of the connection.
Message == [what: Status \union {"issued", "kill", "bye", "notice"},
            cert: 0..NumCerts, age: 0..Latency]
Resumed == [by: Jobs, what: Status \union {"refused"}, cert: 0..NumCerts, age: 0..Latency]
Idle == [at |-> 0, age |-> 0]
Deciding == [at |-> NumCerts + 1, age |-> 0]
Good(c) == ledger[c] = "active" /\ ~armed
About(what, c) == [what |-> what, cert |-> c, age |-> 0]
Plain(what) == About(what, 0)
Quiet == [c \in Certs |-> 0]
NobodyReads == [c \in Certs |-> [r \in Status |-> 0]]

\* An actor that restarts: what it held was checked this very tick.
Init ==
  /\ ledger = [c \in Certs |-> "active"] /\ armed = FALSE /\ gone = Quiet /\ barred = 0
  /\ notify = FALSE /\ suspend = FALSE
  /\ asked = Quiet /\ reading = NobodyReads /\ task = 0 /\ owes = FALSE
  /\ link = "down" /\ wire = <<>>
  /\ held = [c \in Certs |-> [st |-> "active", age |-> 0]] /\ saved = held
  /\ window = Fallback
  /\ job = [p \in Jobs |-> Idle] /\ waiters = <<>> /\ resumes = <<>>
  /\ due = 0 /\ joining = FALSE /\ seen = {} /\ answered = FALSE
  /\ cut = FALSE /\ undone = {} /\ excused = {} /\ changes = 0 /\ faults = 0

Faulty == faults < MaxFaults /\ faults' = faults + 1

-----------------------------------------------------------------------------
(* What the actor decides.                                                 *)

Fresh(c) == window # 0 /\ held[c].age <= window
AllFresh == \A c \in Certs: Fresh(c)

\* resolvePermission: the cached statuses, as failClosed allows.
SyncAllows(c) == held[c].st = "active" /\ Fresh(c)

\* checkPermission, once its refresh is over.
CheckAllows_AnyAnswer(c) ==
  /\ job["check"] = Deciding
  /\ IF answered THEN held[c].st = "active" ELSE SyncAllows(c)
CheckAllows(c) ==
  /\ job["check"] = Deciding
  /\ IF answered THEN c \in seen /\ held[c].st = "active" ELSE SyncAllows(c)

-----------------------------------------------------------------------------
(* Refreshes.                                                              *)

Identified == link = "up" \* serverVid, and an open socket

\* The server has this connection and has not closed it; nothing follows a kill_switch.
Serves == link # "down" /\ \A i \in DOMAIN wire: wire[i].what \notin {"kill", "bye"}

\* refreshOneCertStatus of certificate i by p; without a connection every one returns false.
\* A refresh of the loop that was called for meanwhile begins when the last one is over.
Proceed(p, i, queue) ==
  LET again == p = "loop" /\ i > NumCerts /\ due > 0
      at == IF again THEN 1 ELSE i
      asks == Identified /\ at <= NumCerts
  IN /\ job' = [job EXCEPT ![p] = IF asks THEN [at |-> at, age |-> 0]
                                   ELSE IF p = "check" THEN Deciding ELSE Idle]
     /\ waiters' = IF asks THEN Append(queue, p) ELSE queue
     /\ asked' = IF asks /\ Serves THEN [asked EXCEPT ![at] = @ + 1] ELSE asked
     /\ due' = IF p = "check" THEN due
               ELSE IF again /\ asks THEN due - 1 ELSE IF asks THEN due ELSE 0

\* refreshCertStatus, from the timer, a reconnection or a notice.
Refresh ==
  IF job["loop"] = Idle THEN Proceed("loop", 1, waiters)
  ELSE due' = due + 1 /\ UNCHANGED <<job, waiters, asked>>

TimeOut(p) ==
  /\ job[p].age = Timeout
  /\ \E i \in DOMAIN waiters:
       waiters[i] = p /\ Proceed(p, job[p].at + 1, RemoveAt(waiters, i))
  /\ UNCHANGED <<server, reading, task, owes, wire, link, belief, past, window, resumes,
                 joining, seen, answered, faults>>

Timer_WhileActive ==
  /\ \A c \in Certs: held[c].st = "active"
  /\ Identified /\ window # 0 /\ job["loop"] = Idle /\ (\E c \in Certs: held[c].age > 0)
  /\ Refresh
  /\ UNCHANGED <<server, reading, task, owes, wire, link, belief, past, window, resumes,
                 joining, seen, answered, faults>>

\* scheduleStatusChecks: never twice in a tick; a window of 0 keeps nothing warm.
Timer ==
  /\ Identified /\ window # 0 /\ job["loop"] = Idle /\ (\E c \in Certs: held[c].age > 0)
  /\ Refresh
  /\ UNCHANGED <<server, reading, task, owes, wire, link, belief, past, window, resumes,
                 joining, seen, answered, faults>>

\* The trailing auth_challenge: the server's identity is established.
Complete ==
  /\ link = "half" /\ link' = "up"
  /\ UNCHANGED <<server, desk, wire, belief, past, window, asking, faults>>

\* setTimeout(refreshCertStatus, 0): a refresh before that round finds no identity.
Deferred ==
  /\ joining /\ joining' = FALSE /\ Refresh
  /\ UNCHANGED <<server, reading, task, owes, wire, link, belief, past, window, resumes,
                 seen, answered, faults>>

\* checkPermission, when some status is too old; without a connection it is SyncAllows.
Check ==
  /\ job["check"] = Idle /\ ~AllFresh /\ Identified
  /\ Proceed("check", 1, waiters)
  /\ UNCHANGED <<server, reading, task, owes, wire, link, belief, past, window, resumes,
                 joining, seen, answered, faults>>

\* The decision follows the end of its refresh, at most other awaits going on in between.
Decide ==
  /\ job["check"] = Deciding
  /\ job' = [job EXCEPT !["check"] = Idle] /\ seen' = {} /\ answered' = FALSE
  /\ UNCHANGED <<server, desk, wire, link, belief, past, window, waiters, resumes, due,
                 joining, faults>>

-----------------------------------------------------------------------------
(* What a message does to the actor.                                       *)

Arrives(kinds) == wire # <<>> /\ Head(wire).what \in kinds

\* saveCapabilityState.
Persist == saved' = held'

\* The certificate was checked: its lastCheckedAt is another one from now on.
Learn(c, st, age) ==
  /\ held' = [held EXCEPT ![c] = [st |-> st, age |-> IF age > Stale THEN Stale ELSE age]]
  /\ Persist
  /\ seen' = IF job["check"] = Idle THEN seen ELSE seen \union {c}

\* applyCertStatus, by the certificate the answer names.
Apply(m) == Learn(m.cert, m.what, m.age)

\* verifyCertStatusResponseCert: a bound of 0 is not applied to what was just signed.
Verified(m) == window = 0 \/ m.age <= window

\* onCertStatusResponse: to the oldest request, resolved or rejected; else applied at once.
OnStatus ==
  /\ Arrives(Status) /\ wire' = Tail(wire)
  /\ LET m == Head(wire) IN
       IF waiters = <<>>
         THEN /\ IF Verified(m) THEN Apply(m) ELSE UNCHANGED <<belief, seen>>
              /\ UNCHANGED <<waiters, resumes>>
         ELSE /\ waiters' = Tail(waiters)
              /\ resumes' = Append(resumes, [by |-> Head(waiters),
                                             what |-> IF Verified(m) THEN m.what ELSE "refused",
                                             cert |-> m.cert, age |-> m.age])
              /\ UNCHANGED <<belief, seen>>
  /\ UNCHANGED <<server, desk, link, past, window, job, due, joining, answered, faults>>

\* The await of refreshOneCertStatus goes on.
Resume ==
  /\ resumes # <<>> /\ resumes' = Tail(resumes)
  /\ LET m == Head(resumes) IN
       /\ IF m.what = "refused"
            THEN UNCHANGED <<belief, seen, answered>>
            ELSE Apply(m) /\ answered' = (answered \/ m.by = "check")
       /\ Proceed(m.by, job[m.by].at + 1, waiters)
  /\ UNCHANGED <<server, reading, task, owes, wire, link, past, window, joining, faults>>

\* onCertIssued: checked as of now, however long the message travelled.
OnCertIssued ==
  /\ Arrives({"issued"}) /\ wire' = Tail(wire)
  /\ Learn(Head(wire).cert, "active", 0)
  /\ UNCHANGED <<server, desk, link, past, window, job, waiters, resumes, due, joining,
                 answered, faults>>

SaveKill_InMemory == UNCHANGED saved
SaveKill == Persist

\* Certificates whose active answer has resolved its request already.
InHand == {resumes[i].cert : i \in {j \in DOMAIN resumes: resumes[j].what = "active"}}

\* onKillSwitch; the end of the connection is next.
OnKillSwitch ==
  /\ Arrives({"kill"}) /\ wire' = <<[Head(wire) EXCEPT !.what = "bye"]>>
  /\ held' = [c \in Certs |-> [held[c] EXCEPT !.st = "revoked"]]
  /\ IF held' = held THEN UNCHANGED saved ELSE SaveKill
  /\ cut' = armed /\ undone' = IF armed THEN InHand ELSE {}
  /\ UNCHANGED <<server, desk, link, excused, window, asking, faults>>

\* onCapabilitiesChanged.
OnNotice ==
  /\ Arrives({"notice"}) /\ wire' = Tail(wire) /\ Refresh
  /\ UNCHANGED <<server, reading, task, owes, link, belief, past, window, resumes, joining,
                 seen, answered, faults>>

\* The server closed the socket.
OnClose ==
  /\ Arrives({"bye"}) /\ wire' = <<>> /\ link' = "down"
  /\ UNCHANGED <<server, desk, belief, past, window, asking, faults>>

Receive == OnStatus \/ OnCertIssued \/ OnKillSwitch \/ OnNotice \/ OnClose

-----------------------------------------------------------------------------
(* The control plane.                                                      *)

Hangup ==
  /\ asked' = Quiet /\ reading' = NobodyReads /\ task' = 0 /\ owes' = FALSE

Changing == changes < MaxChanges /\ changes' = changes + 1

Revoke(c) ==
  /\ ledger[c] = "active" /\ Changing
  /\ ledger' = [ledger EXCEPT ![c] = "revoked"] /\ notify' = TRUE
  /\ UNCHANGED <<armed, gone, barred, suspend, desk, wire, link, belief, past, window,
                 asking, faults>>

\* notifyCapabilitiesChanged, after the audit row is written.
Notify ==
  /\ notify /\ notify' = FALSE
  /\ wire' = IF Serves THEN Append(wire, Plain("notice")) ELSE wire
  /\ UNCHANGED <<ledger, armed, gone, barred, suspend, changes, desk, link, belief, past,
                 window, asking, faults>>

Arm ==
  /\ ~armed /\ ~suspend /\ Changing
  /\ armed' = TRUE /\ suspend' = TRUE
  /\ UNCHANGED <<ledger, gone, barred, notify, desk, wire, link, belief, past, window,
                 asking, faults>>

\* notifyKillSwitchArmed: the push, then the socket is closed.
Suspend ==
  /\ suspend /\ suspend' = FALSE
  /\ IF armed /\ Serves
       THEN wire' = Append(wire, Plain("kill")) /\ Hangup
       ELSE UNCHANGED <<wire, desk>>
  /\ UNCHANGED <<ledger, armed, gone, barred, notify, changes, link, belief, past, window,
                 asking, faults>>

\* The push does not find the actor: it is seated after the list was taken, past the gate.
Miss ==
  /\ suspend /\ suspend' = FALSE /\ armed /\ Serves
  /\ UNCHANGED <<ledger, armed, gone, barred, notify, changes, desk, wire, link, belief,
                 past, window, asking, faults>>

Disarm ==
  /\ armed /\ armed' = FALSE /\ cut' = FALSE /\ undone' = {} /\ excused' = {} /\ barred' = 0
  /\ UNCHANGED <<ledger, gone, notify, suspend, changes, desk, wire, link, belief, window,
                 asking, faults>>

\* The handshake, and the pushActorConfig that follows it; an armed switch refuses it.
Connect ==
  /\ link = "down" /\ ~armed
  /\ link' = "half" /\ joining' = TRUE /\ owes' = TRUE /\ window' = MaxStatusAge
  /\ UNCHANGED <<server, asked, reading, task, wire, belief, past, job, waiters, resumes,
                 due, seen, answered, faults>>

\* A capability_request, for what the certificates in hand do not grant.
Ask ==
  /\ Serves /\ ~owes /\ (\E c \in Certs: held[c].st = "revoked") /\ Faulty
  /\ owes' = TRUE
  /\ UNCHANGED <<server, asked, reading, task, wire, link, belief, past, window, asking>>

\* redeliverExistingCertificate: an active row that serves what is asked for, whatever the
\* switch says; expiry, the registry and the request decide which, or that none does.
RedeliverRead ==
  /\ owes /\ task = 0 /\ owes' = FALSE
  /\ \E c \in {0} \union {d \in Certs: ledger[d] = "active"}:
       task' = c /\ excused' = IF armed THEN excused \union {c} ELSE excused
  /\ UNCHANGED <<server, asked, reading, wire, link, belief, cut, undone, window, asking,
                 faults>>

RedeliverSend ==
  /\ task # 0 /\ task' = 0 /\ wire' = Append(wire, About("issued", task))
  /\ UNCHANGED <<server, asked, reading, owes, link, belief, past, window, asking, faults>>

\* handleCertStatusRequest: the row, then the switch, then the signature.
ReadRow(c) ==
  /\ asked[c] > 0
  /\ asked' = [asked EXCEPT ![c] = @ - 1]
  /\ reading' = [reading EXCEPT ![c][ledger[c]] = @ + 1]
  /\ UNCHANGED <<server, task, owes, wire, link, belief, past, window, asking, faults>>

Signed(r) == IF armed THEN "revoked" ELSE r

Sign(c, r) ==
  /\ reading[c][r] > 0
  /\ reading' = [reading EXCEPT ![c][r] = @ - 1]
  /\ wire' = Append(wire, About(Signed(r), c))
  /\ UNCHANGED <<server, asked, task, owes, link, belief, past, window, asking, faults>>

\* A handler that throws sends nothing.
NoAnswer(c) ==
  /\ asked[c] > 0 /\ Faulty
  /\ asked' = [asked EXCEPT ![c] = @ - 1]
  /\ UNCHANGED <<server, reading, task, owes, wire, link, belief, past, window, asking>>

-----------------------------------------------------------------------------
(* Faults, and time.                                                       *)

\* The socket is lost; requests in flight still wait for their answer.
Drop ==
  /\ link # "down" /\ Faulty
  /\ link' = "down" /\ wire' = <<>> /\ Hangup
  /\ UNCHANGED <<server, belief, past, window, asking>>

Restored(s) == s

Restart ==
  /\ Faulty
  /\ held' = Restored(saved) /\ window' = Fallback
  /\ link' = "down" /\ wire' = <<>> /\ Hangup
  /\ job' = [p \in Jobs |-> Idle] /\ waiters' = <<>> /\ due' = 0 /\ joining' = FALSE
  /\ seen' = {} /\ answered' = FALSE
  /\ UNCHANGED <<server, saved, past, resumes>>

JustSent == \E i \in DOMAIN wire: wire[i].age = 0

\* Local steps take no time; a handler sends in the tick it reads in, and begins in the tick
\* it is asked in unless the server is slow; an armed switch is pushed within the tick.
Tick ==
  /\ reading = NobodyReads /\ task = 0 /\ ~owes /\ ~notify /\ ~suspend /\ ~joining /\ link # "half"
  /\ \A i \in DOMAIN wire: wire[i].age < Latency
  /\ IF asked = Quiet /\ ~JustSent THEN UNCHANGED faults ELSE Faulty
  /\ \A p \in Jobs: job[p].at \in Certs => job[p].age < Timeout
  /\ gone' = [c \in Certs |-> IF ledger[c] = "active" THEN 0 ELSE Older(gone[c], Old)]
  /\ barred' = IF armed THEN Older(barred, Old) ELSE 0
  /\ wire' = [i \in DOMAIN wire |-> [wire[i] EXCEPT !.age = @ + 1]]
  /\ held' = [c \in Certs |-> [held[c] EXCEPT !.age = Older(@, Stale)]]
  /\ saved' = [c \in Certs |-> [saved[c] EXCEPT !.age = Older(@, Stale)]]
  /\ job' = [p \in Jobs |->
                IF job[p].at \in Certs THEN [job[p] EXCEPT !.age = @ + 1] ELSE job[p]]
  /\ UNCHANGED <<ledger, armed, notify, suspend, changes, desk, link, past, window, waiters,
                 resumes, due, joining, seen, answered>>

Server ==
  \/ RedeliverRead \/ RedeliverSend \/ Suspend \/ Notify
  \/ \E c \in Certs: ReadRow(c) \/ (\E r \in Status: Sign(c, r))

\* What goes on before the actor begins anything of its own: all but late messages.
UnderWay ==
  \/ JustSent \/ asked # Quiet \/ reading # NobodyReads \/ task # 0 \/ owes \/ notify
  \/ suspend \/ joining \/ link = "half"

\* The awaits that were answered go on, then the decision falls, before anything else but
\* another message of the same chunk.
Settled == job["check"] # Deciding /\ resumes = <<>>

Prompt ==
  \/ Decide \/ Resume \/ (job["check"] # Deciding /\ Receive)
  \/ Settled /\ (Server \/ Complete \/ Deferred)
  \/ Settled /\ (Tick \/ \E p \in Jobs: TimeOut(p))

Change ==
  \/ \E c \in Certs: Revoke(c) \/ NoAnswer(c)
  \/ Arm \/ Miss \/ Disarm \/ Drop \/ Restart

Next ==
  \/ Prompt
  \/ Settled /\ Change
  \/ Settled /\ ~UnderWay /\ (Timer \/ Check \/ Ask \/ Connect)

Spec ==
  /\ Init /\ [][Next]_vars
  /\ WF_vars(Prompt)
  /\ WF_vars(Settled /\ ~UnderWay /\ Timer) /\ WF_vars(Settled /\ ~UnderWay /\ Connect)

-----------------------------------------------------------------------------
\* The refreshes that asked: those answered, then those that wait, oldest first.
Flight == [i \in DOMAIN resumes |-> resumes[i].by] \o waiters

TypeOK ==
  /\ ledger \in [Certs -> Status] /\ armed \in BOOLEAN
  /\ gone \in [Certs -> 0..Old] /\ barred \in 0..Old
  /\ {notify, suspend, owes, joining, answered, cut} \subseteq BOOLEAN
  /\ asked \in [Certs -> Nat] /\ reading \in [Certs -> [Status -> Nat]]
  /\ task \in 0..NumCerts
  /\ wire \in Seq(Message) /\ resumes \in Seq(Resumed)
  /\ link \in {"down", "half", "up"}
  /\ held \in [Certs -> Belief] /\ saved \in [Certs -> Belief]
  /\ window \in {Fallback, MaxStatusAge}
  /\ job \in [Jobs -> [at: 0..NumCerts + 1, age: 0..Timeout]]
  /\ waiters \in Seq(Jobs)
  /\ IsInjective(Flight) /\ Range(Flight) = {p \in Jobs: job[p].at \in Certs}
  /\ due \in Nat /\ seen \subseteq Certs
  /\ undone \subseteq 0..NumCerts /\ excused \subseteq 0..NumCerts

Current(c, bound) == gone[c] <= bound /\ (c \in excused \/ barred <= bound)

\* An actor that fails closed authorizes nothing on a certificate whose row has not been
\* active, or whose actor has been under a switch, for longer than its bound: a cached
\* decision no longer than the bound in force, a permission check no longer than its own
\* requests may take, and one message, whatever was lost, late, out of order or restored.
\* A certificate redelivered under the switch is excused from it: the code does not look.
DecisionsAreFresh == \A c \in Certs:
  /\ SyncAllows(c) => Current(c, window + Latency)
  /\ CheckAllows(c) => Current(c, (IF answered THEN NumCerts * Timeout ELSE window) + Latency)

\* onKillSwitch: once an armed switch has reached the actor, nothing it does brings a
\* certificate back before the switch is disarmed, not even a restart; but an active answer
\* that had resolved its request when the switch arrived is applied after it.
CutOffHolds ==
  cut => \A c \in Certs \ undone: held[c].st = "revoked" /\ saved[c].st = "revoked"

\* "Recovery happens by reconnecting": certificates that stay in good standing authorize
\* again and again, after any kill switch, lost connection, restart or lost answer.
RightsReturn == <>[](\A c \in Certs: Good(c)) => []<>(\A c \in Certs: SyncAllows(c))
=============================================================================
