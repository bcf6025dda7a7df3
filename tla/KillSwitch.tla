----------------------------- MODULE KillSwitch -----------------------------
(***************************************************************************)
(* The emergency suspension: the arm and disarm actions of the admin       *)
(* console (app/admin/kill-switch/actions.ts), the armed set cached in     *)
(* memory (SwitchCache, lib/kill-switch.ts), and everyone who decides by   *)
(* it: the handshake gate, the certificate-status answers, the push to     *)
(* connected Actors (lib/ws-server.ts) and the approval gate               *)
(* (lib/registrations.ts).                                                 *)
(*                                                                         *)
(* A caller whose promise resolves runs to its next await in the same      *)
(* step.  A socket the server closes is off at once; the eviction race of  *)
(* an old socket's close event is the subject of GrantDelivery.            *)
(***************************************************************************)
EXTENDS SwitchCache

CONSTANTS
  Actor,      \* machine identities; each has one connection slot
  Human,      \* those of kind "human", exempt from every switch
  Home,       \* those filed under the workspace
  Newcomer    \* those with no Actor row until an admin approves them

\* Who calls getKillSwitchState: the handshake gate, the status answer and the
\* approval gate of an Actor, and the push of the action that wrote a version.
Call == (Actor \X {"gate", "status", "approve"})
          \cup ((0..MaxWrites) \X {"notify"})

ASSUME KillSwitchAssumption ==
  /\ Reader = Call
  /\ Human \subseteq Actor /\ Home \subseteq Actor
  /\ Newcomer \subseteq Actor \ (Human \cup Home)

VARIABLES
  content,  \* the scopes armed in each version of the table
  notify,   \* the push of the arm action that wrote each version
  pushed,   \* history: newest version a push acted on
  conn,     \* the connection of each Actor
  status,   \* the cert_status_request each Actor has outstanding, and the holder
            \* of the certificate it is about: anybody may ask about any
  grant     \* each Actor's registration and certificate exchange

Scope == {"global", "workspace"}

vars == <<cacheVars, content, notify, pushed, conn, status, grant>>

Quiet  == [pc |-> "none", v |-> 0, targets |-> {}]
Online == {a \in Actor : conn[a] \in {"seated", "promoted"}}

\* A request of r about a's certificate, and how far it is.
About(a, s) == [pc |-> s, of |-> a]
Idle(r)     == About(r, "none")

-----------------------------------------------------------------------------
\* suppressionForActor, for the armed set of version v: humans never, the
\* global switch everyone else, a workspace switch those filed under it.
Covered(a, v) ==
  /\ a \notin Human
  /\ \/ "global" \in content[v]
     \/ "workspace" \in content[v] /\ a \in Home

Init ==
  /\ CacheInit
  /\ content = [v \in Version |-> {}]
  /\ notify = [v \in Version |-> Quiet]
  /\ pushed = 0
  /\ conn = [a \in Actor |-> "off"]
  /\ status = [a \in Actor |-> Idle(a)]
  /\ grant = [a \in Actor |-> IF a \in Newcomer THEN "unknown" ELSE "none"]

\* An Actor row exists: the handshake takes the `existing` branch.
Known(a) == grant[a] \notin {"unknown", "pending", "gate"}

\* What a socket's end does to the Actors' connections: the exchange is
\* aborted unless its last round already arrived, an answer has no receiver.
Disconnect(as, c, s, g) ==
  /\ conn'   = [a \in Actor |-> IF a \in as THEN "off" ELSE c[a]]
  /\ status' = [a \in Actor |-> IF a \in as THEN Idle(a) ELSE s[a]]
  /\ grant'  = [a \in Actor |-> IF a \in as /\ g[a] = "exchange"
                                  THEN "approved" ELSE g[a]]

-----------------------------------------------------------------------------
\* No gate, a gate that also counts switches disarmed since, an answer from
\* the ledger alone, an answer the protocol does not know.
Gate_None(a, v)    == "seated"
Gate_History(a, v) == IF \E u \in 0..v : Covered(a, u) THEN "off" ELSE "seated"
Answer_LedgerOnly(a, v) == "active"
\* What each caller does with the armed set of version v.
Gate(a, v)    == IF Covered(a, v) THEN "off" ELSE "seated"
Answer(a, v)  == IF Covered(a, v) THEN "revoked" ELSE "active"
Approve(a, v) == IF Covered(a, v) THEN "pending" ELSE "approved"

\* handleAuthChallenge, identity proven: the row is looked up; a known Actor
\* meets the gate, an unknown one waits for approval.
HandshakeKnown(a) ==
  /\ conn[a] = "off" /\ Known(a)
  /\ \/ Hit(<<a, "gate">>) /\ conn' = [conn EXCEPT ![a] = Gate(a, cache.v)]
     \/ Miss(<<a, "gate">>) /\ conn' = [conn EXCEPT ![a] = "gate"]
  /\ UNCHANGED <<content, notify, pushed, status, grant>>

HandshakeUnknown(a) ==
  /\ conn[a] = "off" /\ ~Known(a)
  /\ conn' = [conn EXCEPT ![a] = "awaiting"]
  /\ grant' = [grant EXCEPT ![a] = IF @ = "unknown" THEN "pending" ELSE @]
  /\ UNCHANGED <<cacheVars, content, notify, pushed, status>>

\* handleCertStatusRequest, up to the armed set it answers by: r, connected, asks
\* about a certificate of a, who need not be.
StatusRequest(r, a) ==
  /\ r \in Online /\ status[r] = Idle(r)
  /\ \/ /\ Hit(<<r, "status">>)
        /\ status' = [status EXCEPT ![r] = About(a, Answer(a, cache.v))]
     \/ /\ Miss(<<r, "status">>)
        /\ status' = [status EXCEPT ![r] = About(a, "asking")]
  /\ UNCHANGED <<content, notify, pushed, conn, grant>>

\* After two more awaits (the registry, the signing identity) the answer is sent.
StatusAnswer(r) ==
  /\ status[r].pc \in {"active", "revoked"}
  /\ status' = [status EXCEPT ![r] = Idle(r)]
  /\ UNCHANGED <<cacheVars, content, notify, pushed, conn, grant>>

\* approvePendingRegistration, up to its gate.
ApproveRequest(a) ==
  /\ grant[a] = "pending"
  /\ \/ /\ Hit(<<a, "approve">>)
        /\ grant' = [grant EXCEPT ![a] = Approve(a, cache.v)]
     \/ /\ Miss(<<a, "approve">>)
        /\ grant' = [grant EXCEPT ![a] = "gate"]
  /\ UNCHANGED <<content, notify, pushed, conn, status>>

\* deliverApprovedCapabilities, from the approval, the handshake or the sweep:
\* an awaiting connection is promoted, the exchange starts.
Deliver(a) ==
  /\ grant[a] = "approved" /\ conn[a] \in {"awaiting", "seated", "promoted"}
  /\ grant' = [grant EXCEPT ![a] = "exchange"]
  /\ conn' = [conn EXCEPT ![a] = IF @ = "awaiting" THEN "promoted" ELSE @]
  /\ UNCHANGED <<cacheVars, content, notify, pushed, status>>

\* handleCertChallenge, the last round: the exchange is over and what is left
\* are awaits that do not look at the connection again.
Complete(a) ==
  /\ grant[a] = "exchange"
  /\ grant' = [grant EXCEPT ![a] = "complete"]
  /\ UNCHANGED <<cacheVars, content, notify, pushed, conn, status>>

\* persistChallengerCertificate: the certificate exists.
Mint(a) ==
  /\ grant[a] = "complete"
  /\ grant' = [grant EXCEPT ![a] = "minted"]
  /\ UNCHANGED <<cacheVars, content, notify, pushed, conn, status>>

\* The client's socket drops.
Drop(a) ==
  /\ conn[a] \in {"awaiting", "seated", "promoted"}
  /\ Disconnect({a}, conn, status, grant)
  /\ notify' = [v \in Version |-> [notify[v] EXCEPT !.targets = @ \ {a}]]
  /\ UNCHANGED <<cacheVars, content, pushed>>

-----------------------------------------------------------------------------
\* KillSwitchDAO.arm and disarm commit; a write from elsewhere does the same
\* without an action of this process to follow it.
Write(scopes, own) ==
  /\ Commit(own)
  /\ content' = [content EXCEPT ![db'] = scopes]
  /\ UNCHANGED <<notify, pushed, conn, status, grant>>

Arm(s, own)    == Write(content[db] \cup {s}, own)
Disarm(s, own) == s \in content[db] /\ Write(content[db] \ {s}, own)

\* armKillSwitchAction resumes: invalidate, then notifyKillSwitchArmed, which
\* asks for the armed set before it looks at the connections.  The action that
\* disarmed only invalidates.
Arming(v) == content[v - 1] \subseteq content[v]

InvalidateAndPush(v) ==
  /\ Invalidate(v, {<<v, "notify">>})
  /\ Arming(v)
  /\ notify' = [notify EXCEPT ![v].pc = "asking"]
  /\ UNCHANGED <<content, pushed, conn, status, grant>>

InvalidateOnly(v) ==
  /\ Invalidate(v, {})
  /\ ~Arming(v)
  /\ UNCHANGED <<content, notify, pushed, conn, status, grant>>

\* A workspace switch: the workspaces of the connected Actors have been read;
\* those of the snapshot that are covered are sent kill_switch and closed.
PushClose(v) ==
  /\ notify[v].pc = "looking"
  /\ Disconnect(notify[v].targets, conn, status, grant)
  /\ pushed' = Larger(pushed, notify[v].v)
  /\ notify' = [w \in Version |->
       IF w = v THEN Quiet
       ELSE [notify[w] EXCEPT !.targets = @ \ notify[v].targets]]
  /\ UNCHANGED <<cacheVars, content>>

\* The query resolves and every caller goes on with its result.
Resumed ==
  /\ Resolve
  /\ LET v == query.v
         c == [a \in Actor |-> IF conn[a] = "gate" THEN Gate(a, v) ELSE conn[a]]
         s == [a \in Actor |->
                 IF status[a].pc = "asking"
                   THEN About(status[a].of, Answer(status[a].of, v)) ELSE status[a]]
         g == [a \in Actor |->
                 IF grant[a] = "gate" THEN Approve(a, v) ELSE grant[a]]
         asking == {w \in Version : notify[w].pc = "asking"}
         targets == {a \in Actor : c[a] \in {"seated", "promoted"} /\ Covered(a, v)}
         now == asking # {} /\ "global" \in content[v]
     IN  /\ Disconnect(IF now THEN targets ELSE {}, c, s, g)
         /\ notify' = [w \in Version |->
              CASE w \in asking /\ now  -> Quiet
                [] w \in asking /\ ~now ->
                     [pc |-> "looking", v |-> v, targets |-> targets]
                [] OTHER -> [notify[w] EXCEPT !.targets =
                                  IF now THEN @ \ targets ELSE @]]
         /\ pushed' = IF now THEN Larger(pushed, v) ELSE pushed
  /\ UNCHANGED content

\* The query fails and every caller with it: the handshake is failed, the
\* status request gets no answer, the approval and the arm action throw.
Failed ==
  /\ Reject
  /\ conn' = [a \in Actor |-> IF conn[a] = "gate" THEN "off" ELSE conn[a]]
  /\ status' = [a \in Actor |->
                  IF status[a].pc = "asking" THEN Idle(a) ELSE status[a]]
  /\ grant' = [a \in Actor |->
                 IF grant[a] = "gate" THEN "pending" ELSE grant[a]]
  /\ notify' = [v \in Version |->
                  IF notify[v].pc = "asking" THEN Quiet ELSE notify[v]]
  /\ UNCHANGED <<content, pushed>>

Background ==
  /\ DbRead \/ Tick
  /\ UNCHANGED <<content, notify, pushed, conn, status, grant>>

Next ==
  \/ \E a \in Actor :
       \/ HandshakeKnown(a) \/ HandshakeUnknown(a)
       \/ (\E b \in Actor : StatusRequest(a, b))
       \/ StatusAnswer(a) \/ ApproveRequest(a)
       \/ Deliver(a) \/ Complete(a) \/ Mint(a) \/ Drop(a)
  \/ \E s \in Scope, own \in BOOLEAN : Arm(s, own) \/ Disarm(s, own)
  \/ \E v \in 1..MaxWrites :
       InvalidateAndPush(v) \/ InvalidateOnly(v) \/ PushClose(v)
  \/ Resumed \/ Failed \/ Background

Spec == Init /\ [][Next]_vars

\* Time passes, the database answers, Node runs its callbacks, the action that
\* wrote goes on, and a client that was turned away retries (the SDK's runLoop).
FairSpec ==
  /\ Spec
  /\ WF_vars(Tick /\ Background)
  /\ WF_vars(DbRead /\ Background)
  /\ WF_vars(Resumed)
  /\ \A v \in 1..MaxWrites : WF_vars(InvalidateAndPush(v) \/ InvalidateOnly(v))
  /\ \A a \in Actor : SF_vars(HandshakeKnown(a))

-----------------------------------------------------------------------------
TypeOK ==
  /\ CacheTypeOK
  /\ content \in [Version -> SUBSET Scope]
  /\ notify \in [Version -> [pc : {"none", "asking", "looking"},
                             v : Version, targets : SUBSET Actor]]
  /\ pushed \in Version
  /\ conn \in [Actor -> {"off", "gate", "awaiting", "seated", "promoted"}]
  /\ status \in [Actor -> [pc : {"none", "asking", "active", "revoked"}, of : Actor]]
  /\ grant \in [Actor -> {"none", "unknown", "pending", "gate", "approved",
                          "exchange", "complete", "minted"}]

\* The Actor has been covered ever since version v was committed.
CoveredSince(a, v) == \A u \in v..db : Covered(a, u)

\* Once a push has acted on an armed set, no Actor it covers is connected
\* through the handshake, nor becomes so before the switch is disarmed: the
\* snapshot catches those that are in, the gate those that come (ws-server.ts,
\* notifyKillSwitchArmed and handleAuthChallenge).
CutOff == \A a \in Actor : CoveredSince(a, pushed) => conn[a] # "seated"

\* ... and it is not called "active" from then on, whoever asks and however the
\* requester got its connection (ws-server.ts, handleCertStatusRequest): such an
\* answer on its way after the push was computed before it, and goes to a requester
\* the push did not cover and hence did not cut off.
Told(r, a) == status[r] = About(a, "active")

NoActiveAnswer ==
  [][\A r, a \in Actor :
       Told(r, a)' /\ CoveredSince(a, pushed)'
         => Told(r, a) /\ ~CoveredSince(r, pushed)']_vars

\* "Covered Actors reconnect on their own": when no armed switch covers an
\* Actor any more and the database answers, its retries are let in again, and
\* a human's at any time.
DisarmRestores ==
  \A a \in Actor \ Newcomer :
    <>[][~Failed]_vars /\ <>[]~Covered(a, db) => []<>(conn[a] = "seated")
=============================================================================
