------------------------------ MODULE Telemetry ------------------------------
(***************************************************************************)
(* How what a sensor observes becomes what its server shows: the poll loop *)
(* and the state store of vaultysclaw-sensor (cmd/sensor/poll.go,          *)
(* internal/state/state.go), the Go client's bounded queue, connection and *)
(* flush (sdk-go/vconn/client.go), and the two servers a sensor may report *)
(* to: the reference collector (internal/vconn/server.go,                  *)
(* internal/ingest/store.go), which holds an unknown device until an       *)
(* operator decides and keeps its view in memory with a periodic snapshot, *)
(* and handleSensorTelemetry of the control plane, which runs one handler  *)
(* per message and keeps its view in the database.                         *)
(*                                                                         *)
(* The sensor reports deltas only.  An observation is a level: 0 is "not   *)
(* there", and two levels differ when the difference is material.  The     *)
(* events a first detection adds repeat its content and are one event.     *)
(*                                                                         *)
(* This and FileSpool are the two halves of one program, whose theorems    *)
(* stand in one module (SensorProofs): no name is used in both.            *)
(***************************************************************************)
EXTENDS Integers, Sequences, FiniteSets, SequencesExt

CONSTANTS
  Workload,
  MaxLevel,
  AtStart,      \* what may run on the host when the sensor starts
  Epsilon,      \* state.go's confidenceEpsilon, in levels
  MaxQueueSize, \* the client's queue
  FlushSize,    \* ClientConfig.BatchSize
  Sessions,     \* bound of the model: connections the server holds at a time
  MaxChanges,   \* bound of the model: changes on the host
  MaxFaults     \* bound of the model: connections and writes that fail, restarts

ASSUME TelemetryAssumption ==
  /\ MaxLevel \in Nat \ {0} /\ Epsilon \in Nat /\ MaxQueueSize \in Nat \ {0} /\ FlushSize \in Nat \ {0}
  /\ IsFiniteSet(Workload) /\ AtStart \subseteq [Workload -> 0..MaxLevel] /\ 0 \notin Sessions
  /\ MaxChanges \in Nat /\ MaxFaults \in Nat

VARIABLES
  server,    \* "collector" or "control plane"
  host,      \* what runs on the host
  entries,   \* state.Store
  reported,  \* history: what the last event of each workload said
  granted,   \* the client holds process_read
  todo,      \* events of a poll still to be enqueued
  backlog,   \* ClientConn.queue
  emitted,
  conn,      \* the client's session, or 0
  session,   \* server side of a session
  decision,  \* the buffered channel of a waiting session
  wire,      \* batches under way
  work,      \* handlers running: what is left of each one's batch
  held,      \* Server.pending[did]: a session, or 0
  deciding,  \* an operator's decision between its two steps
  known,     \* the device has a record
  rows,      \* what the server shows
  snapshot,  \* the collector's snapshot
  applied,   \* history: the latest event applied, of each workload
  lost,      \* history: something was thrown away
  overtaken, \* history: an event was applied after a later one
  changes, faults

sensor == <<host, entries, reported, granted, todo, emitted, changes>>
link   == <<conn, session, wire>>
desk   == <<decision, held, deciding>>
view   == <<work, known, rows, snapshot, applied, overtaken>>
telemetryVars == <<server, sensor, backlog, link, desk, view, lost, faults>>

Level == 0..MaxLevel
Nothing == [w \in Workload |-> 0]
NoDecision == [s |-> 0]

\* awaitApproval: in its select, woken to admit or to refuse and not yet returned.
Awaiting == {"waiting", "admitted", "refused"}

TelemetryInit ==
  /\ server \in {"collector", "control plane"}
  /\ host \in AtStart /\ entries = Nothing /\ reported = Nothing
  /\ granted \in BOOLEAN /\ (server = "collector" => granted)
  /\ todo = <<>> /\ backlog = <<>> /\ emitted = 0
  /\ conn = 0
  /\ session = [s \in Sessions |-> "free"]
  /\ decision = [s \in Sessions |-> "none"]
  /\ wire = [s \in Sessions |-> <<>>]
  /\ work = <<>>
  /\ held = 0 /\ deciding = NoDecision
  /\ known = (server = "control plane")
  /\ rows = Nothing /\ snapshot = [known |-> known, rows |-> Nothing]
  /\ applied = Nothing
  /\ lost = FALSE /\ overtaken = FALSE
  /\ changes = 0 /\ faults = 0

-----------------------------------------------------------------------------
\* A process starts, stops, or is classified differently.
HostChanges ==
  /\ changes < MaxChanges /\ changes' = changes + 1
  /\ \E w \in Workload, l \in Level : l # host[w] /\ host' = [host EXCEPT ![w] = l]
  /\ UNCHANGED <<server, entries, reported, granted, todo, emitted, backlog, link, desk,
                 view, lost, faults>>

\* A certificate arrives, and its capabilities replace those held: process_read is
\* won or lost.  Only a control plane issues one.
Grant ==
  /\ server = "control plane" /\ conn # 0
  /\ granted' = ~granted
  /\ UNCHANGED <<server, host, entries, reported, todo, emitted, changes, backlog, link, desk,
                 view, lost, faults>>

\* Store.Reconcile: what came, went or moved by more than the threshold since the
\* last poll, in the order of the process table, and then what is gone, in the order
\* of a map.  A stop carries the confidences the workload had.
Material(was, is) == \/ (was = 0) # (is = 0)
                     \/ was - is > Epsilon \/ is - was > Epsilon
Changed(before, now) == {w \in Workload : Material(before[w], now[w])}

Reconcile_NoStops(before, now) ==
  SetToSeqs({w \in Changed(before, now) : now[w] # 0})

Reconcile(before, now) ==
  {order \in SetToSeqs(Changed(before, now)) :
     \A i, j \in DOMAIN order : i < j /\ now[order[i]] = 0 => now[order[j]] = 0}

Confidence(was, is) == IF is = 0 THEN was ELSE is

\* Each poll takes over what it sees, reported or not.
Poll ==
  /\ granted /\ todo = <<>> /\ entries # host
  /\ \E order \in Reconcile(entries, host) :
       /\ todo' = [i \in DOMAIN order |->
                    [id |-> emitted + i, w |-> order[i], level |-> host[order[i]],
                     conf |-> Confidence(entries[order[i]], host[order[i]])]]
       /\ emitted' = emitted + Len(order)
  /\ entries' = host
  /\ reported' = [w \in Workload |-> IF Material(entries[w], host[w]) THEN host[w]
                                     ELSE reported[w]]
  /\ UNCHANGED <<server, host, granted, changes, backlog, link, desk, view, lost, faults>>

\* The oldest event makes room for the newest.
Enqueue ==
  /\ todo # <<>>
  /\ backlog' = Append(IF Len(backlog) >= MaxQueueSize THEN Tail(backlog) ELSE backlog,
                       Head(todo))
  /\ lost' = (lost \/ Len(backlog) >= MaxQueueSize)
  /\ todo' = Tail(todo)
  /\ UNCHANGED <<server, host, entries, reported, granted, emitted, changes, link, desk, view,
                 faults>>

-----------------------------------------------------------------------------
\* connectAndServe up to the server's decision: a known device is served at
\* once, any other is held.  A connection held for the device is forgotten.  A decision
\* under way is for the connection it was looked up for, and no other in its place.
Dial ==
  /\ conn = 0
  /\ \E s \in Sessions :
       /\ session[s] = "free" /\ wire[s] = <<>> /\ deciding.s # s
       /\ conn' = s
       /\ session' = [session EXCEPT ![s] = IF known THEN "serving" ELSE "waiting"]
       /\ held' = IF known THEN held ELSE s
       /\ decision' = [decision EXCEPT ![s] = "none"]
  /\ UNCHANGED <<server, sensor, backlog, wire, deciding, view, lost, faults>>

\* The select of awaitApproval takes a decision, or the time is up, also when a
\* decision has just been sent.
Wake(s, to) ==
  /\ session[s] = "waiting"
  /\ session' = [session EXCEPT ![s] = to]
  /\ UNCHANGED <<server, sensor, backlog, conn, wire, desk, view, lost, faults>>

Admit(s)    == decision[s] = "approved" /\ Wake(s, "admitted")
TurnAway(s) == decision[s] = "rejected" /\ Wake(s, "refused")

ApprovalTimeout_OnlyListed(s) == held = s /\ Wake(s, "refused")
ApprovalTimeout(s) == Wake(s, "refused")

\* The client is told, and may dial again before its entry is gone.
Told(s) ==
  /\ session[s] = "refused" /\ conn = s
  /\ conn' = 0
  /\ UNCHANGED <<server, sensor, backlog, session, wire, desk, view, lost, faults>>

\* awaitApproval returns: the device's entry goes, whoever's it is by now, and a
\* refused connection is closed.
Release_KeepsEntry(s) ==
  /\ session[s] \in {"admitted", "refused"}
  /\ session' = [session EXCEPT ![s] = IF @ = "admitted" THEN "approved" ELSE "free"]
  /\ conn' = IF session[s] = "refused" /\ conn = s THEN 0 ELSE conn
  /\ UNCHANGED <<server, sensor, backlog, wire, desk, view, lost, faults>>

Release(s) ==
  /\ session[s] \in {"admitted", "refused"}
  /\ session' = [session EXCEPT ![s] = IF @ = "admitted" THEN "approved" ELSE "free"]
  /\ held' = 0
  /\ conn' = IF session[s] = "refused" /\ conn = s THEN 0 ELSE conn
  /\ UNCHANGED <<server, sensor, backlog, wire, decision, deciding, view, lost, faults>>

\* EnsureDevice, and the client learns that it is served.
Enrol(s) ==
  /\ session[s] = "approved"
  /\ session' = [session EXCEPT ![s] = "serving"]
  /\ known' = TRUE
  /\ UNCHANGED <<server, sensor, backlog, conn, wire, desk, work, rows, snapshot, applied,
                 overtaken, lost, faults>>

\* decide: the entry is looked up under the lock, the decision sent without it.
LookUp ==
  /\ deciding = NoDecision /\ held # 0
  /\ \E d \in {"approved", "rejected"} : deciding' = [s |-> held, d |-> d]
  /\ UNCHANGED <<server, sensor, backlog, link, decision, held, view, lost, faults>>

SendDecision ==
  /\ deciding # NoDecision
  /\ LET s == deciding.s
     IN  IF decision[s] = "none"
         THEN decision' = [decision EXCEPT ![s] = deciding.d]
         ELSE UNCHANGED decision
  /\ deciding' = NoDecision
  /\ UNCHANGED <<server, sensor, backlog, link, held, view, lost, faults>>

-----------------------------------------------------------------------------
Open == conn # 0 /\ session[conn] = "serving"
Drained == IF Len(backlog) < FlushSize THEN Len(backlog) ELSE FlushSize

\* One round of flushOnce.
FlushOnce ==
  /\ Open /\ backlog # <<>>
  /\ wire' = [wire EXCEPT ![conn] = Append(@, SubSeq(backlog, 1, Drained))]
  /\ backlog' = SubSeq(backlog, Drained + 1, Len(backlog))
  /\ UNCHANGED <<server, sensor, conn, session, desk, view, lost, faults>>

\* The write fails: the batch is neither queued nor sent.
FlushFails_Requeued ==
  /\ Open /\ backlog # <<>> /\ faults < MaxFaults
  /\ faults' = faults + 1
  /\ backlog' = SubSeq(backlog, Drained + 1, Len(backlog)) \o SubSeq(backlog, 1, Drained)
  /\ conn' = 0
  /\ UNCHANGED <<server, sensor, session, wire, desk, view, lost>>

FlushFails ==
  /\ Open /\ backlog # <<>> /\ faults < MaxFaults
  /\ faults' = faults + 1
  /\ backlog' = SubSeq(backlog, Drained + 1, Len(backlog))
  /\ lost' = TRUE /\ conn' = 0
  /\ UNCHANGED <<server, sensor, session, wire, desk, view>>

\* The client loses its connection: what was under way arrives or does not.
\* A held connection is not read, so the server does not notice.
Break ==
  /\ conn # 0 /\ faults < MaxFaults
  /\ faults' = faults + 1
  /\ \E n \in 0..Len(wire[conn]) :
       /\ wire' = [wire EXCEPT ![conn] = SubSeq(@, 1, n)]
       /\ lost' = (lost \/ n < Len(wire[conn]))
  /\ conn' = 0
  /\ UNCHANGED <<server, sensor, backlog, session, desk, view>>

\* The collector reads a connection when it has applied the last batch.
Reads(s) == server = "collector" => \A i \in DOMAIN work : work[i].s # s

Hangup(s) ==
  /\ session[s] = "serving" /\ conn # s /\ wire[s] = <<>> /\ Reads(s)
  /\ session' = [session EXCEPT ![s] = "free"]
  /\ UNCHANGED <<server, sensor, backlog, conn, wire, desk, view, lost, faults>>

-----------------------------------------------------------------------------
\* The control plane starts a handler for each message.
Receive(s) ==
  /\ session[s] = "serving" /\ wire[s] # <<>> /\ Reads(s)
  /\ work' = Append(work, [s |-> s, batch |-> Head(wire[s])])
  /\ wire' = [wire EXCEPT ![s] = Tail(@)]
  /\ UNCHANGED <<server, sensor, backlog, conn, session, desk, known, rows, snapshot, applied,
                 overtaken, lost, faults>>

\* UpsertWorkload: the latest event is the current state, and a stop deletes the row.
\* The control plane's upsert writes the confidences of any event, a stop's too: its
\* row stays, and nothing that lists it looks at the kind of the last event.
Upsert(table, e) ==
  [table EXCEPT ![e.w] = IF server = "collector" THEN e.level ELSE e.conf]

Apply(i) ==
  /\ i \in DOMAIN work
  /\ LET e == Head(work[i].batch)
     IN  /\ rows' = Upsert(rows, e)
         /\ overtaken' = (overtaken \/ e.id < applied[e.w])
         /\ applied' = [applied EXCEPT ![e.w] = e.id]
  /\ work' = IF Len(work[i].batch) > 1
             THEN [work EXCEPT ![i].batch = Tail(@)] ELSE RemoveAt(work, i)
  /\ UNCHANGED <<server, sensor, backlog, link, desk, known, snapshot, lost, faults>>

\* Snapshot: a temporary file, then a rename.
Snapshot ==
  /\ server = "collector"
  /\ snapshot' = [known |-> known, rows |-> rows]
  /\ UNCHANGED <<server, sensor, backlog, link, desk, work, known, rows, applied,
                 overtaken, lost, faults>>

\* The collector restarts from its snapshot; the control plane's database
\* keeps everything.  Every connection is gone.
ServerRestarts ==
  /\ faults < MaxFaults /\ faults' = faults + 1
  /\ \/ server = "collector" /\ known' = snapshot.known /\ rows' = snapshot.rows
     \/ server = "control plane" /\ UNCHANGED <<known, rows>>
  /\ lost' = (lost \/ rows' # rows \/ work # <<>> \/ \E s \in Sessions : wire[s] # <<>>)
  /\ conn' = 0 /\ work' = <<>>
  /\ session' = [s \in Sessions |-> "free"]
  /\ wire' = [s \in Sessions |-> <<>>]
  /\ decision' = [s \in Sessions |-> "none"]
  /\ held' = 0 /\ deciding' = NoDecision
  /\ UNCHANGED <<server, sensor, backlog, snapshot, applied, overtaken>>

\* The sensor restarts: neither its store nor its queue survives, its
\* certificate does.  What stopped meanwhile is never reported.
SensorRestarts ==
  /\ faults < MaxFaults /\ faults' = faults + 1
  /\ entries' = Nothing /\ reported' = Nothing /\ todo' = <<>> /\ backlog' = <<>>
  /\ lost' = TRUE /\ conn' = 0
  /\ UNCHANGED <<server, host, granted, emitted, changes, session, wire, desk, view>>

Operator == LookUp \/ SendDecision
Client ==
  \/ HostChanges \/ Grant \/ Poll \/ Enqueue \/ Dial \/ FlushOnce \/ FlushFails \/ Break
  \/ \E s \in Sessions : Told(s)
Server ==
  \/ Snapshot
  \/ \E s \in Sessions :
       \/ Admit(s) \/ TurnAway(s) \/ ApprovalTimeout(s) \/ Release(s) \/ Enrol(s)
       \/ Hangup(s) \/ Receive(s)
  \/ \E i \in DOMAIN work : Apply(i)
TelemetryNext == Operator \/ Client \/ Server \/ ServerRestarts \/ SensorRestarts

\* The client dials and flushes on timers of its own; the server's handlers run
\* to their end and its approval timer fires.  An operator may never decide, and
\* nothing has to fail.
Fairness ==
  /\ WF_telemetryVars(Poll) /\ WF_telemetryVars(Enqueue) /\ WF_telemetryVars(Dial)
  /\ WF_telemetryVars(FlushOnce)
  /\ \A s \in Sessions : WF_telemetryVars(Admit(s) \/ TurnAway(s) \/ ApprovalTimeout(s))
  /\ \A s \in Sessions : WF_telemetryVars(Release(s)) /\ WF_telemetryVars(Enrol(s))
  /\ \A s \in Sessions : WF_telemetryVars(Hangup(s)) /\ WF_telemetryVars(Receive(s))
  /\ WF_telemetryVars(\E i \in DOMAIN work : Apply(i))

TelemetrySpec == TelemetryInit /\ [][TelemetryNext]_telemetryVars /\ Fairness
-----------------------------------------------------------------------------
TelemetryTypeOK ==
  /\ entries \in [Workload -> Level] /\ rows \in [Workload -> Level]
  /\ Len(backlog) <= MaxQueueSize
  /\ \A i \in DOMAIN backlog : backlog[i].id \in 1..emitted /\ backlog[i].level \in Level
  /\ conn \in Sessions \cup {0} /\ held \in Sessions \cup {0}
  /\ conn # 0 => session[conn] # "free"
  /\ \A s \in Sessions : wire[s] # <<>> => session[s] = "serving"
  /\ \A i \in DOMAIN work : work[i].batch # <<>>

Quiet == todo = <<>> /\ backlog = <<>> /\ work = <<>> /\ \A s \in Sessions : wire[s] = <<>>

\* state.go: deltas, "never a full snapshot".  When nothing was thrown away and
\* nothing overtaken, the server shows every workload the sensor last saw, as it was
\* last reported, and the collector shows no other: through the queue, batches,
\* reconnections, and restarts of a server that kept its rows, no delta is missing,
\* doubled or swapped with another.  The control plane goes on showing what stopped.
ViewIsCurrent ==
  ~lost /\ ~overtaken /\ Quiet =>
    \A w \in Workload :
      /\ entries[w] # 0 => rows[w] # 0 /\ rows[w] = reported[w]
      /\ entries[w] = 0 /\ server = "collector" => rows[w] = 0

\* Reports of one workload keep their order up to the handlers.  One that is
\* queued, or under way on the client's connection, is never older than what is
\* already shown, so only batches applied at once, or left on a connection the
\* client gave up, can be overtaken; and the collector applies one at a time.
Older(e) == e.id < applied[e.w]
ReportsKeepOrder ==
  /\ \A i \in DOMAIN backlog : ~Older(backlog[i])
  /\ conn # 0 =>
       \A i \in DOMAIN wire[conn] : \A j \in DOMAIN wire[conn][i] : ~Older(wire[conn][i][j])
  /\ server = "collector" =>
       \A i \in DOMAIN work : work[i].s = conn =>
         \A j \in DOMAIN work[i].batch : ~Older(work[i].batch[j])

\* ingest/server.go lists the connections awaiting a decision.  Whatever other
\* connections of the device come, are refused, time out or break meanwhile, an entry is
\* one whose awaitApproval has not returned, never one that is served or closed.  It may
\* have been woken: a decision that finds the entry then is accepted and has no effect.
PendingIsOpen == held # 0 => session[held] \in Awaiting

\* client.go: a lost connection never stops the reports.  While the device stays
\* known, whatever is queued is applied in the end, also when the client is held
\* on a connection opened before the device was approved.
EverythingSettles == <>[]known => []<>Quiet
=============================================================================
