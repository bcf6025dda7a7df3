--------------------------- MODULE WebhookDelivery ---------------------------
(***************************************************************************)
(* From a domain mutation to the endpoints and notification channels that  *)
(* subscribe to it: recordEvent and enqueueWebhook in the control plane    *)
(* (packages/controlplane/lib/audit.ts, webhook-queue.ts), the BullMQ      *)
(* queue between the two processes (external: attempts, backoff, stalled   *)
(* jobs), and the worker of packages/webhook-dispatcher.  One attempt runs *)
(* two halves at once, webhooks and channels, under one Promise.all.  A    *)
(* half that rejects ends the attempt while the other half is still        *)
(* loading or posting: what that half delivers is recorded nowhere.        *)
(***************************************************************************)
EXTENDS Naturals, FiniteSets

CONSTANTS
  Event,       \* domain events
  Hook,        \* rows of `webhooks`
  Channel,     \* rows of `notification_channels`
  Rendered,    \* events render.ts has a template for
  Attempts,    \* `attempts` of enqueueWebhook
  MaxStalls,   \* BullMQ: stalls after which a job is failed outright
  MaxEvents,   \* bound of the model: events that happen
  MaxFaults,   \* bound of the model: crashes, failing reads and writes, late answers
  MaxToggles   \* bound of the model: subscriptions switched on or off

ASSUME WebhookAssumption ==
  /\ Hook \cap Channel = {} /\ Rendered \subseteq Event
  /\ Attempts \in Nat \ {0} /\ MaxStalls \in Nat
  /\ MaxEvents \in Nat /\ MaxFaults \in Nat /\ MaxToggles \in Nat

Target == Hook \cup Channel
Side   == {Hook, Channel}

VARIABLES
  source,    \* recordEvent: "none", "audited" (not yet queued) or "over"
  active,    \* subscriptions that are switched on
  steady,    \* history: subscriptions in force ever since the event was queued
  job,       \* the jobs in Redis
  run,       \* the attempt the worker is making
  adrift,    \* halves that outlived their attempt and have not posted yet
  stray,     \* posts that outlived their attempt
  letters,   \* dead letters the failed handler is about to add
  dlq,       \* the dead-letter queue
  copies,    \* history: how often each target received each event (2: or more)
  cut,       \* history: events an attempt at which failed to record a delivery
  mislaid,   \* history: events whose dead letter was lost
  faults, toggles

queue    == <<job, letters, dlq>>
worker   == <<run, adrift, stray>>
history  == <<steady, copies, cut, mislaid>>
vars == <<source, active, toggles, queue, worker, history, faults>>

NoRun == [ev |-> "none"]
NoJob == [st |-> "none", made |-> 0, stalls |-> 0, recorded |-> {}]

\* selectTargets, selectNotificationTargets: what a half posts to.
Due_Forgets(e, side, known) ==
  IF side = Channel /\ e \notin Rendered THEN {} ELSE active \cap side

Due(e, side, known) ==
  IF side = Channel /\ e \notin Rendered THEN {} ELSE (active \cap side) \ known
Post(e, t) ==
  copies' = [copies EXCEPT ![e][t] = IF @ = 2 THEN 2 ELSE @ + 1]

Init ==
  /\ source = [e \in Event |-> "none"]
  /\ active \in {Target, Hook}
  /\ toggles = 0 /\ faults = 0
  /\ job = [e \in Event |-> NoJob]
  /\ run = NoRun /\ adrift = {} /\ stray = {}
  /\ letters = {} /\ dlq = {}
  /\ steady = [e \in Event |-> {}]
  /\ copies = [e \in Event |-> [t \in Target |-> 0]]
  /\ cut = {} /\ mislaid = {}

Happens(e) ==
  source[e] = "none" /\ Cardinality({x \in Event : source[x] # "none"}) < MaxEvents
Fault == faults < MaxFaults /\ faults' = faults + 1
-----------------------------------------------------------------------------
\* recordEvent awaits the audit row, then starts enqueueWebhook and does not
\* wait for it.  When the row cannot be written nothing is queued.
RecordEvent(e) ==
  /\ Happens(e)
  /\ source' = [source EXCEPT ![e] = "audited"]
  /\ UNCHANGED <<active, toggles, queue, worker, history, faults>>

AuditFails(e) ==
  /\ Happens(e) /\ Fault
  /\ source' = [source EXCEPT ![e] = "over"]
  /\ UNCHANGED <<active, toggles, queue, worker, history>>

EnqueueWebhook(e) ==
  /\ source[e] = "audited"
  /\ source' = [source EXCEPT ![e] = "over"]
  /\ job' = [job EXCEPT ![e].st = "waiting"]
  /\ steady' = [steady EXCEPT ![e] = Due(e, Hook, {}) \cup Due(e, Channel, {})]
  /\ UNCHANGED <<active, toggles, letters, dlq, worker, copies, cut,
                 mislaid, faults>>

\* No Redis, or the process ends first: logged or not, the event is gone.
EnqueueLost(e) ==
  /\ source[e] = "audited" /\ Fault
  /\ source' = [source EXCEPT ![e] = "over"]
  /\ UNCHANGED <<active, toggles, queue, worker, history>>

\* toggleWebhookActiveAction, toggleChannelActiveAction, and their deletions.
Toggle(t) ==
  /\ toggles < MaxToggles /\ toggles' = toggles + 1
  /\ active' = IF t \in active THEN active \ {t} ELSE active \cup {t}
  /\ steady' = [e \in Event |-> steady[e] \ {t}]
  /\ UNCHANGED <<source, queue, worker, copies, cut, mislaid, faults>>

-----------------------------------------------------------------------------
\* The worker takes a job and reads what earlier attempts recorded.
Take(e) ==
  /\ run = NoRun /\ job[e].st = "waiting"
  /\ job' = [job EXCEPT ![e].st = "active"]
  /\ run' = [ev |-> e, known |-> job[e].recorded, at |-> [s \in Side |-> "load"],
             due |-> {}, ok |-> {}, bad |-> {}]
  /\ UNCHANGED <<source, active, toggles, letters, dlq, adrift, stray, history,
                 faults>>

\* One half has its subscriptions and posts to all of them at once.
Load(s) ==
  /\ run # NoRun /\ run.at[s] = "load"
  /\ run' = [run EXCEPT !.at[s] = "sent", !.due = @ \cup Due(run.ev, s, run.known)]
  /\ UNCHANGED <<source, active, toggles, queue, adrift, stray, history, faults>>

\* deliverOne and notifyApprise never throw.  A receiver that answers after
\* the timeout has the event and counts as failed.
Answer(t) ==
  /\ run # NoRun /\ t \in run.due
  /\ \/ /\ Post(run.ev, t)
        /\ run' = [run EXCEPT !.due = @ \ {t}, !.ok = @ \cup {t}]
        /\ UNCHANGED <<cut, faults>>
     \/ /\ run' = [run EXCEPT !.due = @ \ {t}, !.bad = @ \cup {t}]
        /\ UNCHANGED <<copies, cut, faults>>
     \/ /\ Fault /\ Post(run.ev, t)
        /\ run' = [run EXCEPT !.due = @ \ {t}, !.bad = @ \cup {t}]
        /\ cut' = cut \cup {run.ev}
  /\ UNCHANGED <<source, active, toggles, queue, adrift, stray, steady, mislaid>>

HalvesDone == run # NoRun /\ run.due = {} /\ \A s \in Side : run.at[s] = "sent"

\* job.updateData: written back before the attempt's outcome is decided.
Save ==
  /\ HalvesDone /\ ~(run.ok \subseteq job[run.ev].recorded)
  /\ job' = [job EXCEPT ![run.ev].recorded = run.known \cup run.ok]
  /\ UNCHANGED <<source, active, toggles, letters, dlq, worker, history, faults>>

Complete_IgnoresChannels ==
  /\ HalvesDone /\ run.ok \subseteq job[run.ev].recorded /\ run.bad \subseteq Channel
  /\ job' = [job EXCEPT ![run.ev].st = "completed"]
  /\ run' = NoRun
  /\ UNCHANGED <<source, active, toggles, letters, dlq, adrift, stray, history,
                 faults>>

Complete ==
  /\ HalvesDone /\ run.ok \subseteq job[run.ev].recorded /\ run.bad = {}
  /\ job' = [job EXCEPT ![run.ev].st = "completed"]
  /\ run' = NoRun
  /\ UNCHANGED <<source, active, toggles, letters, dlq, adrift, stray, history,
                 faults>>

ShouldDeadLetter_OneMore(made) == made > Attempts
ShouldDeadLetter(made) == made >= Attempts

\* The processor threw: BullMQ counts the attempt, retries after a backoff or
\* fails the job, and emits "failed", whose handler builds the dead letter from
\* the job data.  Sides that are still loading go on by themselves.
Throw(loading) ==
  LET e == run.ev
      made == job[e].made + 1
  IN /\ job' = [job EXCEPT ![e].made = made,
                           ![e].st = IF made < Attempts THEN "delayed" ELSE "failed"]
     /\ letters' = IF ShouldDeadLetter(made)
                   THEN letters \cup {[ev |-> e, done |-> job[e].recorded \cap Hook]}
                   ELSE letters
     /\ adrift' = adrift \cup {[ev |-> e, side |-> s, known |-> run.known] : s \in loading}
     /\ stray' = stray \cup {<<e, t>> : t \in run.due}
     /\ run' = NoRun

Fail ==
  /\ HalvesDone /\ run.ok \subseteq job[run.ev].recorded /\ run.bad # {}
  /\ Throw({})
  /\ UNCHANGED <<source, active, toggles, dlq, history, faults>>

SaveFails ==
  /\ HalvesDone /\ ~(run.ok \subseteq job[run.ev].recorded) /\ Fault
  /\ Throw({})
  /\ cut' = cut \cup {run.ev}
  /\ UNCHANGED <<source, active, toggles, dlq, steady, copies, mislaid>>

\* loadActiveWebhooks or loadActiveNotificationChannels rejects.  That half is
\* over; the other one is not.
LoadFails(s) ==
  /\ run # NoRun /\ run.at[s] = "load" /\ Fault
  /\ Throw({o \in Side \ {s} : run.at[o] = "load"})
  /\ cut' = cut \cup {run.ev}
  /\ UNCHANGED <<source, active, toggles, dlq, steady, copies, mislaid>>

\* The half that was left behind loads its subscriptions and posts; its posts
\* arrive or not, and nobody reads the answer.
AdriftLoads(a) ==
  /\ adrift' = adrift \ {a}
  /\ stray' = stray \cup {<<a.ev, t>> : t \in Due(a.ev, a.side, a.known)}
  /\ UNCHANGED <<source, active, toggles, queue, run, history, faults>>

StrayLands(p) ==
  /\ stray' = stray \ {p}
  /\ Post(p[1], p[2]) \/ UNCHANGED copies
  /\ UNCHANGED <<source, active, toggles, queue, run, adrift, steady, cut,
                 mislaid, faults>>

-----------------------------------------------------------------------------
\* deadQueue.add, which is only logged when it fails.
DeadLetter(l) ==
  /\ letters' = letters \ {l}
  /\ \/ dlq' = dlq \cup {l} /\ UNCHANGED <<mislaid, faults>>
     \/ Fault /\ mislaid' = mislaid \cup {l.ev} /\ UNCHANGED dlq
  /\ UNCHANGED <<source, active, toggles, job, worker, steady, copies, cut>>

\* The dispatcher is killed and started again.  What it had posted is on the
\* wire and arrives or not.
Crash ==
  /\ run # NoRun \/ letters # {} \/ adrift # {}
  /\ Fault
  /\ run' = NoRun /\ adrift' = {} /\ letters' = {}
  /\ stray' = IF run = NoRun THEN stray ELSE stray \cup {<<run.ev, t>> : t \in run.due}
  /\ mislaid' = mislaid \cup {l.ev : l \in letters}
  /\ cut' = IF run = NoRun THEN cut ELSE cut \cup {run.ev}
  /\ UNCHANGED <<source, active, toggles, job, dlq, steady, copies>>

-----------------------------------------------------------------------------
\* BullMQ: a backoff ends; a job whose worker is gone is given back, or failed
\* outright, with the attempts made so far, when that happens too often.
Promote(e) ==
  /\ job[e].st = "delayed"
  /\ job' = [job EXCEPT ![e].st = "waiting"]
  /\ UNCHANGED <<source, active, toggles, letters, dlq, worker, history, faults>>

Stalled(e) ==
  /\ job[e].st = "active" /\ (run = NoRun \/ run.ev # e)
  /\ job' = [job EXCEPT ![e].stalls = @ + 1,
                        ![e].st = IF job[e].stalls = MaxStalls THEN "failed"
                                  ELSE "waiting"]
  /\ letters' = IF job'[e].st = "failed" /\ ShouldDeadLetter(job[e].made)
                THEN letters \cup {[ev |-> e, done |-> job[e].recorded \cap Hook]}
                ELSE letters
  /\ UNCHANGED <<source, active, toggles, dlq, worker, history, faults>>

Work ==
  \/ \E e \in Event : Take(e) \/ Promote(e) \/ Stalled(e)
  \/ \E s \in Side : Load(s)
  \/ \E t \in Target : Answer(t)
  \/ Save \/ Complete \/ Fail
  \/ \E l \in letters : DeadLetter(l)
Trouble ==
  \/ SaveFails \/ Crash
  \/ \E s \in Side : LoadFails(s)
  \/ \E a \in adrift : AdriftLoads(a)
  \/ \E p \in stray : StrayLands(p)
Produce ==
  \/ \E e \in Event : RecordEvent(e) \/ AuditFails(e) \/ EnqueueWebhook(e) \/ EnqueueLost(e)
  \/ \E t \in Target : Toggle(t)

Next == Work \/ Trouble \/ Produce

\* The dispatcher runs, and BullMQ's timers fire.  Requests end: a webhook by
\* its timeout, a notification by the HTTP client's own.
Spec == Init /\ [][Next]_vars /\ WF_vars(Work)
-----------------------------------------------------------------------------
TypeOK ==
  /\ source \in [Event -> {"none", "audited", "over"}]
  /\ active \subseteq Target
  /\ job \in [Event -> [st : {"none", "waiting", "active", "delayed", "completed",
                              "failed"},
                        made : 0..Attempts, stalls : 0..(MaxStalls + 1),
                        recorded : SUBSET Target]]
  /\ run # NoRun =>
       /\ run.ev \in Event /\ job[run.ev].st = "active"
       /\ run.known \subseteq Target
       /\ run.due \cup run.ok \cup run.bad \subseteq Target \ run.known
       /\ run.at \in [Side -> {"load", "sent"}]
  /\ adrift \subseteq [ev : Event, side : Side, known : SUBSET Target]
  /\ stray \subseteq Event \X Target
  /\ letters \cup dlq \subseteq [ev : Event, done : SUBSET Hook]
  /\ steady \in [Event -> SUBSET Target]
  /\ copies \in [Event -> [Target -> 0..2]]
  /\ cut \cup mislaid \subseteq Event
  /\ faults \in 0..MaxFaults /\ toggles \in 0..MaxToggles

\* delivery.ts: an endpoint that succeeded is not posted to again because some
\* other endpoint failed.  The comment says never; the code keeps it as long as
\* every attempt recorded what it delivered.  An attempt fails to when the
\* dispatcher dies, when updateData or the load of the other half rejects, and
\* when a receiver answers too late.
HealthyOnce == \A e \in Event \ cut : \A t \in Target : copies[e][t] <= 1

\* index.ts: what failed for good can be replayed.  A job that used up its
\* attempts is in the dead-letter queue or on its way there; only a crash before
\* the add, or an add that fails, loses it.  And a letter is honest: a replay
\* that skips the endpoints it lists withholds the event from nobody, one that
\* posts to the others repeats it to nobody unless an attempt failed to record a
\* delivery.
Honest(l) == \A t \in Hook :
  /\ t \in l.done => copies[l.ev][t] > 0
  /\ t \notin l.done /\ l.ev \notin cut => copies[l.ev][t] = 0
DeadLettersAreSound ==
  /\ \A l \in letters \cup dlq : Honest(l)
  /\ \A e \in Event :
       job[e].st = "failed" /\ job[e].made = Attempts /\ e \notin mislaid =>
         \E l \in letters \cup dlq : l.ev = e

\* The dispatcher keeps the promise of EventDelivery: a completed job reached
\* every subscription that was in force all along, a failed one used up its
\* attempts or its workers, and every queued event comes to one of the two ends.
Promise == INSTANCE EventDelivery WITH
  Budget <- Attempts, Losses <- MaxStalls,
  phase  <- [e \in Event |->
               CASE job[e].st = "none" -> "none"
                 [] job[e].st = "completed" -> "settled"
                 [] job[e].st = "failed" -> "abandoned"
                 [] OTHER -> "offered"],
  tries  <- [e \in Event |-> job[e].made],
  losses <- [e \in Event |-> job[e].stalls],
  got    <- {p \in Event \X Target : copies[p[1]][p[2]] > 0}
KeepsThePromise == Promise!Spec
=============================================================================
