------------------------ MODULE WebhookDeliveryProofs ------------------------
(***************************************************************************)
(* Proofs about WebhookDelivery: a receiver gets an event once as long as  *)
(* every attempt recorded what it delivered, dead letters are there and    *)
(* honest, and every step of the dispatcher is one EventDelivery allows.   *)
(***************************************************************************)
EXTENDS WebhookDelivery, TLAPS

Statuses == {"none", "waiting", "active", "delayed", "completed", "failed"}
Job == [st : Statuses, made : 0..Attempts, stalls : 0..(MaxStalls + 1),
        recorded : SUBSET Target]
Run == [ev : Event, known : SUBSET Target, at : [Side -> {"load", "sent"}],
        due : SUBSET Target, ok : SUBSET Target, bad : SUBSET Target]
Half   == [ev : Event, side : Side, known : SUBSET Target]
Letter == [ev : Event, done : SUBSET Hook]

Typed ==
  /\ source \in [Event -> {"none", "audited", "over"}]
  /\ active \in SUBSET Target
  /\ job \in [Event -> Job]
  /\ run \in Run \cup {NoRun}
  /\ adrift \in SUBSET Half /\ stray \in SUBSET (Event \X Target)
  /\ letters \in SUBSET Letter /\ dlq \in SUBSET Letter
  /\ steady \in [Event -> SUBSET Target]
  /\ copies \in [Event -> [Target -> 0..2]]
  /\ cut \in SUBSET Event /\ mislaid \in SUBSET Event
  /\ faults \in 0..MaxFaults /\ toggles \in 0..MaxToggles

Over(e) == job[e].st \in {"completed", "failed"}

\* Nothing is queued before recordEvent is over, and a job that is not has budget left.
JobInv == \A e \in Event :
  /\ source[e] # "over" => job[e].st = "none"
  /\ ~Over(e) => job[e].made < Attempts /\ job[e].stalls <= MaxStalls
SteadyInv == \A e \in Event :
  steady[e] \subseteq active /\ (e \notin Rendered => steady[e] \cap Channel = {})

Handled == run.due \cup run.ok \cup run.bad

\* The attempt under way holds an active job.  What it posts to is new to the event; a
\* half that has loaded has dealt with everything that was owed all along.
RunInv == run # NoRun =>
  /\ job[run.ev].st = "active"
  /\ run.known \subseteq job[run.ev].recorded
  /\ job[run.ev].recorded \subseteq run.known \cup run.ok
  /\ Handled \cap run.known = {} /\ run.due \cap (run.ok \cup run.bad) = {}
  /\ \A s \in Side : IF run.at[s] = "load" THEN Handled \cap s = {}
                     ELSE steady[run.ev] \cap s \subseteq run.known \cup Handled

\* What outlived its attempt belongs to an event an attempt at which was cut short.
StrayInv ==
  /\ \A a \in adrift : a.ev \in cut /\ job[a.ev].st # "none"
  /\ \A p \in stray : p[1] \in cut /\ job[p[1]].st # "none"

Reached(e) == job[e].recorded \cup (IF run # NoRun /\ run.ev = e THEN run.ok ELSE {})

\* What is recorded was received; unless an attempt was cut short, only that, and once.
CopiesInv == \A e \in Event :
  /\ \A t \in Reached(e) : copies[e][t] > 0
  /\ e \notin cut => \A t \in Target : /\ copies[e][t] <= 1
                                       /\ t \notin Reached(e) => copies[e][t] = 0
LettersInv ==
  /\ \A l \in letters \cup dlq : job[l.ev].st = "failed"
  /\ DeadLettersAreSound

WebhookInv == Typed /\ JobInv /\ SteadyInv /\ RunInv /\ StrayInv /\ CopiesInv /\ LettersInv

-----------------------------------------------------------------------------
(* What is left alone.                                                     *)

\* Only the producer's side, or a counter, has moved.
LEMMA Quiet ==
  ASSUME WebhookInv,
         UNCHANGED <<active, job, run, adrift, stray, letters, dlq, steady, copies, cut, mislaid>>,
         source' \in [Event -> {"none", "audited", "over"}],
         \A e \in Event : source'[e] # "over" => source[e] # "over",
         faults' \in 0..MaxFaults, toggles' \in 0..MaxToggles
  PROVE  WebhookInv'
<1>1. Typed' BY DEF WebhookInv, Typed
<1>2. JobInv' BY DEF WebhookInv, JobInv, Over
<1>3. SteadyInv' BY DEF WebhookInv, SteadyInv
<1>4. RunInv' BY DEF WebhookInv, RunInv, Handled
<1>5. StrayInv' BY DEF WebhookInv, StrayInv
<1>6. CopiesInv' BY DEF WebhookInv, CopiesInv, Reached
<1>7. LettersInv' BY DEF WebhookInv, LettersInv, DeadLettersAreSound, Honest
<1> QED BY <1>1, <1>2, <1>3, <1>4, <1>5, <1>6, <1>7 DEF WebhookInv

LEMMA FaultTyped ==
  ASSUME WebhookInv, Fault
  PROVE  faults' \in 0..MaxFaults
BY WebhookAssumption DEF WebhookInv, Typed, Fault

LEMMA SourceKeeps ==
  ASSUME WebhookInv, NEW e \in Event, RecordEvent(e) \/ AuditFails(e) \/ EnqueueLost(e)
  PROVE  WebhookInv'
<1>1. UNCHANGED <<active, toggles, queue, worker, history>>
  BY DEF RecordEvent, AuditFails, EnqueueLost
<1>2. UNCHANGED <<job, run, adrift, stray, letters, dlq, steady, copies, cut, mislaid>>
  BY <1>1 DEF queue, worker, history
<1>3. source \in [Event -> {"none", "audited", "over"}] BY DEF WebhookInv, Typed
<1>4. source[e] # "over" /\ \E v \in {"audited", "over"} : source' = [source EXCEPT ![e] = v]
  BY DEF RecordEvent, AuditFails, EnqueueLost, Happens
<1>5. /\ source' \in [Event -> {"none", "audited", "over"}]
      /\ \A x \in Event : source'[x] # "over" => source[x] # "over"
  BY <1>3, <1>4
<1>6. faults' \in 0..MaxFaults
  <2>1. Fault \/ faults' = faults BY DEF RecordEvent, AuditFails, EnqueueLost
  <2> QED BY <2>1, FaultTyped DEF WebhookInv, Typed
<1>7. toggles' \in 0..MaxToggles BY <1>1 DEF WebhookInv, Typed
<1> QED BY <1>1, <1>2, <1>5, <1>6, <1>7, Quiet

LEMMA ToggleKeeps ==
  ASSUME WebhookInv, NEW t \in Target, Toggle(t)
  PROVE  WebhookInv'
<1>1. UNCHANGED <<source, job, run, adrift, stray, letters, dlq, copies, cut, mislaid, faults>>
  BY DEF Toggle, queue, worker
<1>2. /\ toggles < MaxToggles /\ toggles' = toggles + 1
      /\ active' = IF t \in active THEN active \ {t} ELSE active \cup {t}
      /\ steady' = [e \in Event |-> steady[e] \ {t}]
  BY DEF Toggle
<1>3. Typed' BY <1>1, <1>2, WebhookAssumption DEF WebhookInv, Typed
<1>4. JobInv' BY <1>1 DEF WebhookInv, JobInv, Over
<1>5. SteadyInv'
  <2>1. SteadyInv BY DEF WebhookInv
  <2> SUFFICES ASSUME NEW e \in Event
               PROVE  /\ steady'[e] \subseteq active'
                      /\ e \notin Rendered => steady'[e] \cap Channel = {}
    BY DEF SteadyInv
  <2>2. steady'[e] = steady[e] \ {t} BY <1>2
  <2>3. active \ {t} \subseteq active' BY <1>2
  <2> QED BY <2>1, <2>2, <2>3 DEF SteadyInv
<1>6. RunInv'
  <2>1. run # NoRun => run.ev \in Event /\ steady'[run.ev] \subseteq steady[run.ev]
    BY <1>2 DEF WebhookInv, Typed, Run
  <2>2. Handled' = Handled BY <1>1 DEF Handled
  <2> QED BY <1>1, <2>1, <2>2 DEF WebhookInv, RunInv
<1>7. StrayInv' BY <1>1 DEF WebhookInv, StrayInv
<1>8. CopiesInv' BY <1>1 DEF WebhookInv, CopiesInv, Reached
<1>9. LettersInv' BY <1>1 DEF WebhookInv, LettersInv, DeadLettersAreSound, Honest
<1> QED BY <1>3, <1>4, <1>5, <1>6, <1>7, <1>8, <1>9 DEF WebhookInv

-----------------------------------------------------------------------------
(* The queue.                                                              *)

\* A job the worker does not hold changes its state, and with it perhaps the letters.
LEMMA JobMoves ==
  ASSUME WebhookInv, NEW e \in Event, NEW j \in Job,
         job[e].st \notin {"completed", "failed"}, run # NoRun => run.ev # e,
         job' = [job EXCEPT ![e] = j], j.recorded = job[e].recorded,
         j.st # "none", j.made = job[e].made,
         j.st \notin {"completed", "failed"} => j.stalls <= MaxStalls,
         source' \in [Event -> {"none", "audited", "over"}], source'[e] = "over",
         \A x \in Event : source'[x] # "over" => source[x] # "over",
         steady' \in [Event -> SUBSET Target], SteadyInv',
         \A x \in Event : x # e => steady'[x] = steady[x],
         UNCHANGED <<active, run, adrift, stray, letters, dlq, copies, cut, mislaid, faults, toggles>>
  PROVE  WebhookInv'
<1>1. \A x \in Event : x # e => job'[x] = job[x] BY DEF WebhookInv, Typed
<1>2. job'[e] = j BY DEF WebhookInv, Typed
<1>3. Typed' BY DEF WebhookInv, Typed
<1>4. JobInv' BY <1>1, <1>2 DEF WebhookInv, JobInv, Over
<1>5. run # NoRun => run.ev \in Event BY DEF WebhookInv, Typed, Run
<1>6. Handled' = Handled BY DEF Handled
<1>7. RunInv' BY <1>1, <1>5, <1>6 DEF WebhookInv, RunInv
<1>8. StrayInv' BY <1>1, <1>2 DEF WebhookInv, StrayInv, Typed, Half
<1>9. \A x \in Event : Reached(x)' = Reached(x) BY <1>1, <1>2 DEF Reached
<1>10. CopiesInv' BY <1>9 DEF WebhookInv, CopiesInv
<1>11. job[e].made < Attempts /\ job[e].made \in Nat
  BY DEF WebhookInv, JobInv, Over, Typed, Job
<1>12. ASSUME NEW l \in letters \cup dlq PROVE l.ev \in Event /\ l.ev # e /\ job'[l.ev].st = "failed"
  BY <1>1 DEF WebhookInv, LettersInv, Typed, Letter
<1>13. \A l \in letters \cup dlq : Honest(l)' BY DEF WebhookInv, LettersInv, DeadLettersAreSound, Honest
<1>14. DeadLettersAreSound' BY <1>1, <1>2, <1>11, <1>13
  DEF WebhookInv, LettersInv, DeadLettersAreSound
<1>15. LettersInv' BY <1>12, <1>14 DEF LettersInv
<1> QED BY <1>3, <1>4, <1>7, <1>8, <1>10, <1>15 DEF WebhookInv

LEMMA EnqueueKeeps ==
  ASSUME WebhookInv, NEW e \in Event, EnqueueWebhook(e)
  PROVE  WebhookInv'
<1> DEFINE j == [job[e] EXCEPT !.st = "waiting"]
           T == Due(e, Hook, {}) \cup Due(e, Channel, {})
<1>1. /\ source[e] = "audited" /\ source' = [source EXCEPT ![e] = "over"]
      /\ job' = [job EXCEPT ![e].st = "waiting"] /\ steady' = [steady EXCEPT ![e] = T]
      /\ UNCHANGED <<active, run, adrift, stray, letters, dlq, copies, cut, mislaid, faults, toggles>>
  BY DEF EnqueueWebhook, worker
<1>2. job \in [Event -> Job] /\ source \in [Event -> {"none", "audited", "over"}]
      /\ steady \in [Event -> SUBSET Target]
  BY DEF WebhookInv, Typed
<1>3. job[e].st = "none" /\ ~Over(e) BY <1>1 DEF WebhookInv, JobInv, Over
<1>4. job[e].stalls <= MaxStalls BY <1>3 DEF WebhookInv, JobInv
<1>5. run # NoRun => run.ev # e BY <1>3 DEF WebhookInv, RunInv
<1>6. /\ j \in Job /\ j.recorded = job[e].recorded /\ j.made = job[e].made
      /\ j.stalls = job[e].stalls /\ j.st = "waiting"
  BY <1>2 DEF Job, Statuses
<1>7. job' = [job EXCEPT ![e] = j] BY <1>1, <1>2
<1>8. /\ source' \in [Event -> {"none", "audited", "over"}] /\ source'[e] = "over"
      /\ \A x \in Event : source'[x] # "over" => source[x] # "over"
  BY <1>1, <1>2
<1>9. T \subseteq active /\ (e \notin Rendered => T \cap Channel = {})
  BY WebhookAssumption DEF Due
<1> HIDE DEF j, T
<1>10. active \subseteq Target BY DEF WebhookInv, Typed
<1>11. steady' \in [Event -> SUBSET Target] /\ \A x \in Event : x # e => steady'[x] = steady[x]
  BY <1>1, <1>2, <1>9, <1>10
<1>12. steady'[e] = T BY <1>1, <1>2
<1>13. SteadyInv' BY <1>1, <1>9, <1>11, <1>12 DEF WebhookInv, SteadyInv
<1>14. job[e].st \notin {"completed", "failed"} BY <1>3
<1> QED BY <1>1, <1>4, <1>5, <1>6, <1>7, <1>8, <1>11, <1>13, <1>14, JobMoves

LEMMA PromoteKeeps ==
  ASSUME WebhookInv, NEW e \in Event, Promote(e)
  PROVE  WebhookInv'
<1> DEFINE j == [job[e] EXCEPT !.st = "waiting"]
<1>1. /\ job[e].st = "delayed" /\ job' = [job EXCEPT ![e].st = "waiting"]
      /\ UNCHANGED <<source, active, run, adrift, stray, letters, dlq, steady, copies, cut,
                     mislaid, faults, toggles>>
  BY DEF Promote, worker, history
<1>2. job \in [Event -> Job] /\ source \in [Event -> {"none", "audited", "over"}]
      /\ steady \in [Event -> SUBSET Target]
  BY DEF WebhookInv, Typed
<1>3. job[e].stalls <= MaxStalls /\ source[e] = "over"
  BY <1>1 DEF WebhookInv, JobInv, Over
<1>4. run # NoRun => run.ev # e BY <1>1 DEF WebhookInv, RunInv
<1>5. /\ j \in Job /\ j.recorded = job[e].recorded /\ j.made = job[e].made
      /\ j.stalls = job[e].stalls /\ j.st = "waiting"
  BY <1>2 DEF Job, Statuses
<1>6. job' = [job EXCEPT ![e] = j] BY <1>1, <1>2
<1> HIDE DEF j
<1>7. SteadyInv' BY <1>1 DEF WebhookInv, SteadyInv
<1> QED BY <1>1, <1>2, <1>3, <1>4, <1>5, <1>6, <1>7, JobMoves

\* A job that loses its worker too often fails with attempts left: no dead letter.
LEMMA StalledKeeps ==
  ASSUME WebhookInv, NEW e \in Event, Stalled(e)
  PROVE  WebhookInv'
<1> DEFINE c == IF job[e].stalls = MaxStalls THEN "failed" ELSE "waiting"
           j == [job[e] EXCEPT !.stalls = @ + 1, !.st = c]
<1>1. /\ job[e].st = "active" /\ (run = NoRun \/ run.ev # e)
      /\ job' = [job EXCEPT ![e].stalls = @ + 1, ![e].st = c]
      /\ UNCHANGED <<source, active, run, adrift, stray, dlq, steady, copies, cut, mislaid,
                     faults, toggles>>
  BY DEF Stalled, worker, history
<1>2. job \in [Event -> Job] /\ source \in [Event -> {"none", "audited", "over"}]
      /\ steady \in [Event -> SUBSET Target]
  BY DEF WebhookInv, Typed
<1>3. job[e].made < Attempts /\ job[e].stalls <= MaxStalls /\ source[e] = "over"
  BY <1>1 DEF WebhookInv, JobInv, Over
<1>4. job[e].made \in 0..Attempts /\ job[e].stalls \in 0..(MaxStalls + 1) BY <1>2 DEF Job
<1>5. letters' = letters
  <2>1. ~ShouldDeadLetter(job[e].made) BY <1>3, <1>4, WebhookAssumption DEF ShouldDeadLetter
  <2> QED BY <2>1 DEF Stalled
<1>6. c \in {"failed", "waiting"} OBVIOUS
<1>7. c = "waiting" => job[e].stalls # MaxStalls OBVIOUS
<1> HIDE DEF c
<1>8. job[e].stalls + 1 \in 0..(MaxStalls + 1) BY <1>3, <1>4, WebhookAssumption
<1>9. c = "waiting" => job[e].stalls + 1 <= MaxStalls
  BY <1>3, <1>4, <1>7, WebhookAssumption
<1>10. /\ j \in Job /\ j.recorded = job[e].recorded /\ j.made = job[e].made
       /\ j.stalls = job[e].stalls + 1 /\ j.st = c
  BY <1>2, <1>6, <1>8 DEF Job, Statuses
<1>11. job' = [job EXCEPT ![e] = j] BY <1>1, <1>2
<1> HIDE DEF j
<1>12. SteadyInv' BY <1>1 DEF WebhookInv, SteadyInv
<1>13. j.st # "none" /\ (j.st \notin {"completed", "failed"} => j.stalls <= MaxStalls)
  BY <1>6, <1>9, <1>10
<1> QED BY <1>1, <1>2, <1>3, <1>5, <1>10, <1>11, <1>12, <1>13, JobMoves

-----------------------------------------------------------------------------
(* An attempt.                                                             *)

LEMMA TakeKeeps ==
  ASSUME WebhookInv, NEW e \in Event, Take(e)
  PROVE  WebhookInv'
<1> DEFINE j == [job[e] EXCEPT !.st = "active"]
           r == [ev |-> e, known |-> job[e].recorded, at |-> [s \in Side |-> "load"],
                 due |-> {}, ok |-> {}, bad |-> {}]
<1>1. /\ run = NoRun /\ job[e].st = "waiting"
      /\ job' = [job EXCEPT ![e].st = "active"] /\ run' = r
      /\ UNCHANGED <<source, active, adrift, stray, letters, dlq, steady, copies, cut,
                     mislaid, faults, toggles>>
  BY DEF Take, history
<1>2. job \in [Event -> Job] BY DEF WebhookInv, Typed
<1>3. /\ j \in Job /\ j.recorded = job[e].recorded /\ j.made = job[e].made
      /\ j.stalls = job[e].stalls /\ j.st = "active"
  BY <1>2 DEF Job, Statuses
<1>4. job[e].recorded \in SUBSET Target BY <1>2 DEF Job
<1>5. [s \in Side |-> "load"] \in [Side -> {"load", "sent"}] OBVIOUS
<1>6. r \in Run BY <1>4, <1>5 DEF Run
<1>7. /\ r.ev = e /\ r.known = job[e].recorded /\ r.ok = {} /\ r.due = {} /\ r.bad = {}
      /\ \A s \in Side : r.at[s] = "load"
  OBVIOUS
<1>8. job'[e] = j /\ job' \in [Event -> Job] /\ \A x \in Event : x # e => job'[x] = job[x]
  BY <1>1, <1>2, <1>3
<1> HIDE DEF j, r
<1>9. Typed' BY <1>1, <1>6, <1>8 DEF WebhookInv, Typed
<1>10. JobInv' BY <1>1, <1>3, <1>8 DEF WebhookInv, JobInv, Over
<1>11. SteadyInv' BY <1>1 DEF WebhookInv, SteadyInv
<1>12. RunInv' BY <1>1, <1>3, <1>7, <1>8 DEF RunInv, Handled
<1>13. StrayInv' BY <1>1, <1>3, <1>8 DEF WebhookInv, StrayInv, Typed, Half
<1>14. \A x \in Event : Reached(x)' = Reached(x) BY <1>1, <1>3, <1>7, <1>8 DEF Reached
<1>15. CopiesInv' BY <1>1, <1>14 DEF WebhookInv, CopiesInv
<1>16. \A l \in letters \cup dlq : job'[l.ev].st = "failed"
  BY <1>1, <1>8 DEF WebhookInv, LettersInv, Typed, Letter
<1>17. DeadLettersAreSound'
  BY <1>1, <1>3, <1>8 DEF WebhookInv, LettersInv, DeadLettersAreSound, Honest
<1>18. LettersInv' BY <1>1, <1>16, <1>17 DEF LettersInv
<1> QED BY <1>9, <1>10, <1>11, <1>12, <1>13, <1>15, <1>18 DEF WebhookInv

\* The attempt goes on; nothing it reached before is forgotten.
LEMMA RunMoves ==
  ASSUME WebhookInv, run # NoRun, NEW r \in Run, run' = r, r.ev = run.ev,
         UNCHANGED <<source, active, job, adrift, stray, letters, dlq, steady, mislaid, toggles>>,
         copies' \in [Event -> [Target -> 0..2]], cut' \in SUBSET Event, cut \subseteq cut',
         faults' \in 0..MaxFaults, RunInv', CopiesInv',
         \A l \in letters \cup dlq : copies'[l.ev] = copies[l.ev]
  PROVE  WebhookInv'
<1>1. Typed' BY DEF WebhookInv, Typed
<1>2. JobInv' BY DEF WebhookInv, JobInv, Over
<1>3. SteadyInv' BY DEF WebhookInv, SteadyInv
<1>4. StrayInv' BY DEF WebhookInv, StrayInv
<1>5. \A l \in letters \cup dlq : Honest(l)'
  BY DEF WebhookInv, LettersInv, DeadLettersAreSound, Honest
<1>6. LettersInv' BY <1>5 DEF WebhookInv, LettersInv, DeadLettersAreSound
<1> QED BY <1>1, <1>2, <1>3, <1>4, <1>6 DEF WebhookInv

LEMMA RunIsOn ==
  ASSUME NEW r \in Run
  PROVE  r # NoRun
BY DEF Run, NoRun

LEMMA SidesApart ==
  ASSUME NEW s \in Side, NEW o \in Side, s # o
  PROVE  s \cap o = {}
BY WebhookAssumption DEF Side

\* A half that has loaded posts to whatever was owed all along and was not served before.
LEMMA DueIsOwed ==
  ASSUME WebhookInv, NEW e \in Event, NEW s \in Side, NEW known
  PROVE  /\ Due(e, s, known) \subseteq (active \cap s) \ known
         /\ steady[e] \cap s \subseteq known \cup Due(e, s, known)
<1>1. steady[e] \subseteq active /\ (e \notin Rendered => steady[e] \cap Channel = {})
  BY DEF WebhookInv, SteadyInv
<1> QED BY <1>1 DEF Due

LEMMA LoadKeeps ==
  ASSUME WebhookInv, NEW s \in Side, Load(s)
  PROVE  WebhookInv'
<1> DEFINE e == run.ev
           D == Due(e, s, run.known)
           a == [run.at EXCEPT ![s] = "sent"]
           r == [run EXCEPT !.at = a, !.due = @ \cup D]
<1>1. /\ run # NoRun /\ run.at[s] = "load"
      /\ run' = [run EXCEPT !.at[s] = "sent", !.due = @ \cup D]
      /\ UNCHANGED <<source, active, toggles, job, letters, dlq, adrift, stray, steady, copies,
                     cut, mislaid, faults>>
  BY DEF Load, queue, history
<1>2. run \in Run /\ e \in Event /\ active \in SUBSET Target
  BY <1>1 DEF WebhookInv, Typed, Run
<1>3. run' = r BY <1>1, <1>2 DEF Run
<1>4. D \subseteq (active \cap s) \ run.known /\ steady[e] \cap s \subseteq run.known \cup D
  BY <1>2, DueIsOwed
<1> HIDE DEF D
<1>5. D \in SUBSET Target BY <1>2, <1>4
<1>6. a \in [Side -> {"load", "sent"}] /\ \A o \in Side : o # s => a[o] = run.at[o]
  BY <1>2 DEF Run
<1>7. a[s] = "sent" BY <1>2 DEF Run
<1> HIDE DEF a
<1>8. /\ r \in Run /\ r.ev = e /\ r.known = run.known /\ r.ok = run.ok /\ r.bad = run.bad
      /\ r.due = run.due \cup D /\ r.at = a
  BY <1>2, <1>5, <1>6 DEF Run
<1> HIDE DEF r
<1>9. Handled' = Handled \cup D BY <1>3, <1>8 DEF Handled
<1>10. RunInv BY DEF WebhookInv
<1>11. Handled \cap s = {} BY <1>1, <1>10 DEF RunInv
<1>12. ASSUME NEW o \in Side
       PROVE  IF a[o] = "load" THEN Handled' \cap o = {}
              ELSE steady[e] \cap o \subseteq run.known \cup Handled'
  <2>1. CASE o = s BY <1>4, <1>7, <1>9, <2>1
  <2>2. CASE o # s
    <3>1. s \cap o = {} BY <2>2, SidesApart
    <3>2. IF run.at[o] = "load" THEN Handled \cap o = {}
          ELSE steady[e] \cap o \subseteq run.known \cup Handled
      BY <1>1, <1>10 DEF RunInv
    <3> QED BY <1>4, <1>6, <1>9, <2>2, <3>1, <3>2
  <2> QED BY <2>1, <2>2
<1>13. Handled' \cap run.known = {} BY <1>1, <1>4, <1>9, <1>10 DEF RunInv
<1>14. (run.due \cup D) \cap (run.ok \cup run.bad) = {}
  BY <1>1, <1>4, <1>10, <1>11 DEF RunInv, Handled
<1>15. RunInv' BY <1>1, <1>3, <1>8, <1>10, <1>12, <1>13, <1>14 DEF RunInv
<1>16. \A x \in Event : Reached(x)' = Reached(x)
  <2>1. run' # NoRun BY <1>3, <1>8, RunIsOn
  <2> QED BY <1>1, <1>3, <1>8, <2>1 DEF Reached
<1>17. CopiesInv' BY <1>1, <1>16 DEF WebhookInv, CopiesInv
<1>18. /\ copies' \in [Event -> [Target -> 0..2]] /\ cut' \in SUBSET Event
       /\ faults' \in 0..MaxFaults
  BY <1>1 DEF WebhookInv, Typed
<1> QED BY <1>1, <1>3, <1>8, <1>15, <1>17, <1>18, RunMoves

LEMMA PostTyped ==
  ASSUME WebhookInv, NEW e \in Event, NEW t \in Target, Post(e, t)
  PROVE  /\ copies' \in [Event -> [Target -> 0..2]] /\ copies'[e][t] > 0
         /\ copies[e][t] = 0 => copies'[e][t] = 1
         /\ \A x \in Event, u \in Target : x # e \/ u # t => copies'[x][u] = copies[x][u]
         /\ \A x \in Event : x # e => copies'[x] = copies[x]
<1> DEFINE n == IF copies[e][t] = 2 THEN 2 ELSE copies[e][t] + 1
           f == [copies[e] EXCEPT ![t] = n]
<1>1. copies \in [Event -> [Target -> 0..2]] BY DEF WebhookInv, Typed
<1>2. copies[e] \in [Target -> 0..2] /\ copies[e][t] \in 0..2 BY <1>1
<1>3. n \in 0..2 /\ n > 0 /\ (copies[e][t] = 0 => n = 1) BY <1>2
<1>4. copies' = [copies EXCEPT ![e] = f] BY <1>1 DEF Post
<1> HIDE DEF n
<1>5. f \in [Target -> 0..2] /\ f[t] = n /\ \A u \in Target : u # t => f[u] = copies[e][u]
  BY <1>2, <1>3
<1> HIDE DEF f
<1>6. copies' \in [Event -> [Target -> 0..2]] /\ copies'[e] = f
      /\ \A x \in Event : x # e => copies'[x] = copies[x]
  BY <1>1, <1>4, <1>5
<1> QED BY <1>3, <1>5, <1>6

\* An answer in time is remembered; one that comes too late cuts the attempt's record.
LEMMA AnswerKeeps ==
  ASSUME WebhookInv, NEW t \in Target, Answer(t)
  PROVE  WebhookInv'
<1>1. run # NoRun BY DEF Answer
<1>2. PICK e \in Event : e = run.ev BY <1>1 DEF WebhookInv, Typed, Run
<1> DEFINE good == [run EXCEPT !.due = @ \ {t}, !.ok = @ \cup {t}]
           fail == [run EXCEPT !.due = @ \ {t}, !.bad = @ \cup {t}]
<1>3. /\ run # NoRun /\ t \in run.due
      /\ UNCHANGED <<source, active, toggles, job, letters, dlq, adrift, stray, steady, mislaid>>
  BY DEF Answer, queue
<1>4. \/ Post(e, t) /\ run' = good /\ UNCHANGED <<cut, faults>>
      \/ run' = fail /\ UNCHANGED <<copies, cut, faults>>
      \/ Fault /\ Post(e, t) /\ run' = fail /\ cut' = cut \cup {e}
  BY <1>2 DEF Answer
<1>5. run \in Run BY <1>3 DEF WebhookInv, Typed
<1> DEFINE D == run.due \ {t}
           O == run.ok \cup {t}
           B == run.bad \cup {t}
<1>6. /\ D \in SUBSET Target /\ O \in SUBSET Target /\ B \in SUBSET Target
      /\ run.ok \in SUBSET Target /\ run.bad \in SUBSET Target
  BY <1>5 DEF Run
<1>7. /\ good = [run EXCEPT !.due = D, !.ok = O, !.bad = run.bad]
      /\ fail = [run EXCEPT !.due = D, !.ok = run.ok, !.bad = B]
  BY <1>5 DEF Run
<1> HIDE DEF good, fail, D, O, B
<1>8. /\ good \in Run /\ good.ev = run.ev /\ good.known = run.known /\ good.at = run.at
      /\ good.due = D /\ good.ok = O /\ good.bad = run.bad
  BY <1>5, <1>6, <1>7 DEF Run
<1>9. /\ fail \in Run /\ fail.ev = run.ev /\ fail.known = run.known /\ fail.at = run.at
      /\ fail.due = D /\ fail.ok = run.ok /\ fail.bad = B
  BY <1>5, <1>6, <1>7 DEF Run
<1>10. /\ good \in Run /\ good.ev = e /\ good.known = run.known /\ good.at = run.at
      /\ good.due = run.due \ {t} /\ good.ok = run.ok \cup {t} /\ good.bad = run.bad
  BY <1>2, <1>8 DEF D, O
<1>11. /\ fail \in Run /\ fail.ev = e /\ fail.known = run.known /\ fail.at = run.at
      /\ fail.due = run.due \ {t} /\ fail.ok = run.ok /\ fail.bad = run.bad \cup {t}
  BY <1>2, <1>9 DEF D, B
<1>12. RunInv /\ CopiesInv BY DEF WebhookInv
<1>13. run' \in {good, fail} BY <1>4
<1>14. /\ run' \in Run /\ run'.ev = e /\ run'.known = run.known /\ run'.at = run.at
      /\ run'.due = run.due \ {t}
      /\ \/ run'.ok = run.ok \cup {t} /\ run'.bad = run.bad
         \/ run'.ok = run.ok /\ run'.bad = run.bad \cup {t}
  BY <1>10, <1>11, <1>13
<1>15. Handled' = Handled BY <1>3, <1>14 DEF Handled
<1>16. run'.due \cap (run'.ok \cup run'.bad) = {} BY <1>3, <1>12, <1>14 DEF RunInv
<1>17. RunInv' BY <1>3, <1>2, <1>12, <1>14, <1>15, <1>16 DEF RunInv
<1>18. run' # NoRun BY <1>14, RunIsOn
<1>19. \A x \in Event : x # e => Reached(x)' = Reached(x)
  BY <1>3, <1>2, <1>14, <1>18 DEF Reached
<1>20. Reached(e) = job[e].recorded \cup run.ok
       /\ Reached(e)' = job[e].recorded \cup run'.ok
  BY <1>3, <1>2, <1>14, <1>18 DEF Reached
<1>21. t \notin Reached(e) BY <1>3, <1>2, <1>12, <1>20 DEF RunInv, Handled
<1>22. copies' \in [Event -> [Target -> 0..2]]
       /\ \A x \in Event : x # e => copies'[x] = copies[x]
  BY <1>4, <1>2, PostTyped DEF WebhookInv, Typed
<1>23. cut' \in SUBSET Event /\ cut \subseteq cut' BY <1>4, <1>2 DEF WebhookInv, Typed
<1>24. CopiesInv'
  <2> SUFFICES ASSUME NEW x \in Event
               PROVE  /\ \A u \in Reached(x)' : copies'[x][u] > 0
                      /\ x \notin cut' => \A u \in Target :
                           /\ copies'[x][u] <= 1
                           /\ u \notin Reached(x)' => copies'[x][u] = 0
    BY DEF CopiesInv
  <2>1. /\ \A u \in Reached(x) : copies[x][u] > 0
        /\ x \notin cut => \A u \in Target : /\ copies[x][u] <= 1
                                             /\ u \notin Reached(x) => copies[x][u] = 0
    BY <1>12 DEF CopiesInv
  <2>2. CASE x # e
    <3>1. copies'[x] = copies[x] /\ Reached(x)' = Reached(x) BY <1>19, <1>22, <2>2
    <3> QED BY <1>23, <2>1, <3>1
  <2>3. CASE x = e /\ Post(e, t) /\ run' = good /\ UNCHANGED cut
    <3>1. Reached(e)' = Reached(e) \cup {t} BY <1>10, <1>20, <2>3
    <3>2. /\ copies'[e][t] > 0 /\ (copies[e][t] = 0 => copies'[e][t] = 1)
          /\ \A u \in Target : u # t => copies'[e][u] = copies[e][u]
      BY <1>2, <2>3, PostTyped
    <3>3. Reached(e) \subseteq Target BY <1>2, <1>20, <1>5 DEF Run, WebhookInv, Typed, Job
    <3>4. \A u \in Reached(e)' : copies'[e][u] > 0 BY <2>1, <2>3, <3>1, <3>2, <3>3
    <3>5. e \notin cut' => \A u \in Target : /\ copies'[e][u] <= 1
                                             /\ u \notin Reached(e)' => copies'[e][u] = 0
      BY <1>21, <2>1, <2>3, <3>1, <3>2
    <3> QED BY <2>3, <3>4, <3>5
  <2>4. CASE x = e /\ run' = fail /\ UNCHANGED <<copies, cut>>
    <3>1. Reached(e)' = Reached(e) BY <1>11, <1>20, <2>4
    <3> QED BY <2>1, <2>4, <3>1
  <2>5. CASE x = e /\ Post(e, t) /\ run' = fail /\ cut' = cut \cup {e}
    <3>1. Reached(e)' = Reached(e) BY <1>11, <1>20, <2>5
    <3>2. copies'[e][t] > 0 /\ \A u \in Target : u # t => copies'[e][u] = copies[e][u]
      BY <1>2, <2>5, PostTyped
    <3>3. Reached(e) \subseteq Target BY <1>2, <1>20, <1>5 DEF Run, WebhookInv, Typed, Job
    <3> QED BY <2>1, <2>5, <3>1, <3>2, <3>3
  <2> QED BY <1>4, <2>2, <2>3, <2>4, <2>5
<1>25. faults' \in 0..MaxFaults BY <1>4, FaultTyped DEF WebhookInv, Typed
<1>26. \A l \in letters \cup dlq : l.ev \in Event /\ l.ev # e
  BY <1>3, <1>2, <1>12 DEF RunInv, WebhookInv, LettersInv, Typed, Letter
<1>27. \A l \in letters \cup dlq : copies'[l.ev] = copies[l.ev] BY <1>22, <1>26
<1> QED BY <1>3, <1>2, <1>14, <1>17, <1>22, <1>23, <1>24, <1>25, <1>27, RunMoves

LEMMA SaveKeeps ==
  ASSUME WebhookInv, Save
  PROVE  WebhookInv'
<1>1. run # NoRun BY DEF Save, HalvesDone
<1>2. PICK e \in Event : e = run.ev BY <1>1 DEF WebhookInv, Typed, Run
<1> DEFINE R == run.known \cup run.ok
           j == [job[e] EXCEPT !.recorded = R]
<1>3. /\ job' = [job EXCEPT ![e].recorded = R]
      /\ UNCHANGED <<source, active, toggles, letters, dlq, run, adrift, stray, steady, copies,
                     cut, mislaid, faults>>
  BY <1>2 DEF Save, worker, history
<1>4. run \in Run /\ job \in [Event -> Job] BY <1>1 DEF WebhookInv, Typed
<1>5. RunInv BY DEF WebhookInv
<1>6. R \in SUBSET Target BY <1>4 DEF Run
<1>7. R = job[e].recorded \cup run.ok BY <1>1, <1>2, <1>5 DEF RunInv
<1>8. run.known \subseteq R /\ R \subseteq run.known \cup run.ok OBVIOUS
<1> HIDE DEF R
<1>9. /\ j \in Job /\ j.recorded = R /\ j.st = job[e].st /\ j.made = job[e].made
      /\ j.stalls = job[e].stalls
  BY <1>4, <1>6 DEF Job
<1>10. job'[e] = j /\ job' \in [Event -> Job] /\ \A x \in Event : x # e => job'[x] = job[x]
  BY <1>3, <1>4, <1>9
<1> HIDE DEF j
<1>11. \A x \in Event : /\ job'[x].st = job[x].st /\ job'[x].made = job[x].made
                        /\ job'[x].stalls = job[x].stalls
  BY <1>9, <1>10
<1>12. Typed' BY <1>3, <1>10 DEF WebhookInv, Typed
<1>13. JobInv' BY <1>3, <1>11 DEF WebhookInv, JobInv, Over
<1>14. SteadyInv' BY <1>3 DEF WebhookInv, SteadyInv
<1>15. RunInv' BY <1>1, <1>2, <1>3, <1>5, <1>8, <1>9, <1>10 DEF RunInv, Handled
<1>16. StrayInv' BY <1>3, <1>11 DEF WebhookInv, StrayInv, Typed, Half
<1>17. Reached(e) = job[e].recorded \cup run.ok /\ Reached(e)' = job'[e].recorded \cup run.ok
  BY <1>1, <1>2, <1>3 DEF Reached
<1>18. \A x \in Event : Reached(x)' = Reached(x)
  BY <1>2, <1>3, <1>7, <1>9, <1>10, <1>17 DEF Reached
<1>19. CopiesInv' BY <1>3, <1>18 DEF WebhookInv, CopiesInv
<1>20. \A l \in letters \cup dlq : l.ev \in Event
  BY DEF WebhookInv, Typed, Letter
<1>21. LettersInv' BY <1>3, <1>11, <1>20 DEF WebhookInv, LettersInv, DeadLettersAreSound, Honest
<1> QED BY <1>12, <1>13, <1>14, <1>15, <1>16, <1>19, <1>21 DEF WebhookInv

\* The attempt ends, with all it delivered recorded or with its event cut short.  A letter
\* goes out exactly when the job has failed for good.
LEMMA RunEnds ==
  ASSUME WebhookInv, run # NoRun, run' = NoRun,
         NEW e \in Event, e = run.ev, NEW j \in Job, job' = [job EXCEPT ![e] = j],
         j.recorded = job[e].recorded, j.stalls = job[e].stalls, j.st # "none",
         j.st \notin {"completed", "failed"} => j.made < Attempts,
         run.ok \subseteq job[e].recorded \/ e \in cut',
         letters' = IF j.st = "failed"
                    THEN letters \cup {[ev |-> e, done |-> job[e].recorded \cap Hook]}
                    ELSE letters,
         adrift' \in SUBSET Half, stray' \in SUBSET (Event \X Target),
         \A a \in adrift' : a \in adrift \/ (a.ev = e /\ e \in cut'),
         \A p \in stray' : p \in stray \/ (p[1] = e /\ e \in cut'),
         cut' \in SUBSET Event, cut \subseteq cut', faults' \in 0..MaxFaults,
         UNCHANGED <<source, active, dlq, steady, copies, mislaid, toggles>>
  PROVE  WebhookInv'
<1>1. RunInv /\ CopiesInv /\ LettersInv /\ JobInv /\ StrayInv BY DEF WebhookInv
<1>2. job[e].st = "active" BY <1>1 DEF RunInv
<1>3. job'[e] = j /\ job' \in [Event -> Job] /\ \A x \in Event : x # e => job'[x] = job[x]
  BY DEF WebhookInv, Typed
<1>4. PICK L \in Letter : L = [ev |-> e, done |-> job[e].recorded \cap Hook] BY DEF Letter
<1>5. /\ letters' = IF j.st = "failed" THEN letters \cup {L} ELSE letters
      /\ L.ev = e /\ L.done = job[e].recorded \cap Hook
  BY <1>4
<1>6. Typed' BY <1>3, <1>4, <1>5 DEF WebhookInv, Typed
<1>7. JobInv'
  <2> SUFFICES ASSUME NEW x \in Event
               PROVE  /\ source[x] # "over" => job'[x].st = "none"
                      /\ ~Over(x)' => job'[x].made < Attempts /\ job'[x].stalls <= MaxStalls
    BY DEF JobInv
  <2>1. /\ source[x] # "over" => job[x].st = "none"
        /\ ~Over(x) => job[x].made < Attempts /\ job[x].stalls <= MaxStalls
    BY <1>1 DEF JobInv
  <2>2. Over(x)' <=> job'[x].st \in {"completed", "failed"} BY DEF Over
  <2>3. CASE x # e BY <1>3, <2>1, <2>2, <2>3 DEF Over
  <2>4. CASE x = e BY <1>2, <1>3, <2>1, <2>2, <2>4 DEF Over
  <2> QED BY <2>3, <2>4
<1>8. SteadyInv' BY DEF WebhookInv, SteadyInv
<1>9. RunInv' BY DEF RunInv
<1>10. StrayInv' BY <1>1, <1>3 DEF StrayInv, WebhookInv, Typed, Half
<1>11. /\ Reached(e) = job[e].recorded \cup run.ok /\ Reached(e)' = job[e].recorded
       /\ \A x \in Event : x # e => Reached(x)' = Reached(x)
  BY <1>3 DEF Reached
<1>12. e \notin cut' => Reached(e)' = Reached(e) BY <1>11
<1>13. CopiesInv'
  <2> SUFFICES ASSUME NEW x \in Event
               PROVE  /\ \A t \in Reached(x)' : copies[x][t] > 0
                      /\ x \notin cut' => \A t \in Target :
                           copies[x][t] <= 1 /\ (t \notin Reached(x)' => copies[x][t] = 0)
    BY DEF CopiesInv
  <2>1. /\ \A t \in Reached(x) : copies[x][t] > 0
        /\ x \notin cut => \A t \in Target :
             copies[x][t] <= 1 /\ (t \notin Reached(x) => copies[x][t] = 0)
    BY <1>1 DEF CopiesInv
  <2>2. CASE x = e BY <1>11, <1>12, <2>1, <2>2
  <2>3. CASE x # e BY <1>11, <2>1, <2>3
  <2> QED BY <2>2, <2>3
<1>14. ASSUME NEW l \in letters \cup dlq
       PROVE  l.ev \in Event /\ l.ev # e /\ job'[l.ev].st = "failed" /\ Honest(l)'
  <2>1. l.ev \in Event /\ l.ev # e /\ job[l.ev].st = "failed"
    BY <1>1, <1>2 DEF LettersInv, WebhookInv, Typed, Letter
  <2>2. Honest(l) BY <1>1 DEF LettersInv, DeadLettersAreSound
  <2> QED BY <1>3, <2>1, <2>2 DEF Honest
<1>15. Honest(L)'
  <2>1. \A t \in job[e].recorded : copies[e][t] > 0 BY <1>1, <1>11 DEF CopiesInv
  <2>2. e \notin cut' => \A t \in Target : t \notin job[e].recorded => copies[e][t] = 0
    BY <1>1, <1>11, <1>12 DEF CopiesInv
  <2> QED BY <1>5, <2>1, <2>2 DEF Honest, Target
<1>16. ASSUME NEW x \in Event, job'[x].st = "failed", job'[x].made = Attempts, x \notin mislaid
       PROVE  \E l \in letters' \cup dlq : l.ev = x
  <2>1. CASE x = e BY <1>3, <1>5, <1>16, <2>1
  <2>2. CASE x # e
    <3>1. PICK l \in letters \cup dlq : l.ev = x
      BY <1>1, <1>3, <1>16, <2>2 DEF LettersInv, DeadLettersAreSound
    <3> QED BY <1>5, <3>1
  <2> QED BY <2>1, <2>2
<1>17. \A l \in letters' \cup dlq : job'[l.ev].st = "failed" /\ Honest(l)'
  BY <1>3, <1>5, <1>14, <1>15
<1>18. LettersInv' BY <1>16, <1>17 DEF LettersInv, DeadLettersAreSound
<1> QED BY <1>6, <1>7, <1>8, <1>9, <1>10, <1>13, <1>18 DEF WebhookInv

LEMMA CompleteKeeps ==
  ASSUME WebhookInv, Complete
  PROVE  WebhookInv'
<1>1. run # NoRun BY DEF Complete, HalvesDone
<1>2. PICK e \in Event : e = run.ev BY <1>1 DEF WebhookInv, Typed, Run
<1> DEFINE j == [job[e] EXCEPT !.st = "completed"]
<1>3. /\ job' = [job EXCEPT ![e].st = "completed"] /\ run' = NoRun
      /\ run.ok \subseteq job[e].recorded
      /\ UNCHANGED <<source, active, toggles, letters, dlq, adrift, stray, steady, copies, cut,
                     mislaid, faults>>
  BY <1>2 DEF Complete, history
<1>4. job \in [Event -> Job] BY DEF WebhookInv, Typed
<1>5. /\ j \in Job /\ j.recorded = job[e].recorded /\ j.st = "completed"
      /\ j.stalls = job[e].stalls /\ job' = [job EXCEPT ![e] = j]
  BY <1>3, <1>4 DEF Job, Statuses
<1> HIDE DEF j
<1>6. adrift' \in SUBSET Half /\ stray' \in SUBSET (Event \X Target) /\ cut' \in SUBSET Event
      /\ faults' \in 0..MaxFaults
  BY <1>3 DEF WebhookInv, Typed
<1> QED BY <1>1, <1>2, <1>3, <1>5, <1>6, RunEnds

LEMMA ThrowKeeps ==
  ASSUME WebhookInv, run # NoRun, NEW e \in Event, e = run.ev,
         NEW loading \in SUBSET Side, Throw(loading), cut' \in {cut, cut \cup {e}},
         \/ loading = {} /\ run.due = {} /\ run.ok \subseteq job[e].recorded
         \/ e \in cut',
         faults' \in 0..MaxFaults,
         UNCHANGED <<source, active, dlq, steady, copies, mislaid, toggles>>
  PROVE  WebhookInv'
<1> DEFINE n == job[e].made + 1
           c == IF n < Attempts THEN "delayed" ELSE "failed"
           j == [job[e] EXCEPT !.made = n, !.st = c]
<1>1. /\ job' = [job EXCEPT ![e].made = n, ![e].st = c]
      /\ letters' = IF ShouldDeadLetter(n)
                    THEN letters \cup {[ev |-> e, done |-> job[e].recorded \cap Hook]}
                    ELSE letters
      /\ adrift' = adrift \cup {[ev |-> e, side |-> s, known |-> run.known] : s \in loading}
      /\ stray' = stray \cup {<<e, t>> : t \in run.due}
      /\ run' = NoRun
  BY DEF Throw
<1>2. job \in [Event -> Job] /\ run \in Run BY DEF WebhookInv, Typed
<1>3. job[e].st = "active" BY DEF WebhookInv, RunInv
<1>4. job[e].made < Attempts /\ job[e].made \in 0..Attempts
  BY <1>2, <1>3 DEF WebhookInv, JobInv, Over, Job
<1>5. n \in 0..Attempts /\ Attempts \in Nat BY <1>4, WebhookAssumption
<1>6. /\ ShouldDeadLetter(n) <=> c = "failed"
      /\ c \in {"delayed", "failed"} /\ (c = "delayed" => n < Attempts)
  BY <1>5 DEF ShouldDeadLetter
<1> HIDE DEF n, c
<1>7. /\ j \in Job /\ j.recorded = job[e].recorded /\ j.st = c /\ j.made = n
      /\ j.stalls = job[e].stalls /\ job' = [job EXCEPT ![e] = j]
  BY <1>1, <1>2, <1>5, <1>6 DEF Job, Statuses
<1> HIDE DEF j
<1>8. letters' = IF j.st = "failed"
                 THEN letters \cup {[ev |-> e, done |-> job[e].recorded \cap Hook]}
                 ELSE letters
  BY <1>1, <1>6, <1>7
<1>9. run.known \in SUBSET Target /\ run.due \in SUBSET Target BY <1>2 DEF Run
<1>10. adrift' \in SUBSET Half BY <1>1, <1>9 DEF Half, WebhookInv, Typed
<1>11. stray' \in SUBSET (Event \X Target) BY <1>1, <1>9 DEF WebhookInv, Typed
<1>12. \A a \in adrift' : a \in adrift \/ (a.ev = e /\ e \in cut') BY <1>1
<1>13. \A p \in stray' : p \in stray \/ (p[1] = e /\ e \in cut') BY <1>1
<1>14. cut' \in SUBSET Event /\ cut \subseteq cut' BY DEF WebhookInv, Typed
<1>15. j.st # "none" /\ (j.st \notin {"completed", "failed"} => j.made < Attempts)
  BY <1>6, <1>7
<1>16. run.ok \subseteq job[e].recorded \/ e \in cut' OBVIOUS
<1> QED BY <1>1, <1>7, <1>8, <1>10, <1>11, <1>12, <1>13, <1>14, <1>15, <1>16, RunEnds

LEMMA FailKeeps ==
  ASSUME WebhookInv, Fail \/ SaveFails \/ \E s \in Side : LoadFails(s)
  PROVE  WebhookInv'
<1>1. run # NoRun BY DEF Fail, SaveFails, LoadFails, HalvesDone
<1>2. PICK e \in Event : e = run.ev BY <1>1 DEF WebhookInv, Typed, Run
<1>3. UNCHANGED <<source, active, dlq, steady, copies, mislaid, toggles>>
  BY DEF Fail, SaveFails, LoadFails, history
<1>4. CASE Fail
  <2>1. Throw({}) /\ run.due = {} /\ run.ok \subseteq job[e].recorded /\ UNCHANGED <<cut, faults>>
    BY <1>2, <1>4 DEF Fail, HalvesDone, history
  <2>2. faults' \in 0..MaxFaults BY <2>1 DEF WebhookInv, Typed
  <2> QED BY <1>1, <1>2, <1>3, <2>1, <2>2, ThrowKeeps
<1>5. ASSUME SaveFails \/ \E s \in Side : LoadFails(s) PROVE WebhookInv'
  <2>1. PICK loading \in SUBSET Side : Throw(loading)
    BY <1>5, Zenon DEF SaveFails, LoadFails
  <2>2. Fault /\ cut' = cut \cup {e} BY <1>2, <1>5 DEF SaveFails, LoadFails
  <2>3. faults' \in 0..MaxFaults BY <2>2, FaultTyped
  <2> QED BY <1>1, <1>2, <1>3, <2>1, <2>2, <2>3, ThrowKeeps
<1> QED BY <1>4, <1>5

-----------------------------------------------------------------------------
(* What outlives an attempt, and the letters.                              *)

LEMMA AdriftKeeps ==
  ASSUME WebhookInv, NEW a \in adrift, AdriftLoads(a)
  PROVE  WebhookInv'
<1>1. /\ adrift' = adrift \ {a}
      /\ stray' = stray \cup {<<a.ev, t>> : t \in Due(a.ev, a.side, a.known)}
      /\ UNCHANGED <<source, active, toggles, job, letters, dlq, run, steady, copies, cut,
                     mislaid, faults>>
  BY DEF AdriftLoads, queue, history
<1>2. a.ev \in Event /\ a.side \in Side BY DEF WebhookInv, Typed, Half
<1>3. Due(a.ev, a.side, a.known) \subseteq Target BY DEF Due, WebhookInv, Typed
<1>4. Typed' BY <1>1, <1>2, <1>3 DEF WebhookInv, Typed
<1>5. JobInv' /\ SteadyInv' BY <1>1 DEF WebhookInv, JobInv, SteadyInv, Over
<1>6. RunInv' BY <1>1 DEF WebhookInv, RunInv, Handled
<1>7. a.ev \in cut /\ job[a.ev].st # "none" BY DEF WebhookInv, StrayInv
<1>8. StrayInv' BY <1>1, <1>7 DEF WebhookInv, StrayInv
<1>9. CopiesInv' BY <1>1 DEF WebhookInv, CopiesInv, Reached
<1>10. LettersInv' BY <1>1 DEF WebhookInv, LettersInv, DeadLettersAreSound, Honest
<1> QED BY <1>4, <1>5, <1>6, <1>8, <1>9, <1>10 DEF WebhookInv

LEMMA StrayKeeps ==
  ASSUME WebhookInv, NEW p \in stray, StrayLands(p)
  PROVE  WebhookInv'
<1>1. /\ stray' = stray \ {p}
      /\ Post(p[1], p[2]) \/ UNCHANGED copies
      /\ UNCHANGED <<source, active, toggles, job, letters, dlq, run, adrift, steady, cut,
                     mislaid, faults>>
  BY DEF StrayLands, queue
<1>2. p[1] \in Event /\ p[2] \in Target BY DEF WebhookInv, Typed
<1>3. p[1] \in cut BY DEF WebhookInv, StrayInv
<1>4. /\ copies' \in [Event -> [Target -> 0..2]]
      /\ \A x \in Event : x # p[1] => copies'[x] = copies[x]
      /\ \A x \in Event, u \in Target : copies[x][u] > 0 => copies'[x][u] > 0
  <2>1. CASE UNCHANGED copies BY <2>1 DEF WebhookInv, Typed
  <2>2. CASE Post(p[1], p[2]) BY <1>2, <2>2, PostTyped
  <2> QED BY <1>1, <2>1, <2>2
<1>5. Typed' BY <1>1, <1>4 DEF WebhookInv, Typed
<1>6. JobInv' /\ SteadyInv' BY <1>1 DEF WebhookInv, JobInv, SteadyInv, Over
<1>7. RunInv' BY <1>1 DEF WebhookInv, RunInv, Handled
<1>8. StrayInv' BY <1>1 DEF WebhookInv, StrayInv
<1>9. \A x \in Event : Reached(x) \subseteq Target
  BY DEF Reached, WebhookInv, Typed, Job, Run
<1>10. \A x \in Event : Reached(x)' = Reached(x) BY <1>1 DEF Reached
<1>11. CopiesInv'
  <2>1. CopiesInv BY DEF WebhookInv
  <2> SUFFICES ASSUME NEW x \in Event
               PROVE  /\ \A t \in Reached(x) : copies'[x][t] > 0
                      /\ x \notin cut => \A t \in Target :
                           copies'[x][t] <= 1 /\ (t \notin Reached(x) => copies'[x][t] = 0)
    BY <1>1, <1>10 DEF CopiesInv
  <2>2. \A t \in Reached(x) : copies'[x][t] > 0 BY <1>4, <1>9, <2>1 DEF CopiesInv
  <2>3. x \notin cut => copies'[x] = copies[x] BY <1>3, <1>4
  <2> QED BY <2>1, <2>2, <2>3 DEF CopiesInv
<1>12. ASSUME NEW l \in letters \cup dlq PROVE Honest(l)'
  <2>1. l.ev \in Event BY DEF WebhookInv, Typed, Letter
  <2>2. Honest(l) BY DEF WebhookInv, LettersInv, DeadLettersAreSound
  <2>3. l.ev \notin cut => copies'[l.ev] = copies[l.ev] BY <1>3, <1>4, <2>1
  <2> QED BY <1>1, <1>4, <2>1, <2>2, <2>3 DEF Honest, Target
<1>13. LettersInv' BY <1>1, <1>12 DEF WebhookInv, LettersInv, DeadLettersAreSound
<1> QED BY <1>5, <1>6, <1>7, <1>8, <1>11, <1>13 DEF WebhookInv

LEMMA LetterKeeps ==
  ASSUME WebhookInv, NEW l \in letters, DeadLetter(l)
  PROVE  WebhookInv'
<1>1. /\ letters' = letters \ {l}
      /\ \/ dlq' = dlq \cup {l} /\ UNCHANGED <<mislaid, faults>>
         \/ Fault /\ mislaid' = mislaid \cup {l.ev} /\ UNCHANGED dlq
      /\ UNCHANGED <<source, active, toggles, job, run, adrift, stray, steady, copies, cut>>
  BY DEF DeadLetter, worker
<1>2. l \in Letter /\ l.ev \in Event BY DEF WebhookInv, Typed, Letter
<1>3. faults' \in 0..MaxFaults BY <1>1, FaultTyped DEF WebhookInv, Typed
<1>4. Typed' BY <1>1, <1>2, <1>3 DEF WebhookInv, Typed
<1>5. JobInv' /\ SteadyInv' BY <1>1 DEF WebhookInv, JobInv, SteadyInv, Over
<1>6. RunInv' BY <1>1 DEF WebhookInv, RunInv, Handled
<1>7. StrayInv' BY <1>1 DEF WebhookInv, StrayInv
<1>8. CopiesInv' BY <1>1 DEF WebhookInv, CopiesInv, Reached
<1>9. letters' \cup dlq' \subseteq letters \cup dlq BY <1>1
<1>10. \A k \in letters \cup dlq : Honest(k)'
  BY <1>1 DEF WebhookInv, LettersInv, DeadLettersAreSound, Honest
<1>11. ASSUME NEW x \in Event, job[x].st = "failed", job[x].made = Attempts, x \notin mislaid'
       PROVE  \E k \in letters' \cup dlq' : k.ev = x
  <2>1. PICK k \in letters \cup dlq : k.ev = x
    BY <1>1, <1>11 DEF WebhookInv, LettersInv, DeadLettersAreSound
  <2>2. k = l => l \in dlq' BY <1>1, <1>11, <2>1
  <2> QED BY <1>1, <2>1, <2>2
<1>12. LettersInv' BY <1>1, <1>9, <1>10, <1>11 DEF WebhookInv, LettersInv, DeadLettersAreSound
<1> QED BY <1>4, <1>5, <1>6, <1>7, <1>8, <1>12 DEF WebhookInv

LEMMA CrashKeeps ==
  ASSUME WebhookInv, Crash
  PROVE  WebhookInv'
<1>1. /\ run' = NoRun /\ adrift' = {} /\ letters' = {}
      /\ stray' = IF run = NoRun THEN stray ELSE stray \cup {<<run.ev, t>> : t \in run.due}
      /\ mislaid' = mislaid \cup {l.ev : l \in letters}
      /\ cut' = IF run = NoRun THEN cut ELSE cut \cup {run.ev}
      /\ UNCHANGED <<source, active, toggles, job, dlq, steady, copies>>
  BY DEF Crash
<1>2. faults' \in 0..MaxFaults BY FaultTyped DEF Crash
<1>3. run # NoRun => /\ run.ev \in Event /\ run.due \subseteq Target
                     /\ job[run.ev].st = "active"
  BY DEF WebhookInv, RunInv, Typed, Run
<1>4. cut' \in SUBSET Event /\ cut \subseteq cut' /\ (run # NoRun => run.ev \in cut')
  BY <1>1, <1>3 DEF WebhookInv, Typed
<1>5. stray' \in SUBSET (Event \X Target) BY <1>1, <1>3 DEF WebhookInv, Typed
<1>6. mislaid' \in SUBSET Event BY <1>1 DEF WebhookInv, Typed, Letter
<1>7. Typed' BY <1>1, <1>2, <1>4, <1>5, <1>6 DEF WebhookInv, Typed
<1>8. JobInv' /\ SteadyInv' BY <1>1 DEF WebhookInv, JobInv, SteadyInv, Over
<1>9. RunInv' BY <1>1 DEF RunInv
<1>10. StrayInv' BY <1>1, <1>3, <1>4 DEF WebhookInv, StrayInv
<1>11. \A x \in Event : /\ Reached(x)' \subseteq Reached(x)
                        /\ x \notin cut' => Reached(x)' = Reached(x)
  BY <1>1, <1>4 DEF Reached
<1>12. CopiesInv' BY <1>1, <1>4, <1>11 DEF WebhookInv, CopiesInv
<1>13. \A l \in dlq : Honest(l)'
  BY <1>1, <1>4 DEF WebhookInv, LettersInv, DeadLettersAreSound, Honest
<1>14. ASSUME NEW x \in Event, job[x].st = "failed", job[x].made = Attempts, x \notin mislaid'
       PROVE  \E l \in dlq : l.ev = x
  BY <1>1, <1>14 DEF WebhookInv, LettersInv, DeadLettersAreSound
<1>15. LettersInv' BY <1>1, <1>13, <1>14 DEF WebhookInv, LettersInv, DeadLettersAreSound
<1> QED BY <1>7, <1>8, <1>9, <1>10, <1>12, <1>15 DEF WebhookInv

LEMMA InitSound == Init => WebhookInv
<1> SUFFICES ASSUME Init PROVE WebhookInv OBVIOUS
<1>1. /\ source = [e \in Event |-> "none"] /\ active \in {Target, Hook}
      /\ toggles = 0 /\ faults = 0 /\ job = [e \in Event |-> NoJob]
      /\ run = NoRun /\ adrift = {} /\ stray = {} /\ letters = {} /\ dlq = {}
      /\ steady = [e \in Event |-> {}] /\ cut = {} /\ mislaid = {}
      /\ copies = [e \in Event |-> [t \in Target |-> 0]]
  BY DEF Init
<1>2. NoJob \in Job BY WebhookAssumption DEF NoJob, Job, Statuses
<1>3. job \in [Event -> Job] BY <1>1, <1>2
<1>4. copies \in [Event -> [Target -> 0..2]]
  <2>1. [t \in Target |-> 0] \in [Target -> 0..2] OBVIOUS
  <2> QED BY <1>1, <2>1
<1>5. steady \in [Event -> SUBSET Target] BY <1>1
<1>6. source \in [Event -> {"none", "audited", "over"}] BY <1>1
<1>7. active \in SUBSET Target BY <1>1 DEF Target
<1>8. Typed BY <1>1, <1>3, <1>4, <1>5, <1>6, <1>7, WebhookAssumption DEF Typed
<1>9. JobInv BY <1>1, WebhookAssumption DEF JobInv, Over, NoJob
<1>10. SteadyInv BY <1>1 DEF SteadyInv
<1>11. RunInv /\ StrayInv BY <1>1 DEF RunInv, StrayInv
<1>12. CopiesInv BY <1>1 DEF CopiesInv, Reached, NoJob
<1>13. LettersInv BY <1>1 DEF LettersInv, DeadLettersAreSound, NoJob
<1> QED BY <1>8, <1>9, <1>10, <1>11, <1>12, <1>13 DEF WebhookInv

LEMMA StepSound ==
  ASSUME WebhookInv, [Next]_vars
  PROVE  WebhookInv'
<1>1. CASE UNCHANGED vars
  BY <1>1, Quiet DEF vars, queue, worker, history, WebhookInv, Typed
<1>2. CASE Work
  BY <1>2, TakeKeeps, PromoteKeeps, StalledKeeps, LoadKeeps, AnswerKeeps, SaveKeeps,
     CompleteKeeps, FailKeeps, LetterKeeps DEF Work
<1>3. CASE Trouble
  BY <1>3, FailKeeps, CrashKeeps, AdriftKeeps, StrayKeeps DEF Trouble
<1>4. CASE Produce BY <1>4, SourceKeeps, EnqueueKeeps, ToggleKeeps DEF Produce
<1> QED BY <1>1, <1>2, <1>3, <1>4 DEF Next

-----------------------------------------------------------------------------
\* The worker's record of an attempt, the jobs and the letters stay what they should be
\* through retries, stalls, crashes and failing reads (worker.ts, index.ts, BullMQ).
THEOREM WebhookInvariant == Spec => []WebhookInv
<1>1. WebhookInv /\ [Next]_vars => WebhookInv' BY StepSound
<1> QED BY <1>1, InitSound, PTL DEF Spec

\* The types of the queue, the worker and the histories.
THEOREM WebhookTypeCorrect == Spec => []TypeOK
<1>1. ASSUME WebhookInv PROVE TypeOK
  <2>1. run # NoRun => /\ run.ev \in Event /\ run.known \subseteq Target
                       /\ run.at \in [Side -> {"load", "sent"}]
                       /\ run.due \subseteq Target /\ run.ok \subseteq Target
                       /\ run.bad \subseteq Target
    BY <1>1 DEF WebhookInv, Typed, Run
  <2>2. run # NoRun => /\ job[run.ev].st = "active"
                       /\ (run.due \cup run.ok \cup run.bad) \cap run.known = {}
    BY <1>1 DEF WebhookInv, RunInv, Handled
  <2>3. run # NoRun => run.due \cup run.ok \cup run.bad \subseteq Target \ run.known
    BY <2>1, <2>2
  <2> QED BY <1>1, <2>1, <2>2, <2>3
          DEF TypeOK, WebhookInv, Typed, Job, Statuses, Half, Letter
<1> QED BY <1>1, WebhookInvariant, PTL

\* A receiver gets an event once unless an attempt at it failed to record a delivery,
\* for every number of endpoints, attempts and faults (delivery.ts).
THEOREM HealthyReceiveOnce == Spec => []HealthyOnce
<1>1. WebhookInv => HealthyOnce BY DEF WebhookInv, CopiesInv, HealthyOnce
<1> QED BY <1>1, WebhookInvariant, PTL

\* What used up its attempts is in the dead-letter queue, or was lost on the way to
\* it, and every letter is honest (the failed handler of index.ts).
THEOREM DeadLettersHold == Spec => []DeadLettersAreSound
<1>1. WebhookInv => DeadLettersAreSound BY DEF WebhookInv, LettersInv
<1> QED BY <1>1, WebhookInvariant, PTL

-----------------------------------------------------------------------------
(* The promise, step by step.                                              *)

Phase == [e \in Event |->
            CASE job[e].st = "none" -> "none"
              [] job[e].st = "completed" -> "settled"
              [] job[e].st = "failed" -> "abandoned"
              [] OTHER -> "offered"]
Tries  == [e \in Event |-> job[e].made]
Losses == [e \in Event |-> job[e].stalls]
Got    == {p \in Event \X Target : copies[p[1]][p[2]] > 0}
Seen   == <<Phase, Tries, Losses, steady, Got>>

LEMMA PhaseOf ==
  ASSUME NEW e \in Event
  PROVE  /\ job[e].st = "none" => Phase[e] = "none"
         /\ job[e].st = "completed" => Phase[e] = "settled"
         /\ job[e].st = "failed" => Phase[e] = "abandoned"
         /\ job[e].st \in {"waiting", "active", "delayed"} => Phase[e] = "offered"
BY DEF Phase

LEMMA PhaseOfNext ==
  ASSUME NEW e \in Event
  PROVE  /\ job'[e].st = "none" => Phase'[e] = "none"
         /\ job'[e].st = "completed" => Phase'[e] = "settled"
         /\ job'[e].st = "failed" => Phase'[e] = "abandoned"
         /\ job'[e].st \in {"waiting", "active", "delayed"} => Phase'[e] = "offered"
BY DEF Phase

LEMMA SettleIs ==
  ASSUME NEW e \in Event, Phase[e] = "offered", \A t \in steady[e] : <<e, t>> \in Got,
         Phase' = [Phase EXCEPT ![e] = "settled"], UNCHANGED <<Tries, Losses, steady, Got>>
  PROVE  Promise!Settle(e)
BY DEF Promise!Settle, Phase, Tries, Losses, Got

LEMMA TryFailsIs ==
  ASSUME NEW e \in Event, Phase[e] = "offered", Tries[e] < Attempts,
         Tries' = [Tries EXCEPT ![e] = @ + 1],
         Phase' = [Phase EXCEPT ![e] = IF Tries[e] + 1 = Attempts THEN "abandoned" ELSE "offered"],
         UNCHANGED <<Losses, steady, Got>>
  PROVE  Promise!TryFails(e)
BY DEF Promise!TryFails, Phase, Tries, Losses, Got

LEMMA WorkerLostIs ==
  ASSUME NEW e \in Event, Phase[e] = "offered", Losses[e] <= MaxStalls,
         Losses' = [Losses EXCEPT ![e] = @ + 1],
         Phase' = [Phase EXCEPT ![e] = IF Losses[e] = MaxStalls THEN "abandoned" ELSE "offered"],
         UNCHANGED <<Tries, steady, Got>>
  PROVE  Promise!WorkerLost(e)
BY DEF Promise!WorkerLost, Phase, Tries, Losses, Got

LEMMA OfferIs ==
  ASSUME NEW e \in Event, NEW T \in SUBSET Target, Phase[e] = "none",
         Phase' = [Phase EXCEPT ![e] = "offered"], steady' = [steady EXCEPT ![e] = T],
         UNCHANGED <<Tries, Losses, Got>>
  PROVE  Promise!Offer(e, T)
BY DEF Promise!Offer, Phase, Tries, Losses, Got

LEMMA DeliverIs ==
  ASSUME NEW e \in Event, NEW t \in Target, Phase[e] # "none",
         Got' = Got \cup {<<e, t>>}, UNCHANGED <<Phase, Tries, Losses, steady>>
  PROVE  Promise!Deliver(e, t)
BY DEF Promise!Deliver, Phase, Tries, Losses, Got

LEMMA UnsubscribeIs ==
  ASSUME NEW t \in Target, steady' = [e \in Event |-> steady[e] \ {t}],
         UNCHANGED <<Phase, Tries, Losses, Got>>
  PROVE  Promise!Unsubscribe(t)
BY DEF Promise!Unsubscribe, Phase, Tries, Losses, Got

LEMMA SeenIs == UNCHANGED Seen => UNCHANGED Promise!avars
BY DEF Promise!avars, Seen, Phase, Tries, Losses, Got

\* One job changes, and only what is seen of it.
LEMMA JobSeen ==
  ASSUME NEW e \in Event, \A x \in Event : x # e => job'[x] = job[x]
  PROVE  /\ Phase' = [Phase EXCEPT ![e] = Phase'[e]]
         /\ Tries' = [Tries EXCEPT ![e] = job'[e].made]
         /\ Losses' = [Losses EXCEPT ![e] = job'[e].stalls]
<1>1. \A x \in Event : x # e => Phase'[x] = Phase[x] BY DEF Phase
<1>2. Phase' = [x \in Event |-> Phase'[x]] /\ Phase = [x \in Event |-> Phase[x]] BY DEF Phase
<1>3. Phase' = [Phase EXCEPT ![e] = Phase'[e]] BY <1>1, <1>2, Zenon
<1>4. Tries' = [Tries EXCEPT ![e] = job'[e].made] BY DEF Tries
<1>5. Losses' = [Losses EXCEPT ![e] = job'[e].stalls] BY DEF Losses
<1> QED BY <1>3, <1>4, <1>5

LEMMA CopiesSeen == UNCHANGED copies => UNCHANGED Got
BY DEF Got

LEMMA JobsSeen == UNCHANGED job => UNCHANGED <<Phase, Tries, Losses>>
BY DEF Phase, Tries, Losses

\* A job changes in a way the promise does not see.
LEMMA SeenUnchanged ==
  ASSUME WebhookInv, NEW e \in Event, \A x \in Event : x # e => job'[x] = job[x],
         job[e].st \in {"waiting", "active", "delayed"},
         job'[e].st \in {"waiting", "active", "delayed"},
         job'[e].made = job[e].made, job'[e].stalls = job[e].stalls,
         UNCHANGED <<steady, copies>>
  PROVE  UNCHANGED Seen
<1>1. Phase[e] = "offered" /\ Phase'[e] = "offered" BY PhaseOf, PhaseOfNext
<1>2. \A x \in Event : x # e => Phase'[x] = Phase[x] BY DEF Phase
<1>3. Phase' = Phase
  <2>1. Phase' = [x \in Event |-> Phase'[x]] /\ Phase = [x \in Event |-> Phase[x]] BY DEF Phase
  <2>2. \A x \in Event : Phase'[x] = Phase[x] BY <1>1, <1>2
  <2> QED BY <2>1, <2>2, Zenon
<1>4. Tries' = Tries /\ Losses' = Losses BY DEF Tries, Losses
<1> QED BY <1>3, <1>4, CopiesSeen DEF Seen

LEMMA TakeSeen ==
  ASSUME WebhookInv, NEW e \in Event, Take(e) \/ Promote(e)
  PROVE  UNCHANGED Seen
<1>1. /\ job[e].st \in {"waiting", "delayed"} /\ UNCHANGED <<steady, copies>>
      /\ \E c \in {"active", "waiting"} : job' = [job EXCEPT ![e].st = c]
  BY DEF Take, Promote, history
<1>2. job \in [Event -> Job] BY DEF WebhookInv, Typed
<1>3. /\ job'[e].st \in {"active", "waiting"} /\ job'[e].made = job[e].made
      /\ job'[e].stalls = job[e].stalls /\ \A x \in Event : x # e => job'[x] = job[x]
  BY <1>1, <1>2 DEF Job
<1> QED BY <1>1, <1>3, SeenUnchanged

LEMMA SaveSeen ==
  ASSUME WebhookInv, Save
  PROVE  UNCHANGED Seen
<1>1. run # NoRun BY DEF Save, HalvesDone
<1>2. PICK e \in Event : e = run.ev BY <1>1 DEF WebhookInv, Typed, Run
<1>3. /\ job' = [job EXCEPT ![e].recorded = run.known \cup run.ok]
      /\ UNCHANGED <<steady, copies>>
  BY <1>2 DEF Save, history
<1>4. job \in [Event -> Job] /\ job[e].st = "active"
  BY <1>1, <1>2 DEF WebhookInv, Typed, RunInv
<1>5. /\ job'[e].st = "active" /\ job'[e].made = job[e].made
      /\ job'[e].stalls = job[e].stalls /\ \A x \in Event : x # e => job'[x] = job[x]
  BY <1>3, <1>4 DEF Job
<1> QED BY <1>3, <1>4, <1>5, SeenUnchanged

LEMMA EnqueueOffers ==
  ASSUME WebhookInv, NEW e \in Event, EnqueueWebhook(e)
  PROVE  \E T \in SUBSET Target : Promise!Offer(e, T)
<1>1. PICK T \in SUBSET Target : T = Due(e, Hook, {}) \cup Due(e, Channel, {})
  BY DEF Due, WebhookInv, Typed
<1>2. /\ source[e] = "audited" /\ job' = [job EXCEPT ![e].st = "waiting"]
      /\ steady' = [steady EXCEPT ![e] = T] /\ UNCHANGED copies
  BY <1>1 DEF EnqueueWebhook
<1>3. job \in [Event -> Job] /\ job[e].st = "none"
  BY <1>2 DEF WebhookInv, Typed, JobInv
<1>4. /\ job'[e].st = "waiting" /\ job'[e].made = job[e].made
      /\ job'[e].stalls = job[e].stalls /\ \A x \in Event : x # e => job'[x] = job[x]
  BY <1>2, <1>3 DEF Job
<1>5. Phase[e] = "none" /\ Phase'[e] = "offered" BY <1>3, <1>4, PhaseOf, PhaseOfNext
<1>6. Phase' = [Phase EXCEPT ![e] = "offered"] BY <1>4, <1>5, JobSeen
<1>7. UNCHANGED <<Tries, Losses>> BY <1>4 DEF Tries, Losses
<1>8. Promise!Offer(e, T) BY <1>2, <1>5, <1>6, <1>7, CopiesSeen, OfferIs
<1> QED BY <1>8

LEMMA PostDelivers ==
  ASSUME WebhookInv, NEW e \in Event, NEW t \in Target, Post(e, t), job[e].st # "none",
         UNCHANGED <<job, steady>>
  PROVE  Promise!Deliver(e, t)
<1>1. Phase[e] # "none"
  BY PhaseOf DEF WebhookInv, Typed, Job, Statuses
<1>2. UNCHANGED <<Phase, Tries, Losses>> BY JobsSeen
<1>3. copies \in [Event -> [Target -> 0..2]] BY DEF WebhookInv, Typed
<1>4. ASSUME NEW x \in Event, NEW u \in Target
      PROVE  copies'[x][u] > 0 <=> copies[x][u] > 0 \/ (x = e /\ u = t)
  BY PostTyped
<1>5. Got' = Got \cup {<<e, t>>} BY <1>4 DEF Got
<1> QED BY <1>1, <1>2, <1>5, DeliverIs

\* A completed job reached every subscription that was in force all along.
LEMMA CompleteSettles ==
  ASSUME WebhookInv, Complete
  PROVE  \E e \in Event : Promise!Settle(e)
<1>1. run # NoRun BY DEF Complete, HalvesDone
<1>2. PICK e \in Event : e = run.ev BY <1>1 DEF WebhookInv, Typed, Run
<1>3. /\ job' = [job EXCEPT ![e].st = "completed"] /\ UNCHANGED <<steady, copies>>
      /\ run.due = {} /\ run.bad = {} /\ \A s \in Side : run.at[s] = "sent"
  BY <1>2 DEF Complete, HalvesDone, history
<1>4. job \in [Event -> Job] /\ job[e].st = "active" /\ steady[e] \subseteq Target
  BY <1>1, <1>2 DEF WebhookInv, Typed, RunInv
<1>5. /\ job'[e].st = "completed" /\ job'[e].made = job[e].made
      /\ job'[e].stalls = job[e].stalls /\ \A x \in Event : x # e => job'[x] = job[x]
  BY <1>3, <1>4 DEF Job, Statuses
<1>6. Phase[e] = "offered" /\ Phase'[e] = "settled" BY <1>4, <1>5, PhaseOf, PhaseOfNext
<1>7. Phase' = [Phase EXCEPT ![e] = "settled"] BY <1>5, <1>6, JobSeen
<1>8. UNCHANGED <<Tries, Losses>> BY <1>5 DEF Tries, Losses
<1>9. \A s \in Side : steady[e] \cap s \subseteq run.known \cup run.ok
  BY <1>1, <1>2, <1>3 DEF WebhookInv, RunInv, Handled
<1>10. run.known \cup run.ok \subseteq Reached(e)
  BY <1>1, <1>2 DEF Reached, WebhookInv, RunInv
<1>11. \A t \in steady[e] : copies[e][t] > 0
  BY <1>4, <1>9, <1>10 DEF WebhookInv, CopiesInv, Target, Side
<1>12. \A t \in steady[e] : <<e, t>> \in Got BY <1>4, <1>11 DEF Got
<1> QED BY <1>3, <1>6, <1>7, <1>8, <1>12, CopiesSeen, SettleIs

LEMMA ThrowFails ==
  ASSUME WebhookInv, Fail \/ SaveFails \/ \E s \in Side : LoadFails(s)
  PROVE  \E e \in Event : Promise!TryFails(e)
<1>1. run # NoRun BY DEF Fail, SaveFails, LoadFails, HalvesDone
<1>2. PICK e \in Event : e = run.ev BY <1>1 DEF WebhookInv, Typed, Run
<1> DEFINE n == job[e].made + 1
           c == IF n < Attempts THEN "delayed" ELSE "failed"
<1>3. UNCHANGED <<steady, copies>> BY DEF Fail, SaveFails, LoadFails, history
<1>4. \E loading : Throw(loading) BY Zenon DEF Fail, SaveFails, LoadFails
<1>5. job' = [job EXCEPT ![e].made = n, ![e].st = c] BY <1>2, <1>4 DEF Throw
<1>6. job \in [Event -> Job] /\ job[e].st = "active"
  BY <1>1, <1>2 DEF WebhookInv, Typed, RunInv
<1>7. job[e].made < Attempts /\ job[e].made \in Nat /\ Attempts \in Nat
  BY <1>6, WebhookAssumption DEF WebhookInv, JobInv, Over, Job
<1>8. c = IF n = Attempts THEN "failed" ELSE "delayed" BY <1>7
<1> HIDE DEF n, c
<1>9. /\ job'[e].st = c /\ job'[e].made = n
      /\ job'[e].stalls = job[e].stalls /\ \A x \in Event : x # e => job'[x] = job[x]
  BY <1>5, <1>6 DEF Job
<1>10. Phase[e] = "offered" /\ Phase'[e] = IF n = Attempts THEN "abandoned" ELSE "offered"
  BY <1>6, <1>8, <1>9, PhaseOf, PhaseOfNext
<1>11. Tries[e] = job[e].made BY DEF Tries
<1>12. Tries' = [Tries EXCEPT ![e] = @ + 1]
  BY <1>9, <1>11, JobSeen DEF n
<1>13. Phase' = [Phase EXCEPT ![e] = IF Tries[e] + 1 = Attempts THEN "abandoned" ELSE "offered"]
  BY <1>9, <1>10, <1>11, JobSeen DEF n
<1>14. UNCHANGED Losses BY <1>9 DEF Losses
<1>15. Promise!TryFails(e)
  BY <1>3, <1>7, <1>10, <1>11, <1>12, <1>13, <1>14, CopiesSeen, TryFailsIs
<1> QED BY <1>15

LEMMA StallLoses ==
  ASSUME WebhookInv, NEW e \in Event, Stalled(e)
  PROVE  Promise!WorkerLost(e)
<1> DEFINE n == job[e].stalls + 1
           c == IF job[e].stalls = MaxStalls THEN "failed" ELSE "waiting"
<1>1. /\ job[e].st = "active" /\ job' = [job EXCEPT ![e].stalls = n, ![e].st = c]
      /\ UNCHANGED <<steady, copies>>
  BY DEF Stalled, history
<1>2. job \in [Event -> Job] BY DEF WebhookInv, Typed
<1>3. job[e].stalls <= MaxStalls BY <1>1 DEF WebhookInv, JobInv, Over
<1>4. c = IF job[e].stalls = MaxStalls THEN "failed" ELSE "waiting" OBVIOUS
<1> HIDE DEF n, c
<1>5. /\ job'[e].st = c /\ job'[e].made = job[e].made
      /\ job'[e].stalls = n /\ \A x \in Event : x # e => job'[x] = job[x]
  BY <1>1, <1>2 DEF Job
<1>6. Phase[e] = "offered"
      /\ Phase'[e] = IF job[e].stalls = MaxStalls THEN "abandoned" ELSE "offered"
  BY <1>1, <1>4, <1>5, PhaseOf, PhaseOfNext
<1>7. Losses[e] = job[e].stalls BY DEF Losses
<1>8. Losses' = [Losses EXCEPT ![e] = @ + 1] BY <1>5, <1>7, JobSeen DEF n
<1>9. Phase' = [Phase EXCEPT ![e] = IF Losses[e] = MaxStalls THEN "abandoned" ELSE "offered"]
  BY <1>5, <1>6, <1>7, JobSeen
<1>10. UNCHANGED Tries BY <1>5 DEF Tries
<1> QED BY <1>1, <1>3, <1>6, <1>7, <1>8, <1>9, <1>10, CopiesSeen, WorkerLostIs

\* Every step is one EventDelivery allows, or one it does not see.
LEMMA StepKeepsPromise ==
  ASSUME WebhookInv, [Next]_vars
  PROVE  Promise!Next \/ UNCHANGED Promise!avars
<1>1. CASE UNCHANGED vars
  <2>1. UNCHANGED <<job, steady, copies>> BY <1>1 DEF vars, queue, history
  <2> QED BY <2>1, JobsSeen, CopiesSeen, SeenIs DEF Seen
<1>2. ASSUME NEW e \in Event, Take(e) \/ Promote(e) PROVE UNCHANGED Promise!avars
  BY <1>2, TakeSeen, SeenIs
<1>3. ASSUME NEW e \in Event, Stalled(e) PROVE Promise!Next
  BY <1>3, StallLoses DEF Promise!Next
<1>4. ASSUME UNCHANGED <<job, steady, copies>> PROVE UNCHANGED Promise!avars
  BY <1>4, JobsSeen, CopiesSeen, SeenIs DEF Seen
<1>5. ASSUME \/ \E s \in Side : Load(s)
             \/ Crash \/ \E a \in adrift : AdriftLoads(a)
             \/ \E l \in letters : DeadLetter(l)
             \/ \E e \in Event : RecordEvent(e) \/ AuditFails(e) \/ EnqueueLost(e)
      PROVE  UNCHANGED <<job, steady, copies>>
  BY <1>5 DEF Load, Crash, AdriftLoads, DeadLetter, RecordEvent, AuditFails, EnqueueLost,
     queue, history
<1>6. ASSUME NEW e \in Event, NEW t \in Target, Promise!Deliver(e, t) PROVE Promise!Next
  BY <1>6 DEF Promise!Next
<1>7. ASSUME NEW t \in Target, Answer(t) PROVE Promise!Next \/ UNCHANGED Promise!avars
  <2>1. run # NoRun BY <1>7 DEF Answer
  <2>2. PICK e \in Event : e = run.ev BY <2>1 DEF WebhookInv, Typed, Run
  <2>3. job[e].st # "none" BY <2>1, <2>2 DEF WebhookInv, RunInv
  <2>4. UNCHANGED <<job, steady>> /\ (Post(e, t) \/ UNCHANGED copies)
    BY <1>7, <2>2 DEF Answer, queue
  <2> QED BY <1>4, <1>6, <2>3, <2>4, PostDelivers
<1>8. ASSUME NEW p \in stray, StrayLands(p) PROVE Promise!Next \/ UNCHANGED Promise!avars
  <2>1. PICK e \in Event, t \in Target : e = p[1] /\ t = p[2] BY DEF WebhookInv, Typed
  <2>2. job[e].st # "none" BY <2>1 DEF WebhookInv, StrayInv
  <2>3. UNCHANGED <<job, steady>> /\ (Post(e, t) \/ UNCHANGED copies)
    BY <1>8, <2>1 DEF StrayLands, queue
  <2> QED BY <1>4, <1>6, <2>2, <2>3, PostDelivers
<1>9. CASE Save BY <1>9, SaveSeen, SeenIs
<1>10. CASE Complete BY <1>10, CompleteSettles DEF Promise!Next
<1>11. CASE Fail \/ SaveFails \/ \E s \in Side : LoadFails(s)
  BY <1>11, ThrowFails DEF Promise!Next
<1>12. ASSUME NEW e \in Event, EnqueueWebhook(e) PROVE Promise!Next
  BY <1>12, EnqueueOffers DEF Promise!Next
<1>13. ASSUME NEW t \in Target, Toggle(t) PROVE Promise!Next
  <2>1. steady' = [e \in Event |-> steady[e] \ {t}] /\ UNCHANGED <<job, copies>>
    BY <1>13 DEF Toggle, queue
  <2>2. Promise!Unsubscribe(t) BY <2>1, JobsSeen, CopiesSeen, UnsubscribeIs
  <2> QED BY <2>2 DEF Promise!Next
<1> QED BY <1>1, <1>2, <1>3, <1>4, <1>5, <1>7, <1>8, <1>9, <1>10, <1>11, <1>12, <1>13
        DEF Next, Work, Trouble, Produce

LEMMA InitKeepsPromise == Init => Promise!Init
<1> SUFFICES ASSUME Init PROVE Promise!Init OBVIOUS
<1>1. /\ job = [e \in Event |-> NoJob] /\ steady = [e \in Event |-> {}]
      /\ copies = [e \in Event |-> [t \in Target |-> 0]]
  BY DEF Init
<1>2. Phase = [e \in Event |-> "none"] BY <1>1 DEF Phase, NoJob
<1>3. Tries = [e \in Event |-> 0] /\ Losses = [e \in Event |-> 0]
  BY <1>1 DEF Tries, Losses, NoJob
<1>4. Got = {} BY <1>1 DEF Got
<1> QED BY <1>1, <1>2, <1>3, <1>4 DEF Promise!Init, Phase, Tries, Losses, Got

\* The dispatcher does nothing EventDelivery forbids: a job completes only when every
\* subscription in force all along was reached, and is given up only on its last attempt
\* or its last worker.  That it comes to an end is the part TLC checks.
THEOREM PromiseIsKept == Spec => Promise!Init /\ [][Promise!Next]_(Promise!avars)
<1>1. WebhookInv /\ [Next]_vars => [Promise!Next]_(Promise!avars) BY StepKeepsPromise
<1> QED BY <1>1, InitKeepsPromise, WebhookInvariant, PTL DEF Spec

=============================================================================
