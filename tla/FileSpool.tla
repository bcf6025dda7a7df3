------------------------------ MODULE FileSpool ------------------------------
(***************************************************************************)
(* The sensor's durable audit trail, vaultysclaw-sensor/internal/intercept/ *)
(* spool.go: FileSpool.  Request handlers Record events into a bounded     *)
(* channel, one writer goroutine moves them in batches to a size-capped    *)
(* file, and Drain hands the file to a shipper by renaming it to a         *)
(* `.shipping` sidecar.  Processes crash and restart; disks fail.          *)
(*                                                                         *)
(* An event is its ordinal: the i-th call of Record, over all lives of the *)
(* process, records event i.  Every line counts as one unit of maxBytes.   *)
(***************************************************************************)
EXTENDS Integers, Sequences

CONSTANTS
  QueueSize,  \* capacity of the channel `queue` (SpoolOptions.QueueSize)
  BatchSize,  \* capacity of the writer's batch slice (64 in the code)
  MaxBytes,   \* file cap, in lines (SpoolOptions.MaxBytes)
  MaxEvents,  \* bound of the model: calls of Record
  MaxCrashes, \* bound of the model: crashes of the process
  IoErrors    \* may an open, a write or a flush of the live file fail?

ASSUME SpoolAssumption ==
  /\ QueueSize \in Nat \ {0}
  /\ BatchSize \in Nat \ {0}
  /\ MaxBytes \in Nat \ {0}
  /\ MaxEvents \in Nat
  /\ MaxCrashes \in Nat
  /\ IoErrors \in BOOLEAN

VARIABLES
  queue,    \* the channel
  batch,    \* the writer goroutine's batch
  dropped, pending, written,  \* the atomic counters
  writer,   \* "loop", "final" (done seen, draining), "stopped", "down"
  done,     \* the channel `done` is closed
  live,     \* readable lines of the file at s.path
  tail,     \* how the file at s.path ends: "whole" lines, "part" of a line,
            \* or a "bare" line: all of it but its newline, and readable
  shipping, \* lines of the sidecar, or NoFile
  drain,    \* the Drain call: "idle", "ship", "remove"
  shipped,  \* events the receiver of Drain holds
  recorded, \* history: calls of Record, over all lives
  born,     \* history: `recorded` when this process started
  marked,   \* history: sum of the gap markers this process made durable
  crashes   \* history: bounds the crashes

memory == <<queue, batch, dropped, pending, written, writer, done>>
disk   == <<live, tail, shipping>>
ghosts == <<recorded, born, marked, crashes>>
vars   == <<memory, disk, drain, shipped, ghosts>>

NoFile == <<>>  \* an absent file and an empty one are drained alike
Line   == [id : Nat, gap : Nat]

IdsOf(lines) == {lines[i].id : i \in DOMAIN lines}
OnDisk == IdsOf(live) \cup IdsOf(shipping)

-----------------------------------------------------------------------------
Init ==
  /\ queue = <<>> /\ batch = <<>>
  /\ dropped = 0 /\ pending = 0 /\ written = 0
  /\ writer = "loop" /\ done = FALSE
  /\ live = <<>> /\ tail = "whole" /\ shipping = NoFile
  /\ drain = "idle" /\ shipped = {}
  /\ recorded = 0 /\ born = 0 /\ marked = 0 /\ crashes = 0

\* A full channel drops the event and counts it twice: as dropped, and for the
\* gap marker of the next event written.
Refuse == dropped' = dropped + 1 /\ pending' = pending + 1

\* Record: queue the event or refuse it.  Both owners of a spool wait for
\* their request handlers before they Close it, so no call follows Close.
Record ==
  /\ writer \notin {"stopped", "down"} /\ ~done
  /\ recorded < MaxEvents
  /\ recorded' = recorded + 1
  /\ \/ /\ Len(queue) < QueueSize
        /\ queue' = Append(queue, recorded')
        /\ UNCHANGED <<dropped, pending>>
     \/ /\ Len(queue) = QueueSize
        /\ Refuse
        /\ UNCHANGED queue
  /\ UNCHANGED <<batch, written, writer, done, disk, drain, shipped,
                 born, marked, crashes>>

\* The batches append may be writing at this moment: what the ticker or the
\* final drain flushes, and what the next event from the queue makes full.
Appendable ==
  {batch} \cup
  (IF queue # <<>> /\ Len(batch) + 1 >= BatchSize
     THEN {Append(batch, Head(queue))} ELSE {})

\* The lines append builds: the gap marker rides on the first event.
LinesOf(b, gap) ==
  [i \in 1..Len(b) |-> [id |-> b[i], gap |-> IF i = 1 THEN gap ELSE 0]]

\* How many events of a batch still fit under the cap.
Fits(b) ==
  LET room == MaxBytes - Len(live)
  IN  IF room <= 0 THEN 0 ELSE IF room < Len(b) THEN room ELSE Len(b)

\* The first k lines of the batch reach the file whole, and of the next one
\* nothing, a part, or all but the newline (cut).  Bytes appended to a file that
\* does not end in a newline are glued to its last line, and neither that line
\* nor the one they belong to can be parsed any more.
Ends == {"whole", "part", "bare"}
Persist(b, k, cut) ==
  LET bytes == k > 0 \/ cut # "whole"
      kept  == IF tail = "bare" /\ bytes THEN SubSeq(live, 1, Len(live) - 1) ELSE live
      from  == IF tail = "whole" THEN 1 ELSE 2
      upto  == IF cut = "bare" THEN k + 1 ELSE k
  IN  /\ live' = kept \o SubSeq(LinesOf(b, pending), from, upto)
      /\ tail' = IF ~bytes THEN tail
                 ELSE IF cut = "bare" /\ tail # "whole" /\ k = 0 THEN "part" ELSE cut
      /\ UNCHANGED shipping

\* A line of the batch that has a line of its own carries the marker.
Carried(k, cut) == tail = "whole" /\ (k > 0 \/ cut = "bare")

\* The marker read without being reset.
WriteBatch_KeepsGap(b, n, k, cut) ==
  /\ written' = written + n
  /\ dropped' = dropped + (Len(b) - n)
  /\ pending' = pending + (Len(b) - n)
  /\ marked' = IF Carried(k, cut) THEN marked + pending ELSE marked
  /\ Persist(b, k, cut)

\* append, under s.mu: n events are counted written, the rest dropped.
WriteBatch(b, n, k, cut) ==
  /\ written' = written + n
  /\ dropped' = dropped + (Len(b) - n)
  /\ pending' = Len(b) - n
  /\ marked' = IF Carried(k, cut) THEN marked + pending ELSE marked
  /\ Persist(b, k, cut)

\* The early return that forgets to count.
SkipBatch_Uncounted(b) ==
  /\ pending' = pending + Len(b)
  /\ UNCHANGED <<dropped, written, disk, marked>>

\* The open failed: the whole batch is dropped, the gap marker kept.
SkipBatch(b) ==
  /\ dropped' = dropped + Len(b)
  /\ pending' = pending + Len(b)
  /\ UNCHANGED <<written, disk, marked>>

Flush(b) ==
  \/ WriteBatch(b, Fits(b), Fits(b), "whole")
  \/ /\ IoErrors
     /\ \/ SkipBatch(b)
        \/ \E n \in 0..Fits(b) : \E k \in 0..n : \E cut \in Ends :
             /\ cut # "whole" => k < Fits(b)
             /\ WriteBatch(b, n, k, cut)

\* case e := <-s.queue, in the loop and in the final drain alike.
Take ==
  /\ writer \in {"loop", "final"}
  /\ queue # <<>>
  /\ queue' = Tail(queue)
  /\ LET b == Append(batch, Head(queue)) IN
       \/ /\ Len(b) < BatchSize
          /\ batch' = b
          /\ UNCHANGED <<dropped, pending, written, disk, marked>>
       \/ /\ Len(b) >= BatchSize
          /\ batch' = <<>>
          /\ Flush(b)
  /\ UNCHANGED <<writer, done, drain, shipped, recorded, born, crashes>>

\* case <-ticker.C
Tick ==
  /\ writer = "loop"
  /\ batch # <<>>
  /\ batch' = <<>>
  /\ Flush(batch)
  /\ UNCHANGED <<queue, writer, done, drain, shipped, recorded, born, crashes>>

Close ==
  /\ writer # "down" /\ ~done
  /\ done' = TRUE
  /\ UNCHANGED <<queue, batch, dropped, pending, written, writer, disk, drain,
                 shipped, ghosts>>

\* A writer that looks at done only with nothing batched.
SeeDone_WhenIdle ==
  /\ writer = "loop" /\ done /\ batch = <<>>
  /\ writer' = "final"
  /\ UNCHANGED <<queue, batch, dropped, pending, written, done, disk, drain,
                 shipped, ghosts>>

\* case <-s.done
SeeDone ==
  /\ writer = "loop" /\ done
  /\ writer' = "final"
  /\ UNCHANGED <<queue, batch, dropped, pending, written, done, disk, drain,
                 shipped, ghosts>>

\* The default case of the final drain: the queue is empty, flush and return.
Stop ==
  /\ writer = "final" /\ queue = <<>>
  /\ writer' = "stopped"
  /\ batch' = <<>>
  /\ \/ batch = <<>> /\ UNCHANGED <<dropped, pending, written, disk, marked>>
     \/ batch # <<>> /\ Flush(batch)
  /\ UNCHANGED <<queue, done, drain, shipped, recorded, born, crashes>>

-----------------------------------------------------------------------------
\* Three ways to rotate wrongly: over a leftover sidecar, by copying, and by
\* putting the leftover behind the newer lines.
DrainRotate_Overwrites ==
  /\ writer # "down" /\ drain = "idle" /\ live # <<>>
  /\ shipping' = live /\ live' = <<>> /\ tail' = "whole"
  /\ drain' = "ship"
  /\ UNCHANGED <<memory, shipped, ghosts>>

DrainRotate_Merges ==
  /\ writer # "down" /\ drain = "idle" /\ live # <<>>
  /\ shipping' = live \o shipping /\ live' = <<>> /\ tail' = "whole"
  /\ drain' = "ship"
  /\ UNCHANGED <<memory, shipped, ghosts>>

\* Drain, first half: under s.mu, a leftover sidecar takes priority; without
\* one a non-empty live file is renamed to be the sidecar.
DrainRotate ==
  /\ writer # "down" /\ drain = "idle"
  /\ \/ /\ shipping # NoFile
        /\ UNCHANGED disk
     \/ /\ shipping = NoFile /\ live # <<>>
        /\ shipping' = live
        /\ live' = <<>> /\ tail' = "whole"
  /\ drain' = "ship"
  /\ UNCHANGED <<memory, shipped, ghosts>>

\* Drain of a file with bytes and no readable line: renamed, found empty and
\* removed at once.
DrainUnreadable ==
  /\ writer # "down" /\ drain = "idle"
  /\ shipping = NoFile /\ live = <<>> /\ tail = "part"
  /\ tail' = "whole"
  /\ UNCHANGED <<memory, live, shipping, drain, shipped, ghosts>>

\* ship(events): taken and acknowledged, taken but the answer lost, or refused.
DrainShip ==
  /\ drain = "ship"
  /\ \/ /\ shipped' = shipped \cup IdsOf(shipping)
        /\ drain' \in {"remove", "idle"}
     \/ /\ drain' = "idle"
        /\ UNCHANGED shipped
  /\ UNCHANGED <<memory, disk, ghosts>>

\* os.Remove(staging); when it fails the sidecar is shipped again.
DrainRemove ==
  /\ drain = "remove"
  /\ drain' = "idle"
  /\ shipping' \in {NoFile, shipping}
  /\ UNCHANGED <<memory, live, tail, shipped, ghosts>>

-----------------------------------------------------------------------------
\* The process dies: memory is gone.  A batch in the middle of append may have
\* reached the file up to any byte.
Crash ==
  /\ writer # "down"
  /\ crashes < MaxCrashes
  /\ crashes' = crashes + 1
  /\ \/ UNCHANGED disk
     \/ /\ writer \in {"loop", "final"}
        /\ \E b \in Appendable : \E k \in 0..Fits(b) : \E cut \in Ends :
             /\ cut # "whole" => k < Fits(b)
             /\ Persist(b, k, cut)
  /\ queue' = <<>> /\ batch' = <<>>
  /\ dropped' = 0 /\ pending' = 0 /\ written' = 0
  /\ writer' = "down" /\ done' = FALSE
  /\ drain' = "idle"
  /\ born' = recorded /\ marked' = 0
  /\ UNCHANGED <<shipped, recorded>>

\* NewFileSpool: O_CREATE|O_APPEND, the file as it was left.
Restart ==
  /\ writer = "down"
  /\ writer' = "loop"
  /\ UNCHANGED <<queue, batch, dropped, pending, written, done, disk, drain,
                 shipped, ghosts>>

Next ==
  \/ Record \/ Take \/ Tick \/ Close \/ SeeDone \/ Stop
  \/ DrainRotate \/ DrainUnreadable \/ DrainShip \/ DrainRemove
  \/ Crash \/ Restart

Spec == Init /\ [][Next]_vars

\* The Go scheduler runs a ready goroutine: the writer keeps taking steps.
\* Nothing obliges anyone to Record, Close, Drain or restart.
FairSpec == Spec /\ WF_vars(Take \/ SeeDone \/ Stop)

-----------------------------------------------------------------------------
TypeOK ==
  /\ queue \in Seq(Nat) /\ Len(queue) <= QueueSize
  /\ batch \in Seq(Nat) /\ Len(batch) < BatchSize
  /\ dropped \in Nat /\ pending \in Nat /\ written \in Nat
  /\ writer \in {"loop", "final", "stopped", "down"}
  /\ done \in BOOLEAN
  /\ live \in Seq(Line) /\ Len(live) <= MaxBytes
  /\ tail \in Ends /\ (tail = "bare" => live # <<>>)
  /\ shipping \in Seq(Line)
  /\ drain \in {"idle", "ship", "remove"}
  /\ shipped \subseteq Nat
  /\ recorded \in Nat /\ born \in Nat /\ marked \in Nat /\ crashes \in Nat

\* Every event this process was given is queued, in the batch, counted written
\* or counted dropped: Stats never hides one (spool.go, Record and append).
Accounting ==
  recorded - born = Len(queue) + Len(batch) + written + dropped

\* The gap markers in the trail, plus the count waiting for the next event,
\* never claim more loss than there was (append's Swap before the write).  They
\* may claim less: a marker taken off for an event that does not fit is gone.
GapNeverOverstated == marked + pending <= dropped

Ids(lines) == [i \in DOMAIN lines |-> lines[i].id]
Increasing(s) == \A i, j \in DOMAIN s : i < j => s[i] < s[j]

\* Across batches, rotations and restarts the trail keeps the order of Record:
\* sidecar, live file, batch and queue in sequence are in order.
TrailInOrder ==
  Increasing(Ids(shipping) \o Ids(live) \o batch \o queue)

\* "so a clean shutdown loses nothing": the writer returns only when nothing is
\* queued or batched.
CleanStop == writer = "stopped" => queue = <<>> /\ batch = <<>>

\* The event whose line a crash or a failed write cut just before its newline.
\* It can be read, and the next append, opened without a look at how the file
\* ends, makes it unreadable.
Bare == IF tail = "bare" THEN {live[Len(live)].id} ELSE {}

\* An event that can be read on disk stays there until the receiver has it,
\* whatever crashes, fails or rotates (Drain: at least once).  One event may be
\* lost after it was readable, the bare one, and only while the file that holds
\* it is the live one: once rotated it stays as the others do.
ReadableStays ==
  [][\A e \in OnDisk \ Bare : e \in OnDisk' \/ e \in shipped]_vars

\* Close returns: wg.Wait ends because the writer drains and stops.
CloseReturns == done ~> writer \in {"stopped", "down"}
=============================================================================
