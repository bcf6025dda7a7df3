---------------------------- MODULE SensorProofs ----------------------------
(***************************************************************************)
(* Theorems about the two halves of a sensor's program, for every value of *)
(* their constants.                                                        *)
(*                                                                         *)
(* The audit trail (FileSpool): SpoolInv is inductive; type correctness,   *)
(* the accounting of events, the gap markers, the clean stop and the       *)
(* durability of readable events follow from it, and OrderInv shows the    *)
(* trail to be in the order of the recordings.                             *)
(*                                                                         *)
(* The telemetry (Telemetry): TelemetryInv is inductive.  It orders the    *)
(* reports by where they are, from the client's todo list to the handlers  *)
(* of the server, and follows the latest report of each workload; that the *)
(* server shows what the sensor last saw, and never goes back, follows.    *)
(***************************************************************************)
EXTENDS FileSpool, Telemetry, FiniteSetTheorems, SequenceTheorems, TLAPS

-----------------------------------------------------------------------------
(* The audit trail.                                                        *)

\* The sidecar is only removed once its receiver holds all of it.
RemoveAcked == drain = "remove" => IdsOf(shipping) \subseteq shipped

SpoolInv ==
  TypeOK /\ Accounting /\ GapNeverOverstated /\ CleanStop /\ RemoveAcked

\* The numbers the arithmetic below is about.
LEMMA Sizes ==
  ASSUME TypeOK
  PROVE  /\ Len(queue) \in Nat /\ Len(batch) \in Nat /\ Len(live) \in Nat
         /\ dropped \in Nat /\ pending \in Nat /\ written \in Nat
         /\ recorded \in Nat /\ born \in Nat /\ marked \in Nat
         /\ crashes \in Nat
BY DEF TypeOK

LEMMA NoLines == \A S : <<>> \in Seq(S) /\ Len(<<>>) = 0
OBVIOUS

\* What append does to everything but the file: the two counters absorb the
\* batch, and the marker never claims more than was dropped.
LEMMA FitsType ==
  ASSUME NEW b \in Seq(Nat), TypeOK
  PROVE  /\ Fits(b) \in 0..Len(b)
         /\ Len(live) + Fits(b) <= MaxBytes
BY SpoolAssumption DEF TypeOK, Fits

\* One line per event of the batch.
LEMMA LinesType ==
  ASSUME NEW b \in Seq(Nat), NEW gap \in Nat
  PROVE  LinesOf(b, gap) \in Seq(Line) /\ Len(LinesOf(b, gap)) = Len(b)
<1> DEFINE f == LinesOf(b, gap)
<1>1. /\ Len(b) \in Nat /\ DOMAIN f = 1..Len(b)
      /\ \A i \in 1..Len(b) : f[i] \in Line
  BY DEF LinesOf, Line
<1>2. f \in [1..Len(b) -> Line]
  BY <1>1 DEF LinesOf
<1> QED
  BY <1>1, <1>2

\* What reaches the file is a piece of those lines, no longer than k.
LEMMA PieceType ==
  ASSUME NEW b \in Seq(Nat), NEW gap \in Nat, NEW k \in 0..Len(b),
         NEW m \in {1, 2}
  PROVE  /\ SubSeq(LinesOf(b, gap), m, k) \in Seq(Line)
         /\ Len(SubSeq(LinesOf(b, gap), m, k)) <= k
<1> DEFINE s == LinesOf(b, gap)
<1>1. s \in Seq(Line) /\ Len(s) = Len(b)
  BY LinesType
<1> HIDE DEF s
<1>2. SubSeq(s, m, k) \in Seq(Line)
  BY <1>1
<1>3. Len(SubSeq(s, m, k)) <= k
  BY <1>1
<1> QED
  BY <1>2, <1>3 DEF s

\* The file after Persist: what it held, or all but its bare last line, and a piece of
\* the batch, from its first line or from its second.
Shape(b, kept, m, u) ==
  /\ live' = kept \o SubSeq(LinesOf(b, pending), m, u)
  /\ \/ kept = live
     \/ tail = "bare" /\ kept = SubSeq(live, 1, Len(live) - 1)

LEMMA PersistShape ==
  ASSUME TypeOK, NEW b \in Seq(Nat), NEW k \in 0..Fits(b), NEW cut \in Ends,
         cut # "whole" => k < Fits(b), Persist(b, k, cut)
  PROVE  /\ \E kept \in Seq(Line), m \in {1, 2}, u \in 0..Fits(b) :
              Shape(b, kept, m, u) /\ (tail' = "bare" => kept = live \/ m <= u)
         /\ tail' = "bare" => live' # <<>>
         /\ tail' \in Ends /\ shipping' = shipping
<1> DEFINE bytes == k > 0 \/ cut # "whole"
           kept  == IF tail = "bare" /\ bytes THEN SubSeq(live, 1, Len(live) - 1) ELSE live
           m     == IF tail = "whole" THEN 1 ELSE 2
           u     == IF cut = "bare" THEN k + 1 ELSE k
           s     == LinesOf(b, pending)
<1>1. /\ Fits(b) \in 0..Len(b) /\ Len(b) \in Nat /\ k \in Nat
      /\ tail \in Ends /\ (tail = "bare" => live # <<>>)
      /\ live \in Seq(Line) /\ s \in Seq(Line) /\ Len(s) = Len(b)
  BY FitsType, LinesType DEF TypeOK
<1>2. /\ live' = kept \o SubSeq(s, m, u) /\ shipping' = shipping
      /\ tail' = IF ~bytes THEN tail
                 ELSE IF cut = "bare" /\ tail # "whole" /\ k = 0 THEN "part" ELSE cut
  BY DEF Persist
<1>3. m \in {1, 2} /\ u \in 0..Fits(b) /\ u \in 0..Len(s)
  BY <1>1
<1>4. kept \in Seq(Line)
  <2>1. live # <<>> => SubSeq(live, 1, Len(live) - 1) \in Seq(Line)
    BY <1>1
  <2> QED
    BY <1>1, <2>1
<1>5. /\ SubSeq(s, m, u) \in Seq(Line)
      /\ Len(SubSeq(s, m, u)) = IF m <= u THEN u - m + 1 ELSE 0
  <2> HIDE DEF s, m, u
  <2> QED
    BY <1>1, <1>3
<1>6. ASSUME tail' = "bare" PROVE (kept = live /\ live # <<>>) \/ m <= u
  <2>1. CASE ~bytes
    BY <1>1, <1>2, <1>6, <2>1
  <2>2. CASE bytes
    <3>1. cut = "bare" /\ ~(tail # "whole" /\ k = 0)
      BY <1>2, <1>6, <2>2
    <3> QED
      BY <1>1, <3>1
  <2> QED
    BY <2>1, <2>2
<1>7. ASSUME tail' = "bare" PROVE live' # <<>>
  <2> HIDE DEF kept, s, m, u, bytes
  <2>1. CASE kept = live /\ live # <<>>
    <3>1. Len(live) > 0 /\ Len(live') = Len(live) + Len(SubSeq(s, m, u))
      BY <1>1, <1>2, <1>5, <2>1
    <3> QED
      BY <1>3, <1>5, <3>1
  <2>2. CASE m <= u
    <3>1. Len(live') = Len(kept) + Len(SubSeq(s, m, u)) /\ Len(kept) \in Nat
      BY <1>2, <1>4, <1>5
    <3> QED
      BY <1>3, <1>5, <2>2, <3>1
  <2> QED
    BY <1>6, <1>7, <2>1, <2>2 DEF kept, m, u
<1>8. tail' \in Ends
  BY <1>1, <1>2 DEF Ends
<1>9. Shape(b, kept, m, u)
  BY <1>2 DEF Shape
<1>10. tail' = "bare" => kept = live \/ m <= u
  BY <1>6
<1> HIDE DEF kept, m, u, s, bytes
<1> QED
  BY <1>2, <1>3, <1>4, <1>7, <1>8, <1>9, <1>10

\* Persist keeps the file well formed, under its cap, and every line of it but a bare one.
LEMMA PersistStep ==
  ASSUME TypeOK, NEW b \in Seq(Nat), NEW k \in 0..Fits(b), NEW cut \in Ends,
         cut # "whole" => k < Fits(b), Persist(b, k, cut)
  PROVE  /\ live' \in Seq(Line) /\ Len(live') <= MaxBytes
         /\ tail' \in Ends /\ (tail' = "bare" => live' # <<>>)
         /\ shipping' = shipping
         /\ IdsOf(live) \ Bare \subseteq IdsOf(live')
<1>1. PICK kept \in Seq(Line), m \in {1, 2}, u \in 0..Fits(b) : Shape(b, kept, m, u)
  BY PersistShape
<1> DEFINE s == SubSeq(LinesOf(b, pending), m, u)
<1>2. u \in 0..Len(b) /\ Len(live) + u <= MaxBytes /\ Len(live) \in Nat /\ MaxBytes \in Nat
  <2>1. Fits(b) \in 0..Len(b) /\ Len(live) + Fits(b) <= MaxBytes
    BY FitsType
  <2>2. Len(live) \in Nat /\ MaxBytes \in Nat /\ Len(b) \in Nat
    BY SpoolAssumption DEF TypeOK
  <2> QED
    BY <2>1, <2>2
<1>3. s \in Seq(Line) /\ Len(s) <= u
  BY <1>2, PieceType DEF TypeOK
<1>4. live' = kept \o s /\ (kept = live \/ (tail = "bare" /\ kept = SubSeq(live, 1, Len(live) - 1)))
  BY <1>1 DEF Shape
<1> HIDE DEF s
<1>5. live \in Seq(Line) /\ (tail = "bare" => live # <<>>)
  BY DEF TypeOK
<1>6. /\ Len(kept) \in Nat /\ Len(kept) <= Len(live)
      /\ \A i \in DOMAIN kept : kept[i] = live[i]
  <2>1. CASE kept = live
    BY <1>5, <2>1
  <2>2. CASE tail = "bare" /\ kept = SubSeq(live, 1, Len(live) - 1)
    BY <1>5, <2>2
  <2> QED
    BY <1>4, <2>1, <2>2
<1>7. live' \in Seq(Line) /\ Len(live') = Len(kept) + Len(s)
  BY <1>3, <1>4
<1>8. Len(live') <= MaxBytes
  BY <1>2, <1>3, <1>6, <1>7
<1>9. \A i \in DOMAIN kept : i \in DOMAIN live' /\ live'[i] = live[i]
  BY <1>3, <1>4, <1>6, <1>7
<1>10. ASSUME NEW i \in DOMAIN live PROVE i \in DOMAIN kept \/ live[i].id \in Bare
  <2>1. CASE kept = live
    BY <2>1
  <2>2. CASE tail = "bare" /\ kept = SubSeq(live, 1, Len(live) - 1)
    <3>1. i \in 1..Len(live) /\ DOMAIN kept = 1..(Len(live) - 1)
      BY <1>5, <2>2
    <3>2. i \in DOMAIN kept \/ i = Len(live)
      BY <1>2, <3>1
    <3> QED
      BY <2>2, <3>2 DEF Bare
  <2> QED
    BY <1>4, <2>1, <2>2
<1>11. IdsOf(live) \ Bare \subseteq IdsOf(live')
  BY <1>9, <1>10 DEF IdsOf
<1> QED
  BY <1>7, <1>8, <1>11, PersistShape

\* The part of SpoolInv a flush can disturb.
FlushOK(b) ==
  /\ dropped' \in Nat /\ pending' \in Nat /\ written' \in Nat /\ marked' \in Nat
  /\ live' \in Seq(Line) /\ Len(live') <= MaxBytes
  /\ tail' \in Ends /\ (tail' = "bare" => live' # <<>>)
  /\ shipping' = shipping
  /\ IdsOf(live) \ Bare \subseteq IdsOf(live')
  /\ written' + dropped' = written + dropped + Len(b)
  /\ marked' + pending' <= dropped'

LEMMA WriteStep ==
  ASSUME TypeOK, GapNeverOverstated, NEW b \in Seq(Nat),
         NEW n \in 0..Fits(b), NEW k \in 0..n, NEW cut \in Ends,
         cut # "whole" => k < Fits(b), WriteBatch(b, n, k, cut)
  PROVE  FlushOK(b)
<1>1. n \in 0..Len(b) /\ k \in 0..Fits(b)
  BY FitsType
<1>2. /\ live' \in Seq(Line) /\ Len(live') <= MaxBytes
      /\ tail' \in Ends /\ (tail' = "bare" => live' # <<>>)
      /\ shipping' = shipping
      /\ IdsOf(live) \ Bare \subseteq IdsOf(live')
  <2>1. Persist(b, k, cut)
    BY DEF WriteBatch
  <2> QED
    BY <1>1, <2>1, PersistStep
<1>3. /\ written' = written + n
      /\ dropped' = dropped + (Len(b) - n)
      /\ pending' = Len(b) - n
      /\ marked' \in {marked, marked + pending}
  BY DEF WriteBatch
<1>4. /\ written \in Nat /\ dropped \in Nat /\ pending \in Nat /\ marked \in Nat
      /\ marked + pending <= dropped /\ Len(b) \in Nat
  BY DEF TypeOK, GapNeverOverstated
<1>5. /\ dropped' \in Nat /\ pending' \in Nat /\ written' \in Nat
      /\ marked' \in Nat
      /\ written' + dropped' = written + dropped + Len(b)
      /\ marked' + pending' <= dropped'
  BY <1>1, <1>3, <1>4
<1> QED
  BY <1>2, <1>5 DEF FlushOK

LEMMA FlushStep ==
  ASSUME TypeOK, GapNeverOverstated, NEW b \in Seq(Nat), Flush(b)
  PROVE  FlushOK(b)
<1>1. CASE WriteBatch(b, Fits(b), Fits(b), "whole")
  <2>1. Fits(b) \in 0..Fits(b) /\ "whole" \in Ends
    BY FitsType DEF Ends
  <2> QED
    BY <1>1, <2>1, WriteStep
<1>2. CASE SkipBatch(b)
  <2>1. /\ dropped' = dropped + Len(b) /\ pending' = pending + Len(b)
        /\ UNCHANGED <<written, live, tail, shipping, marked>>
    BY <1>2 DEF SkipBatch, disk
  <2> QED
    BY <2>1 DEF FlushOK, TypeOK, GapNeverOverstated
<1>3. CASE \E n \in 0..Fits(b) : \E k \in 0..n : \E cut \in Ends :
             (cut # "whole" => k < Fits(b)) /\ WriteBatch(b, n, k, cut)
  BY <1>3, WriteStep
<1> QED
  BY <1>1, <1>2, <1>3 DEF Flush

-----------------------------------------------------------------------------
\* Each action keeps SpoolInv.
LEMMA RecordStep == SpoolInv /\ Record => SpoolInv'
<1> SUFFICES ASSUME SpoolInv, Record PROVE SpoolInv'
  OBVIOUS
<1> USE SpoolAssumption DEF SpoolInv
<1>1. /\ recorded' = recorded + 1
      /\ writer \notin {"stopped", "down"}
      /\ UNCHANGED <<batch, written, writer, done, live, tail, shipping, drain,
                     shipped, born, marked, crashes>>
  BY DEF Record, disk
<1>2. CASE Len(queue) < QueueSize /\ queue' = Append(queue, recorded')
             /\ UNCHANGED <<dropped, pending>>
  <2>1. queue' \in Seq(Nat) /\ Len(queue') = Len(queue) + 1
    BY <1>1, <1>2 DEF TypeOK
  <2>2. TypeOK'
    BY <1>1, <1>2, <2>1 DEF TypeOK
  <2> QED
    BY <1>1, <1>2, <2>1, <2>2
    DEF TypeOK, Accounting, GapNeverOverstated, CleanStop, RemoveAcked
<1>3. CASE Len(queue) = QueueSize /\ dropped' = dropped + 1
             /\ pending' = pending + 1 /\ UNCHANGED queue
  <2>1. TypeOK'
    BY <1>1, <1>3 DEF TypeOK
  <2>2. Len(queue') = Len(queue) /\ Len(batch') = Len(batch)
    BY <1>1, <1>3
  <2>3. /\ Len(queue) \in Nat /\ Len(batch) \in Nat
        /\ dropped \in Nat /\ pending \in Nat /\ written \in Nat
        /\ recorded \in Nat /\ born \in Nat /\ marked \in Nat
    BY Sizes
  <2>4. Accounting'
    BY <1>1, <1>3, <2>2, <2>3 DEF Accounting
  <2>5. GapNeverOverstated'
    BY <1>1, <1>3, <2>3 DEF GapNeverOverstated
  <2> QED
    BY <1>1, <2>1, <2>4, <2>5 DEF CleanStop, RemoveAcked
<1> QED
  BY <1>2, <1>3 DEF Record, Refuse

LEMMA TakeStep == SpoolInv /\ Take => SpoolInv'
<1> SUFFICES ASSUME SpoolInv, Take PROVE SpoolInv'
  OBVIOUS
<1> USE SpoolAssumption DEF SpoolInv
<1> DEFINE b == Append(batch, Head(queue))
<1>1. /\ writer \in {"loop", "final"} /\ queue # <<>>
      /\ queue' = Tail(queue)
      /\ UNCHANGED <<writer, done, drain, shipped, recorded, born, crashes>>
  BY DEF Take
<1>2. /\ queue' \in Seq(Nat) /\ Len(queue') = Len(queue) - 1
      /\ Len(queue') <= QueueSize
      /\ b \in Seq(Nat) /\ Len(b) = Len(batch) + 1
  BY <1>1 DEF TypeOK
<1> HIDE DEF b
<1>3. CASE Len(b) < BatchSize /\ batch' = b
             /\ UNCHANGED <<dropped, pending, written, live, tail, shipping, marked>>
  <2>1. TypeOK'
    BY <1>1, <1>2, <1>3 DEF TypeOK
  <2>2. Len(batch') = Len(batch) + 1
    BY <1>2, <1>3
  <2>3. /\ Len(queue) \in Nat /\ Len(batch) \in Nat
        /\ dropped \in Nat /\ pending \in Nat /\ written \in Nat
        /\ recorded \in Nat /\ born \in Nat /\ marked \in Nat
    BY Sizes
  <2>4. Len(queue') = Len(queue) - 1
    BY <1>2
  <2>5. UNCHANGED <<written, dropped, recorded, born>>
    BY <1>1, <1>3
  <2>6. Accounting'
    BY <2>2, <2>3, <2>4, <2>5 DEF Accounting
  <2> QED
    BY <1>1, <1>3, <2>1, <2>6 DEF GapNeverOverstated, CleanStop, RemoveAcked
<1>4. CASE batch' = <<>> /\ Flush(b)
  <2>1. FlushOK(b)
    BY <1>2, <1>4, FlushStep
  <2>2. batch' \in Seq(Nat) /\ Len(batch') = 0
    BY <1>4
  <2>3. TypeOK'
    <3>1. /\ queue' \in Seq(Nat) /\ Len(queue') <= QueueSize
          /\ batch' \in Seq(Nat) /\ Len(batch') < BatchSize
      BY <1>2, <2>2
    <3>2. UNCHANGED <<writer, done, drain, shipped, recorded, born, crashes>>
      BY <1>1
    <3> QED
      BY <2>1, <3>1, <3>2 DEF TypeOK, FlushOK
  <2>4. /\ Len(queue) \in Nat /\ Len(batch) \in Nat
        /\ dropped \in Nat /\ pending \in Nat /\ written \in Nat
        /\ recorded \in Nat /\ born \in Nat /\ marked \in Nat
    BY Sizes
  <2>5. /\ written' + dropped' = written + dropped + Len(b)
        /\ dropped' \in Nat /\ written' \in Nat
    BY <2>1 DEF FlushOK
  <2>6. /\ Len(queue') = Len(queue) - 1 /\ Len(b) = Len(batch) + 1
        /\ UNCHANGED <<recorded, born>>
    BY <1>1, <1>2
  <2>7. Len(queue') + Len(batch') + written' + dropped'
          = Len(queue) + Len(batch) + written + dropped
    <3> DEFINE q == Len(queue)  k == Len(batch)  w1 == written'  d1 == dropped'
    <3>1. q \in Nat /\ k \in Nat /\ w1 \in Nat /\ d1 \in Nat
      BY <2>4, <2>5
    <3>2. w1 + d1 = written + dropped + (k + 1)
      BY <2>5, <2>6
    <3>3. Len(queue') = q - 1 /\ Len(batch') = 0
      BY <2>2, <2>6
    <3> HIDE DEF q, k, w1, d1
    <3>4. (q - 1) + 0 + w1 + d1 = q + k + written + dropped
      BY <2>4, <3>1, <3>2
    <3> QED
      BY <3>3, <3>4 DEF q, k, w1, d1
  <2>8. Accounting'
    BY <2>6, <2>7 DEF Accounting
  <2> QED
    BY <1>1, <2>1, <2>3, <2>8
    DEF FlushOK, GapNeverOverstated, CleanStop, RemoveAcked
<1> QED
  BY <1>3, <1>4 DEF Take, b, disk

LEMMA TickStep == SpoolInv /\ Tick => SpoolInv'
<1> SUFFICES ASSUME SpoolInv, Tick PROVE SpoolInv'
  OBVIOUS
<1> USE SpoolAssumption DEF SpoolInv
<1>1. /\ writer = "loop" /\ batch' = <<>> /\ Flush(batch)
      /\ UNCHANGED <<queue, writer, done, drain, shipped, recorded, born, crashes>>
  BY DEF Tick
<1>2. FlushOK(batch)
  BY <1>1, FlushStep DEF TypeOK
<1>3. batch' \in Seq(Nat) /\ Len(batch') = 0
  BY <1>1
<1>4. TypeOK'
  BY <1>1, <1>2, <1>3 DEF TypeOK, FlushOK
<1>5. Accounting'
  <2>1. /\ Len(queue) \in Nat /\ Len(batch) \in Nat
        /\ dropped \in Nat /\ pending \in Nat /\ written \in Nat
        /\ recorded \in Nat /\ born \in Nat /\ marked \in Nat
    BY Sizes
  <2>2. /\ written' + dropped' = written + dropped + Len(batch)
        /\ dropped' \in Nat /\ written' \in Nat
    BY <1>2 DEF FlushOK
  <2>3. /\ Len(queue') = Len(queue) /\ Len(batch') = 0
        /\ UNCHANGED <<recorded, born>>
    BY <1>1, <1>3
  <2>4. Len(queue') + Len(batch') + written' + dropped'
          = Len(queue) + Len(batch) + written + dropped
    <3> DEFINE q == Len(queue)  k == Len(batch)  w1 == written'  d1 == dropped'
    <3>1. /\ q \in Nat /\ k \in Nat /\ w1 \in Nat /\ d1 \in Nat
          /\ w1 + d1 = written + dropped + k
      BY <2>1, <2>2
    <3>2. Len(queue') = q /\ Len(batch') = 0
      BY <2>3
    <3> HIDE DEF q, k, w1, d1, SpoolInv
    <3>3. q + 0 + w1 + d1 = q + k + written + dropped
      BY <2>1, <3>1
    <3> QED
      BY <3>2, <3>3 DEF q, k, w1, d1
  <2> QED
    BY <2>3, <2>4 DEF Accounting
<1> QED
  BY <1>1, <1>2, <1>4, <1>5
  DEF FlushOK, GapNeverOverstated, CleanStop, RemoveAcked

LEMMA StopStep == SpoolInv /\ Stop => SpoolInv'
<1> SUFFICES ASSUME SpoolInv, Stop PROVE SpoolInv'
  OBVIOUS
<1> USE SpoolAssumption DEF SpoolInv
<1>1. /\ queue = <<>> /\ writer' = "stopped" /\ batch' = <<>>
      /\ UNCHANGED <<queue, done, drain, shipped, recorded, born, crashes>>
  BY DEF Stop
<1>2. batch' \in Seq(Nat) /\ Len(batch') = 0
  BY <1>1
<1>3. CASE batch = <<>> /\ UNCHANGED <<dropped, pending, written, live, tail,
                                        shipping, marked>>
  BY <1>1, <1>3
  DEF TypeOK, Accounting, GapNeverOverstated, CleanStop, RemoveAcked
<1>4. CASE Flush(batch)
  <2>1. FlushOK(batch)
    BY <1>4, FlushStep DEF TypeOK
  <2>2. TypeOK'
    BY <1>1, <1>2, <2>1 DEF TypeOK, FlushOK
  <2>3. Accounting'
    BY <1>1, <1>2, <2>1 DEF TypeOK, FlushOK, Accounting
  <2> QED
    BY <1>1, <2>1, <2>2, <2>3
    DEF FlushOK, GapNeverOverstated, CleanStop, RemoveAcked
<1> QED
  BY <1>3, <1>4 DEF Stop, disk

\* Draining leaves memory alone and touches the two files only by moving the
\* live one to the empty place of the sidecar, or removing an acknowledged one.
LEMMA DrainStep ==
  SpoolInv /\ (DrainRotate \/ DrainUnreadable \/ DrainShip \/ DrainRemove)
    => SpoolInv'
<1> SUFFICES ASSUME SpoolInv,
                    DrainRotate \/ DrainUnreadable \/ DrainShip \/ DrainRemove
             PROVE  SpoolInv'
  OBVIOUS
<1> USE SpoolAssumption DEF SpoolInv
<1>1. UNCHANGED <<queue, batch, dropped, pending, written, writer, done,
                  recorded, born, marked, crashes>>
  BY DEF DrainRotate, DrainUnreadable, DrainShip, DrainRemove, memory, ghosts
<1>2. Accounting' /\ GapNeverOverstated' /\ CleanStop'
  BY <1>1 DEF Accounting, GapNeverOverstated, CleanStop
<1>3. CASE DrainRotate
  <2>1. drain' = "ship" /\ shipped' = shipped
    BY <1>3 DEF DrainRotate
  <2>2. \/ live' = live /\ tail' = tail /\ shipping' = shipping
        \/ live' = <<>> /\ tail' = "whole" /\ shipping' = live
    BY <1>3 DEF DrainRotate, disk
  <2>3. /\ live' \in Seq(Line) /\ Len(live') <= MaxBytes
        /\ tail' \in Ends /\ (tail' = "bare" => live' # <<>>) /\ shipping' \in Seq(Line)
    <3>1. /\ <<>> \in Seq(Line) /\ Len(<<>>) = 0
          /\ live \in Seq(Line) /\ Len(live) <= MaxBytes
          /\ shipping \in Seq(Line) /\ tail \in Ends /\ (tail = "bare" => live # <<>>)
          /\ "whole" \in Ends
          /\ MaxBytes \in Nat
      BY NoLines DEF TypeOK, Ends
    <3>2. 0 <= MaxBytes
      BY <3>1
    <3>3. CASE live' = live /\ tail' = tail /\ shipping' = shipping
      BY <3>1, <3>3
    <3>4. CASE live' = <<>> /\ tail' = "whole" /\ shipping' = live
      BY <3>1, <3>2, <3>4
    <3> QED
      BY <2>2, <3>3, <3>4
  <2> QED
    BY <1>1, <1>2, <2>1, <2>3 DEF TypeOK, RemoveAcked
<1>4. CASE DrainUnreadable
  BY <1>1, <1>2, <1>4 DEF DrainUnreadable, TypeOK, RemoveAcked, Ends
<1>5. CASE DrainShip
  <2>1. IdsOf(shipping) \subseteq Nat
    <3>1. \A i \in DOMAIN shipping : shipping[i] \in Line
      BY DEF TypeOK
    <3>2. \A l \in Line : l.id \in Nat
      BY DEF Line
    <3> QED
      BY <3>1, <3>2 DEF IdsOf
  <2> QED
    BY <1>1, <1>2, <1>5, <2>1 DEF DrainShip, TypeOK, RemoveAcked, disk
<1>6. CASE DrainRemove
  <2>1. /\ drain' = "idle" /\ UNCHANGED <<live, tail, shipped>>
        /\ shipping' = <<>> \/ shipping' = shipping
    BY <1>6 DEF DrainRemove, NoFile
  <2>2. shipping' \in Seq(Line)
    BY <2>1, NoLines DEF TypeOK
  <2> QED
    BY <1>1, <1>2, <2>1, <2>2 DEF TypeOK, RemoveAcked
<1> QED
  BY <1>3, <1>4, <1>5, <1>6

LEMMA CrashStep == SpoolInv /\ Crash => SpoolInv'
<1> SUFFICES ASSUME SpoolInv, Crash PROVE SpoolInv'
  OBVIOUS
<1> USE SpoolAssumption DEF SpoolInv
<1>1. /\ queue' = <<>> /\ batch' = <<>>
      /\ dropped' = 0 /\ pending' = 0 /\ written' = 0
      /\ writer' = "down" /\ done' = FALSE /\ drain' = "idle"
      /\ born' = recorded /\ marked' = 0 /\ crashes' = crashes + 1
      /\ UNCHANGED <<shipped, recorded>>
  BY DEF Crash
<1>2. /\ live' \in Seq(Line) /\ Len(live') <= MaxBytes
      /\ tail' \in Ends /\ (tail' = "bare" => live' # <<>>) /\ shipping' = shipping
  <2>1. CASE UNCHANGED disk
    BY <2>1 DEF disk, TypeOK
  <2>2. ASSUME NEW b \in Appendable, NEW k \in 0..Fits(b), NEW cut \in Ends,
               cut # "whole" => k < Fits(b), Persist(b, k, cut)
        PROVE  live' \in Seq(Line) /\ Len(live') <= MaxBytes
                 /\ tail' \in Ends /\ (tail' = "bare" => live' # <<>>) /\ shipping' = shipping
    <3>1. b = batch \/ (queue # <<>> /\ b = Append(batch, Head(queue)))
      BY DEF Appendable
    <3>2. b \in Seq(Nat)
      <4>1. queue \in Seq(Nat) /\ batch \in Seq(Nat)
        BY DEF TypeOK
      <4>2. queue # <<>> => Head(queue) \in Nat
        BY <4>1
      <4>3. \A e \in Nat : Append(batch, e) \in Seq(Nat)
        BY <4>1
      <4> QED
        BY <3>1, <4>1, <4>2, <4>3
    <3> QED
      BY <2>2, <3>2, PersistStep
  <2> QED
    BY <2>1, <2>2 DEF Crash
<1>3. /\ queue' \in Seq(Nat) /\ Len(queue') = 0
      /\ batch' \in Seq(Nat) /\ Len(batch') = 0
  BY <1>1
<1>4. /\ Len(queue') <= QueueSize /\ Len(batch') < BatchSize
      /\ crashes' \in Nat /\ recorded' \in Nat /\ born' \in Nat
  BY <1>1, <1>3, Sizes
<1>5. TypeOK'
  BY <1>1, <1>2, <1>3, <1>4 DEF TypeOK
<1>6. Accounting' /\ GapNeverOverstated'
  BY <1>1, <1>3, Sizes DEF Accounting, GapNeverOverstated
<1> QED
  BY <1>1, <1>5, <1>6 DEF CleanStop, RemoveAcked

LEMMA OtherStep ==
  SpoolInv /\ (Close \/ SeeDone \/ Restart \/ UNCHANGED vars) => SpoolInv'
<1> SUFFICES ASSUME SpoolInv, Close \/ SeeDone \/ Restart \/ UNCHANGED vars
             PROVE  SpoolInv'
  OBVIOUS
<1>1. /\ UNCHANGED <<queue, batch, dropped, pending, written, live, tail,
                     shipping, drain, shipped, recorded, born, marked, crashes>>
      /\ writer' \in {writer, "final", "loop"}
      /\ done' \in {done, TRUE}
  BY DEF Close, SeeDone, Restart, vars, memory, disk, ghosts
<1> QED
  BY <1>1 DEF SpoolInv, TypeOK, Accounting, GapNeverOverstated, CleanStop,
              RemoveAcked

-----------------------------------------------------------------------------
\* SpoolInv is an invariant of the spool.
THEOREM SpoolInvariant == Spec => []SpoolInv
<1>1. Init => SpoolInv
  <2> SUFFICES ASSUME Init PROVE SpoolInv
    OBVIOUS
  <2>1. /\ Len(queue) = 0 /\ Len(batch) = 0 /\ Len(live) = 0
        /\ queue \in Seq(Nat) /\ batch \in Seq(Nat)
        /\ live \in Seq(Line) /\ shipping \in Seq(Line)
    BY NoLines DEF Init, NoFile
  <2>2. TypeOK
    <3>1. Len(queue) <= QueueSize /\ Len(batch) < BatchSize
          /\ Len(live) <= MaxBytes
      BY <2>1, SpoolAssumption
    <3> QED
      BY <2>1, <3>1 DEF Init, TypeOK, Ends
  <2>3. Accounting /\ GapNeverOverstated
    BY <2>1 DEF Init, Accounting, GapNeverOverstated
  <2> QED
    BY <2>2, <2>3 DEF Init, SpoolInv, CleanStop, RemoveAcked
<1>2. SpoolInv /\ [Next]_vars => SpoolInv'
  BY RecordStep, TakeStep, TickStep, StopStep, DrainStep, CrashStep, OtherStep
  DEF Next
<1> QED
  BY <1>1, <1>2, PTL DEF Spec

\* The spool's state is well formed: in particular the file never exceeds its
\* cap and the queue and the batch theirs (append, Record).
THEOREM SpoolTypeCorrect == Spec => []TypeOK
<1>1. SpoolInv => TypeOK
  BY DEF SpoolInv
<1> QED
  BY <1>1, SpoolInvariant, PTL

\* No event is lost without being counted: what this process was given is
\* queued, batched, counted written or counted dropped (Stats).
THEOREM EventsAreAccounted == Spec => []Accounting
<1>1. SpoolInv => Accounting
  BY DEF SpoolInv
<1> QED
  BY <1>1, SpoolInvariant, PTL

\* The gap markers never claim more loss than there was (append's Swap).
THEOREM GapsAreNotOverstated == Spec => []GapNeverOverstated
<1>1. SpoolInv => GapNeverOverstated
  BY DEF SpoolInv
<1> QED
  BY <1>1, SpoolInvariant, PTL

\* "a clean shutdown loses nothing" (run): the writer stops with nothing left.
THEOREM StopIsClean == Spec => []CleanStop
<1>1. SpoolInv => CleanStop
  BY DEF SpoolInv
<1> QED
  BY <1>1, SpoolInvariant, PTL

-----------------------------------------------------------------------------
(* The order of the trail.  Four stretches, each in order, each before the *)
(* next, and all of it before the next call of Record.                     *)

\* Every event of one stretch was recorded before every event of the other.
Precedes(s, t) == \A i \in DOMAIN s, j \in DOMAIN t : s[i] < t[j]
UpTo(s, n) == \A i \in DOMAIN s : s[i] <= n

Ordered(s, l, b, q, n) ==
  /\ Increasing(s) /\ Increasing(l) /\ Increasing(b) /\ Increasing(q)
  /\ Precedes(s, l) /\ Precedes(s, b) /\ Precedes(s, q)
  /\ Precedes(l, b) /\ Precedes(l, q) /\ Precedes(b, q)
  /\ UpTo(s, n) /\ UpTo(l, n) /\ UpTo(b, n) /\ UpTo(q, n)
OrderInv == Ordered(Ids(shipping), Ids(live), batch, queue, recorded)

LEMMA IdsType ==
  ASSUME NEW lines \in Seq(Line)
  PROVE  Ids(lines) \in Seq(Nat) /\ Len(Ids(lines)) = Len(lines)
<1>1. Len(lines) \in Nat /\ DOMAIN lines = 1..Len(lines) OBVIOUS
<1>2. \A i \in 1..Len(lines) : lines[i].id \in Nat
  <2>1. \A l \in Line : l.id \in Nat BY DEF Line
  <2>2. \A i \in 1..Len(lines) : lines[i] \in Line OBVIOUS
  <2> QED BY <2>1, <2>2
<1>3. Ids(lines) = [i \in 1..Len(lines) |-> lines[i].id] BY <1>1 DEF Ids
<1> QED BY <1>1, <1>2, <1>3

\* What is in order piece by piece is in order end to end.
LEMMA JoinInOrder ==
  ASSUME NEW s \in Seq(Nat), NEW t \in Seq(Nat),
         Increasing(s), Increasing(t), Precedes(s, t)
  PROVE  Increasing(s \o t) /\ s \o t \in Seq(Nat)
<1>1. s \o t \in Seq(Nat) /\ DOMAIN (s \o t) = 1..(Len(s) + Len(t))
      /\ Len(s) \in Nat /\ Len(t) \in Nat /\ DOMAIN s = 1..Len(s) /\ DOMAIN t = 1..Len(t)
  OBVIOUS
<1>2. \A i \in 1..(Len(s) + Len(t)) : (s \o t)[i] = IF i <= Len(s) THEN s[i] ELSE t[i - Len(s)]
  OBVIOUS
<1>3. ASSUME NEW i \in 1..(Len(s) + Len(t)), NEW j \in 1..(Len(s) + Len(t)), i < j
      PROVE  (s \o t)[i] < (s \o t)[j]
  <2>1. CASE j <= Len(s)
    <3>1. i \in 1..Len(s) /\ j \in 1..Len(s) BY <1>1, <1>3, <2>1
    <3>2. s[i] < s[j] BY <1>1, <1>3, <3>1 DEF Increasing
    <3>3. (s \o t)[i] = s[i] /\ (s \o t)[j] = s[j] BY <1>2, <3>1
    <3> QED BY <3>2, <3>3
  <2>2. CASE i > Len(s)
    <3>1. i - Len(s) \in 1..Len(t) /\ j - Len(s) \in 1..Len(t) /\ i - Len(s) < j - Len(s)
      BY <1>1, <1>3, <2>2
    <3>2. t[i - Len(s)] < t[j - Len(s)] BY <1>1, <3>1 DEF Increasing
    <3>3. ~(i <= Len(s)) /\ ~(j <= Len(s)) BY <1>1, <1>3, <2>2
    <3> QED BY <1>2, <3>2, <3>3
  <2>3. CASE i <= Len(s) /\ j > Len(s)
    <3>1. i \in 1..Len(s) /\ j - Len(s) \in 1..Len(t) BY <1>1, <2>3
    <3>2. s[i] < t[j - Len(s)] BY <1>1, <3>1 DEF Precedes
    <3>3. i <= Len(s) /\ ~(j <= Len(s)) BY <1>1, <2>3
    <3> QED BY <1>2, <3>2, <3>3
  <2> QED BY <1>1, <2>1, <2>2, <2>3
<1> QED BY <1>1, <1>3 DEF Increasing

LEMMA JoinPrecedes ==
  ASSUME NEW s \in Seq(Nat), NEW t \in Seq(Nat), NEW u \in Seq(Nat),
         Precedes(s, u), Precedes(t, u)
  PROVE  Precedes(s \o t, u)
<1>1. /\ DOMAIN (s \o t) = 1..(Len(s) + Len(t)) /\ Len(s) \in Nat /\ Len(t) \in Nat
      /\ DOMAIN s = 1..Len(s) /\ DOMAIN t = 1..Len(t)
  OBVIOUS
<1>2. ASSUME NEW i \in 1..(Len(s) + Len(t)), NEW j \in DOMAIN u PROVE (s \o t)[i] < u[j]
  <2>1. (s \o t)[i] = IF i <= Len(s) THEN s[i] ELSE t[i - Len(s)] OBVIOUS
  <2>2. CASE i <= Len(s)
    <3>1. i \in 1..Len(s) BY <1>1, <2>2
    <3>2. s[i] < u[j] BY <1>1, <3>1 DEF Precedes
    <3> QED BY <2>1, <2>2, <3>2
  <2>3. CASE ~(i <= Len(s))
    <3>1. i - Len(s) \in 1..Len(t) BY <1>1, <2>3
    <3> QED BY <1>1, <2>1, <2>3, <3>1 DEF Precedes
  <2> QED BY <2>2, <2>3
<1> QED BY <1>1, <1>2 DEF Precedes

LEMMA OrderIsTrail ==
  ASSUME TypeOK, OrderInv
  PROVE  TrailInOrder
<1> DEFINE s == Ids(shipping)
           l == Ids(live)
<1>1. s \in Seq(Nat) /\ l \in Seq(Nat) /\ batch \in Seq(Nat) /\ queue \in Seq(Nat)
  BY IdsType DEF TypeOK
<1>2. /\ Increasing(s) /\ Increasing(l) /\ Increasing(batch) /\ Increasing(queue)
      /\ Precedes(s, l) /\ Precedes(s, batch) /\ Precedes(s, queue)
      /\ Precedes(l, batch) /\ Precedes(l, queue) /\ Precedes(batch, queue)
  BY DEF OrderInv, Ordered
<1> HIDE DEF s, l
<1>3. Increasing(s \o l) /\ s \o l \in Seq(Nat) BY <1>1, <1>2, JoinInOrder
<1>4. Precedes(s \o l, batch) /\ Precedes(s \o l, queue) BY <1>1, <1>2, JoinPrecedes
<1>5. Increasing((s \o l) \o batch) /\ (s \o l) \o batch \in Seq(Nat)
  BY <1>1, <1>2, <1>3, <1>4, JoinInOrder
<1>6. Precedes((s \o l) \o batch, queue) BY <1>1, <1>2, <1>3, <1>4, JoinPrecedes
<1>7. Increasing(((s \o l) \o batch) \o queue)
  BY <1>1, <1>2, <1>5, <1>6, JoinInOrder
<1> QED BY <1>7 DEF s, l, TrailInOrder

\* Nothing is before or after the empty stretch.
LEMMA LeaveOut ==
  ASSUME NEW s, NEW l, NEW b, NEW q, NEW n, Ordered(s, l, b, q, n)
  PROVE  /\ Ordered(<<>>, l, b, q, n) /\ Ordered(s, l, <<>>, q, n) /\ Ordered(s, l, b, <<>>, n)
         /\ Ordered(l, <<>>, b, q, n)
BY DEF Ordered, Increasing, Precedes, UpTo

LEMMA OneMore == \A n \in Nat : \A i \in 1..(n + 1) : i \in 1..n \/ i = n + 1
OBVIOUS

\* A call of Record is later than all of them.
LEMMA RecordIsLast ==
  ASSUME NEW s \in Seq(Nat), NEW l \in Seq(Nat), NEW b \in Seq(Nat), NEW q \in Seq(Nat),
         NEW n \in Nat, Ordered(s, l, b, q, n)
  PROVE  Ordered(s, l, b, q, n + 1) /\ Ordered(s, l, b, Append(q, n + 1), n + 1)
<1> DEFINE r == Append(q, n + 1)
<1>1. /\ DOMAIN r = 1..(Len(q) + 1) /\ Len(q) \in Nat /\ DOMAIN q = 1..Len(q)
      /\ \A i \in 1..Len(q) : r[i] = q[i]
      /\ r[Len(q) + 1] = n + 1
  OBVIOUS
<1> HIDE DEF r
<1>2. ASSUME NEW u \in Seq(Nat), UpTo(u, n) PROVE UpTo(u, n + 1)
  <2>1. \A i \in DOMAIN u : u[i] \in Nat OBVIOUS
  <2> QED BY <1>2, <2>1 DEF UpTo
<1>3. ASSUME NEW u \in Seq(Nat), UpTo(u, n), Precedes(u, q) PROVE Precedes(u, r)
  <2>1. \A i \in DOMAIN u : u[i] \in Nat OBVIOUS
  <2>2. \A i \in DOMAIN u : u[i] < n + 1 BY <1>3, <2>1 DEF UpTo
  <2>3. ASSUME NEW i \in DOMAIN u, NEW j \in DOMAIN r PROVE u[i] < r[j]
    <3>1. CASE j \in 1..Len(q) BY <1>1, <1>3, <3>1 DEF Precedes
    <3>2. CASE j = Len(q) + 1 BY <1>1, <2>2, <3>2
    <3> QED BY <1>1, <3>1, <3>2
  <2> QED BY <2>3 DEF Precedes
<1>4. Increasing(r)
  <2>1. UpTo(q, n) /\ Increasing(q) BY DEF Ordered
  <2>2. ASSUME NEW i \in 1..Len(q) PROVE q[i] < n + 1
    <3>1. q[i] \in Nat OBVIOUS
    <3>2. q[i] <= n BY <1>1, <2>1 DEF UpTo
    <3> QED BY <3>1, <3>2
  <2>3. ASSUME NEW i \in DOMAIN r, NEW j \in DOMAIN r, i < j PROVE r[i] < r[j]
    <3>1. i \in 1..Len(q) BY <1>1, <2>3
    <3>2. CASE j \in 1..Len(q) BY <1>1, <2>1, <2>3, <3>1, <3>2 DEF Increasing
    <3>3. CASE j = Len(q) + 1 BY <1>1, <2>2, <3>1, <3>3
    <3> QED BY <1>1, <3>2, <3>3
  <2> QED BY <2>3 DEF Increasing
<1>5. UpTo(r, n + 1)
  <2>1. UpTo(q, n + 1) BY <1>2 DEF Ordered
  <2>2. ASSUME NEW i \in DOMAIN r PROVE r[i] <= n + 1
    <3>1. CASE i \in 1..Len(q)
      <4>1. q[i] <= n + 1 BY <1>1, <2>1, <3>1 DEF UpTo
      <4> QED BY <1>1, <3>1, <4>1
    <3>2. CASE i = Len(q) + 1
      <4>1. r[i] = n + 1 BY <1>1, <3>2
      <4> QED BY <4>1
    <3>3. i \in 1..Len(q) \/ i = Len(q) + 1 BY <1>1, OneMore
    <3> QED BY <3>1, <3>2, <3>3
  <2> QED BY <2>2 DEF UpTo
<1> QED BY <1>2, <1>3, <1>4, <1>5 DEF Ordered, r

\* The head of the queue becomes the last of the batch.
LEMMA HeadMoves ==
  ASSUME NEW s \in Seq(Nat), NEW l \in Seq(Nat), NEW b \in Seq(Nat), NEW q \in Seq(Nat),
         NEW n \in Nat, Ordered(s, l, b, q, n), q # <<>>
  PROVE  Ordered(s, l, Append(b, Head(q)), Tail(q), n)
<1> DEFINE c == Append(b, Head(q))
           r == Tail(q)
<1>1. /\ DOMAIN c = 1..(Len(b) + 1) /\ Len(b) \in Nat /\ DOMAIN b = 1..Len(b)
      /\ \A i \in 1..Len(b) : c[i] = b[i]
      /\ c[Len(b) + 1] = q[1]
      /\ Len(q) \in Nat /\ DOMAIN q = 1..Len(q) /\ 1 \in 1..Len(q)
      /\ DOMAIN r = 1..(Len(q) - 1)
      /\ \A i \in 1..(Len(q) - 1) : i + 1 \in 1..Len(q) /\ r[i] = q[i + 1]
  OBVIOUS
<1> HIDE DEF c, r
<1>2. ASSUME NEW u, Precedes(u, q) PROVE Precedes(u, r)
  BY <1>1, <1>2 DEF Precedes
<1>3. ASSUME NEW u, Precedes(u, b), Precedes(u, q) PROVE Precedes(u, c)
  <2>1. ASSUME NEW i \in DOMAIN u, NEW j \in DOMAIN c PROVE u[i] < c[j]
    <3>1. CASE j \in 1..Len(b) BY <1>1, <1>3, <3>1 DEF Precedes
    <3>2. CASE j = Len(b) + 1 BY <1>1, <1>3, <3>2 DEF Precedes
    <3> QED BY <1>1, <3>1, <3>2
  <2> QED BY <2>1 DEF Precedes
<1>4. Increasing(c)
  <2>1. Increasing(b) /\ Precedes(b, q) BY DEF Ordered
  <2>2. ASSUME NEW i \in DOMAIN c, NEW j \in DOMAIN c, i < j PROVE c[i] < c[j]
    <3>1. i \in 1..Len(b) BY <1>1, <2>2
    <3>2. CASE j \in 1..Len(b) BY <1>1, <2>1, <2>2, <3>1, <3>2 DEF Increasing
    <3>3. CASE j = Len(b) + 1 BY <1>1, <2>1, <3>1, <3>3 DEF Precedes
    <3> QED BY <1>1, <3>2, <3>3
  <2> QED BY <2>2 DEF Increasing
<1>5. Increasing(r)
  <2>1. Increasing(q) BY DEF Ordered
  <2>2. ASSUME NEW i \in DOMAIN r, NEW j \in DOMAIN r, i < j PROVE r[i] < r[j]
    <3>1. i + 1 \in DOMAIN q /\ j + 1 \in DOMAIN q
      <4>1. i \in 1..(Len(q) - 1) /\ j \in 1..(Len(q) - 1) BY <1>1
      <4> QED BY <1>1, <4>1
    <3>2. i + 1 < j + 1 BY <1>1, <2>2
    <3>3. q[i + 1] < q[j + 1] BY <2>1, <3>1, <3>2 DEF Increasing
    <3> QED BY <1>1, <3>3
  <2> QED BY <2>2 DEF Increasing
<1>6. Precedes(c, r)
  <2>1. Increasing(q) /\ Precedes(b, r) BY <1>2 DEF Ordered
  <2>2. ASSUME NEW i \in DOMAIN c, NEW j \in DOMAIN r PROVE c[i] < r[j]
    <3>1. CASE i \in 1..Len(b)
      <4>1. b[i] < r[j] BY <1>1, <2>1, <3>1 DEF Precedes
      <4> QED BY <1>1, <3>1, <4>1
    <3>2. CASE i = Len(b) + 1
      <4>1. j + 1 \in DOMAIN q /\ 1 \in DOMAIN q /\ 1 < j + 1 BY <1>1
      <4>2. q[1] < q[j + 1] BY <2>1, <4>1 DEF Increasing
      <4>3. c[i] = q[1] BY <1>1, <3>2
      <4>4. r[j] = q[j + 1] BY <1>1
      <4> QED BY <4>2, <4>3, <4>4
    <3>3. i \in 1..Len(b) \/ i = Len(b) + 1 BY <1>1, OneMore
    <3> QED BY <3>1, <3>2, <3>3
  <2> QED BY <2>2 DEF Precedes
<1>7. UpTo(c, n) /\ UpTo(r, n)
  <2>1. UpTo(b, n) /\ UpTo(q, n) BY DEF Ordered
  <2>2. ASSUME NEW i \in DOMAIN c PROVE c[i] <= n
    <3>1. CASE i \in 1..Len(b)
      <4>1. b[i] <= n BY <1>1, <2>1, <3>1 DEF UpTo
      <4> QED BY <1>1, <3>1, <4>1
    <3>2. CASE i = Len(b) + 1
      <4>1. q[1] <= n BY <1>1, <2>1 DEF UpTo
      <4> QED BY <1>1, <3>2, <4>1
    <3>3. i \in 1..Len(b) \/ i = Len(b) + 1 BY <1>1, OneMore
    <3> QED BY <3>1, <3>2, <3>3
  <2>3. ASSUME NEW i \in DOMAIN r PROVE r[i] <= n
    <3>1. r[i] = q[i + 1] /\ i + 1 \in DOMAIN q BY <1>1
    <3>2. q[i + 1] <= n BY <2>1, <3>1 DEF UpTo
    <3> QED BY <3>1, <3>2
  <2> QED BY <2>2, <2>3 DEF UpTo
<1> QED BY <1>2, <1>3, <1>4, <1>5, <1>6, <1>7 DEF Ordered, c, r

\* A piece of the batch, from its beginning or from its second event, goes to the file.
LEMMA PieceMoves ==
  ASSUME NEW s, NEW l \in Seq(Nat), NEW b \in Seq(Nat), NEW q,
         NEW n \in Nat, Ordered(s, l, b, q, n),
         NEW m \in {0, 1}, NEW f \in Seq(Nat), Len(f) >= Len(l),
         \A i \in 1..Len(l) : f[i] = l[i],
         \A i \in (Len(l) + 1)..Len(f) :
           i - Len(l) + m \in 1..Len(b) /\ f[i] = b[i - Len(l) + m]
  PROVE  Ordered(s, f, <<>>, q, n)
<1>1. /\ DOMAIN f = 1..Len(f) /\ Len(f) \in Nat
      /\ DOMAIN l = 1..Len(l) /\ Len(l) \in Nat
      /\ DOMAIN b = 1..Len(b) /\ Len(b) \in Nat
  OBVIOUS
<1>2. \A i \in DOMAIN f : i \in DOMAIN l \/ i \in (Len(l) + 1)..Len(f) BY <1>1
<1>3. ASSUME NEW u, Precedes(u, l), Precedes(u, b) PROVE Precedes(u, f)
  BY <1>1, <1>2, <1>3 DEF Precedes
<1>4. ASSUME NEW u, Precedes(l, u), Precedes(b, u) PROVE Precedes(f, u)
  BY <1>1, <1>2, <1>4 DEF Precedes
<1>5. UpTo(f, n)
  <2>1. UpTo(l, n) /\ UpTo(b, n) BY DEF Ordered
  <2> QED BY <1>1, <1>2, <2>1 DEF UpTo
<1>6. Increasing(f)
  <2>1. Increasing(l) /\ Increasing(b) /\ Precedes(l, b) BY DEF Ordered
  <2>2. ASSUME NEW i \in DOMAIN f, NEW j \in DOMAIN f, i < j PROVE f[i] < f[j]
    <3>1. CASE j \in 1..Len(l)
      <4>1. i \in 1..Len(l) BY <1>1, <2>2, <3>1
      <4>2. l[i] < l[j] BY <1>1, <2>1, <2>2, <3>1, <4>1 DEF Increasing
      <4> QED BY <3>1, <4>1, <4>2
    <3>2. CASE i \in 1..Len(l) /\ j \in (Len(l) + 1)..Len(f)
      <4>1. l[i] < b[j - Len(l) + m] BY <1>1, <2>1, <3>2 DEF Precedes
      <4> QED BY <3>2, <4>1
    <3>3. CASE i \in (Len(l) + 1)..Len(f)
      <4>1. j \in (Len(l) + 1)..Len(f) BY <1>1, <2>2, <3>3
      <4>2. i - Len(l) + m < j - Len(l) + m BY <1>1, <2>2, <3>3, <4>1
      <4>3. b[i - Len(l) + m] < b[j - Len(l) + m]
        BY <1>1, <2>1, <3>3, <4>1, <4>2 DEF Increasing
      <4> QED BY <3>3, <4>1, <4>3
    <3> QED BY <1>1, <1>2, <3>1, <3>2, <3>3
  <2> QED BY <2>2 DEF Increasing
<1>7. Ordered(s, l, <<>>, q, n) BY LeaveOut
<1>8. Precedes(f, <<>>) BY DEF Precedes
<1> QED BY <1>3, <1>4, <1>5, <1>6, <1>7, <1>8 DEF Ordered

\* Neither is the order of a stretch that loses its last event.
LEMMA LastLeaves ==
  ASSUME NEW s, NEW l \in Seq(Nat), NEW b, NEW q, NEW n, Ordered(s, l, b, q, n), l # <<>>
  PROVE  Ordered(s, SubSeq(l, 1, Len(l) - 1), b, q, n)
<1> DEFINE r == SubSeq(l, 1, Len(l) - 1)
<1>1. \A i \in DOMAIN r : i \in DOMAIN l /\ r[i] = l[i] OBVIOUS
<1> HIDE DEF r
<1>2. Increasing(r) BY <1>1 DEF Ordered, Increasing
<1>3. Precedes(s, r) /\ Precedes(r, b) /\ Precedes(r, q) /\ UpTo(r, n)
  BY <1>1 DEF Ordered, Precedes, UpTo
<1> QED BY <1>2, <1>3 DEF Ordered, r

\* What Persist adds to the file is a piece of the batch, from its beginning or,
\* behind a line without a newline, from its second event.
LEMMA PersistOrder ==
  ASSUME TypeOK, NEW b \in Seq(Nat), NEW k \in 0..Fits(b), NEW cut \in Ends,
         cut # "whole" => k < Fits(b), Persist(b, k, cut), NEW q, NEW n \in Nat,
         Ordered(Ids(shipping), Ids(live), b, q, n)
  PROVE  Ordered(Ids(shipping), Ids(live'), <<>>, q, n)
<1>0. PICK kept \in Seq(Line), m1 \in {1, 2}, u \in 0..Fits(b) : Shape(b, kept, m1, u)
  BY PersistShape
<1> DEFINE m == m1 - 1
           s == LinesOf(b, pending)
           p == SubSeq(s, m + 1, u)
           f == Ids(live')
           l == Ids(kept)
<1>1. u \in 0..Len(b) /\ m \in {0, 1} /\ Len(b) \in Nat
  <2>1. Fits(b) \in 0..Len(b) BY FitsType
  <2> QED BY <2>1
<1>2. s \in Seq(Line) /\ Len(s) = Len(b) BY LinesType DEF TypeOK
<1>3. \A i \in 1..Len(b) : s[i].id = b[i] BY DEF LinesOf
<1>4. live' = kept \o p
  <2>1. m1 = m + 1 OBVIOUS
  <2> QED BY <1>0, <2>1 DEF Shape
<1>13. live \in Seq(Line) /\ (tail = "bare" => live # <<>>) BY DEF TypeOK
<1>12. Ordered(Ids(shipping), l, b, q, n)
  <2>1. CASE kept = live BY <2>1
  <2>2. CASE live # <<>> /\ kept = SubSeq(live, 1, Len(live) - 1)
    <3>1. Ids(live) \in Seq(Nat) /\ Len(Ids(live)) = Len(live) BY <1>13, IdsType
    <3>2. Ids(live) # <<>> BY <1>13, <2>2, <3>1
    <3>3. Ids(kept) = SubSeq(Ids(live), 1, Len(Ids(live)) - 1)
      <4>1. /\ Len(live) \in Nat \ {0} /\ DOMAIN live = 1..Len(live)
            /\ kept = [i \in 1..(Len(live) - 1) |-> live[i]]
        BY <1>13, <2>2
      <4>2. Ids(kept) = [i \in 1..(Len(live) - 1) |-> live[i].id]
        BY <4>1 DEF Ids
      <4>3. SubSeq(Ids(live), 1, Len(live) - 1) = [i \in 1..(Len(live) - 1) |-> Ids(live)[i]]
        BY <3>1, <4>1
      <4>4. \A i \in 1..(Len(live) - 1) : Ids(live)[i] = live[i].id
        BY <4>1 DEF Ids
      <4> QED BY <3>1, <4>2, <4>3, <4>4
    <3> QED BY <3>1, <3>2, <3>3, LastLeaves
  <2> QED BY <1>0, <1>13, <2>1, <2>2 DEF Shape
<1> HIDE DEF s, m
<1>5. /\ p \in Seq(Line) /\ Len(p) \in Nat
      /\ \A i \in 1..Len(p) : i + m \in 1..Len(b) /\ p[i] = s[i + m]
  <2>1. p \in Seq(Line) /\ Len(p) \in Nat BY <1>1, <1>2
  <2>2. CASE m = 0
    <3>1. Len(p) = u /\ \A i \in 1..u : p[i] = s[i] BY <1>1, <1>2, <2>2
    <3> QED BY <1>1, <2>1, <2>2, <3>1
  <2>3. CASE m = 1
    <3>1. /\ Len(p) = IF u >= 2 THEN u - 1 ELSE 0
          /\ \A i \in 1..(u - 1) : p[i] = s[i + 1]
      BY <1>1, <1>2, <2>3
    <3> QED BY <1>1, <2>1, <2>3, <3>1
  <2> QED BY <1>1, <2>1, <2>2, <2>3
<1> HIDE DEF p
<1>6. kept \in Seq(Line) /\ Len(kept) \in Nat OBVIOUS
<1>7. /\ live' \in Seq(Line) /\ Len(live') = Len(kept) + Len(p)
      /\ \A i \in 1..Len(kept) : live'[i] = kept[i]
      /\ \A i \in (Len(kept) + 1)..Len(live') : live'[i] = p[i - Len(kept)]
  BY <1>4, <1>5, <1>6
<1>8. /\ f \in Seq(Nat) /\ Len(f) = Len(live') /\ l \in Seq(Nat) /\ Len(l) = Len(kept)
      /\ \A i \in 1..Len(live') : f[i] = live'[i].id
      /\ \A i \in 1..Len(kept) : l[i] = kept[i].id
  <2>1. /\ f \in Seq(Nat) /\ Len(f) = Len(live') /\ l \in Seq(Nat) /\ Len(l) = Len(kept)
    BY <1>6, <1>7, IdsType
  <2> QED BY <1>6, <1>7, <2>1 DEF Ids
<1> HIDE DEF f, l
<1>9. Len(f) >= Len(l) /\ \A i \in 1..Len(l) : f[i] = l[i]
  <2>1. Len(f) >= Len(l) BY <1>5, <1>6, <1>7, <1>8
  <2>2. ASSUME NEW i \in 1..Len(l) PROVE f[i] = l[i]
    <3>1. i \in 1..Len(kept) /\ i \in 1..Len(live') BY <1>5, <1>6, <1>7, <1>8
    <3> QED BY <1>7, <1>8, <3>1
  <2> QED BY <2>1, <2>2
<1>10. ASSUME NEW i \in (Len(l) + 1)..Len(f)
       PROVE  i - Len(l) + m \in 1..Len(b) /\ f[i] = b[i - Len(l) + m]
  <2>1. /\ i - Len(kept) \in 1..Len(p) /\ i \in 1..Len(live')
        /\ i \in (Len(kept) + 1)..Len(live')
    BY <1>5, <1>6, <1>7, <1>8, <1>10
  <2>2. f[i] = p[i - Len(kept)].id BY <1>7, <1>8, <2>1
  <2>3. i - Len(kept) + m \in 1..Len(b) /\ p[i - Len(kept)] = s[i - Len(kept) + m]
    BY <1>5, <2>1
  <2>4. s[i - Len(kept) + m].id = b[i - Len(kept) + m] BY <1>3, <2>3
  <2> QED BY <1>8, <2>2, <2>3, <2>4
<1>11. Ordered(Ids(shipping), f, <<>>, q, n)
  BY <1>1, <1>8, <1>9, <1>10, <1>12, PieceMoves
<1> QED BY <1>11 DEF f

\* A flush, whatever fails in it, leaves the trail in order without the batch.
LEMMA FlushOrder ==
  ASSUME TypeOK, NEW b \in Seq(Nat), Flush(b), NEW q, NEW n \in Nat,
         Ordered(Ids(shipping), Ids(live), b, q, n)
  PROVE  Ordered(Ids(shipping'), Ids(live'), <<>>, q, n)
<1>1. ASSUME NEW m \in 0..Fits(b), NEW k \in 0..m, NEW cut \in Ends,
             cut # "whole" => k < Fits(b), WriteBatch(b, m, k, cut)
      PROVE  Ordered(Ids(shipping'), Ids(live'), <<>>, q, n)
  <2>1. k \in 0..Fits(b)
    <3>1. Fits(b) \in 0..Len(b) BY FitsType
    <3> QED BY <3>1
  <2>2. Persist(b, k, cut) /\ shipping' = shipping BY <1>1 DEF WriteBatch, Persist
  <2>3. Ordered(Ids(shipping), Ids(live'), <<>>, q, n) BY <1>1, <2>1, <2>2, PersistOrder
  <2> QED BY <2>2, <2>3
<1>2. CASE WriteBatch(b, Fits(b), Fits(b), "whole")
  <2>1. Fits(b) \in 0..Fits(b) /\ "whole" \in Ends
    <3>1. Fits(b) \in 0..Len(b) BY FitsType
    <3> QED BY <3>1 DEF Ends
  <2> QED BY <1>1, <1>2, <2>1
<1>3. CASE SkipBatch(b)
  <2>1. shipping' = shipping /\ live' = live BY <1>3 DEF SkipBatch, disk
  <2>2. Ordered(Ids(shipping), Ids(live), <<>>, q, n) BY LeaveOut
  <2> QED BY <2>1, <2>2
<1> QED BY <1>1, <1>2, <1>3 DEF Flush

\* The writer's three actions, and the crash in the middle of any of them.
LEMMA WriterOrder == TypeOK /\ OrderInv /\ (Take \/ Tick \/ Stop) => OrderInv'
<1> SUFFICES ASSUME TypeOK, OrderInv, Take \/ Tick \/ Stop PROVE OrderInv'
  OBVIOUS
<1>1. /\ recorded \in Nat /\ batch \in Seq(Nat) /\ queue \in Seq(Nat)
      /\ live \in Seq(Line) /\ shipping \in Seq(Line)
      /\ Ordered(Ids(shipping), Ids(live), batch, queue, recorded)
  BY DEF TypeOK, OrderInv
<1>2. CASE Take
  <2> DEFINE b == Append(batch, Head(queue))
  <2>1. queue # <<>> /\ queue' = Tail(queue) /\ recorded' = recorded BY <1>2 DEF Take
  <2>2. b \in Seq(Nat) BY <1>1, <2>1
  <2>3. Ordered(Ids(shipping), Ids(live), b, Tail(queue), recorded)
    <3>1. Ids(shipping) \in Seq(Nat) /\ Ids(live) \in Seq(Nat) BY <1>1, IdsType
    <3> QED BY <1>1, <2>1, <3>1, HeadMoves
  <2> HIDE DEF b
  <2>4. CASE batch' = b /\ UNCHANGED disk BY <2>1, <2>3, <2>4 DEF OrderInv, disk
  <2>5. CASE batch' = <<>> /\ Flush(b)
    <3>1. Ordered(Ids(shipping'), Ids(live'), <<>>, Tail(queue), recorded)
      BY <1>1, <2>2, <2>3, <2>5, FlushOrder
    <3> QED BY <2>1, <2>5, <3>1 DEF OrderInv
  <2> QED BY <1>2, <2>4, <2>5 DEF Take, b
<1>3. CASE Tick
  <2>1. batch' = <<>> /\ Flush(batch) /\ queue' = queue /\ recorded' = recorded
    BY <1>3 DEF Tick
  <2>2. Ordered(Ids(shipping'), Ids(live'), <<>>, queue, recorded)
    BY <1>1, <2>1, FlushOrder
  <2> QED BY <2>1, <2>2 DEF OrderInv
<1>4. CASE Stop
  <2>1. batch' = <<>> /\ queue' = queue /\ recorded' = recorded BY <1>4 DEF Stop
  <2>2. CASE UNCHANGED disk BY <1>1, <2>1, <2>2, LeaveOut DEF OrderInv, disk
  <2>3. CASE Flush(batch)
    <3>1. Ordered(Ids(shipping'), Ids(live'), <<>>, queue, recorded)
      BY <1>1, <2>3, FlushOrder
    <3> QED BY <2>1, <3>1 DEF OrderInv
  <2> QED BY <1>4, <2>2, <2>3 DEF Stop
<1> QED BY <1>2, <1>3, <1>4

LEMMA CrashOrder == TypeOK /\ OrderInv /\ Crash => OrderInv'
<1> SUFFICES ASSUME TypeOK, OrderInv, Crash PROVE OrderInv'
  OBVIOUS
<1>1. /\ recorded \in Nat /\ batch \in Seq(Nat) /\ queue \in Seq(Nat)
      /\ live \in Seq(Line) /\ shipping \in Seq(Line)
      /\ Ordered(Ids(shipping), Ids(live), batch, queue, recorded)
  BY DEF TypeOK, OrderInv
<1>2. queue' = <<>> /\ batch' = <<>> /\ recorded' = recorded BY DEF Crash
<1>3. CASE UNCHANGED disk
  <2>1. Ordered(Ids(shipping), Ids(live), <<>>, queue, recorded) BY <1>1, LeaveOut
  <2>2. Ordered(Ids(shipping), Ids(live), <<>>, <<>>, recorded) BY <2>1, LeaveOut
  <2> QED BY <1>2, <1>3, <2>2 DEF OrderInv, disk
<1>4. ASSUME NEW b \in Appendable, NEW k \in 0..Fits(b), NEW cut \in Ends,
             cut # "whole" => k < Fits(b), Persist(b, k, cut)
      PROVE  OrderInv'
  <2>1. PICK q : b \in Seq(Nat) /\ Ordered(Ids(shipping), Ids(live), b, q, recorded)
    <3>1. CASE b = batch BY <1>1, <3>1
    <3>2. CASE queue # <<>> /\ b = Append(batch, Head(queue))
      <4>1. b \in Seq(Nat) BY <1>1, <3>2
      <4>2. Ids(shipping) \in Seq(Nat) /\ Ids(live) \in Seq(Nat) BY <1>1, IdsType
      <4>3. Ordered(Ids(shipping), Ids(live), b, Tail(queue), recorded)
        BY <1>1, <3>2, <4>2, HeadMoves
      <4> QED BY <4>1, <4>3
    <3> QED BY <3>1, <3>2 DEF Appendable
  <2>2. Ordered(Ids(shipping), Ids(live'), <<>>, q, recorded)
    BY <1>1, <1>4, <2>1, PersistOrder
  <2>3. Ordered(Ids(shipping), Ids(live'), <<>>, <<>>, recorded) BY <2>2, LeaveOut
  <2>4. shipping' = shipping BY <1>4 DEF Persist
  <2> QED BY <1>2, <2>3, <2>4 DEF OrderInv
<1> QED BY <1>3, <1>4 DEF Crash

LEMMA OtherOrder ==
  TypeOK /\ OrderInv /\ (Record \/ Close \/ SeeDone \/ DrainRotate \/ DrainUnreadable
                           \/ DrainShip \/ DrainRemove \/ Restart \/ UNCHANGED vars)
    => OrderInv'
<1> SUFFICES ASSUME TypeOK, OrderInv,
                    Record \/ Close \/ SeeDone \/ DrainRotate \/ DrainUnreadable
                      \/ DrainShip \/ DrainRemove \/ Restart \/ UNCHANGED vars
             PROVE  OrderInv'
  OBVIOUS
<1>1. /\ recorded \in Nat /\ batch \in Seq(Nat) /\ queue \in Seq(Nat)
      /\ live \in Seq(Line) /\ shipping \in Seq(Line)
      /\ Ordered(Ids(shipping), Ids(live), batch, queue, recorded)
  BY DEF TypeOK, OrderInv
<1>2. Ids(<<>>) = <<>> BY DEF Ids
<1>3. CASE Record
  <2>1. /\ recorded' = recorded + 1
        /\ batch' = batch /\ live' = live /\ shipping' = shipping
        /\ queue' = queue \/ queue' = Append(queue, recorded + 1)
    BY <1>3 DEF Record, disk
  <2>2. Ids(shipping) \in Seq(Nat) /\ Ids(live) \in Seq(Nat) BY <1>1, IdsType
  <2>3. /\ Ordered(Ids(shipping), Ids(live), batch, queue, recorded + 1)
        /\ Ordered(Ids(shipping), Ids(live), batch, Append(queue, recorded + 1), recorded + 1)
    BY <1>1, <2>2, RecordIsLast
  <2> QED BY <2>1, <2>3 DEF OrderInv
<1>4. CASE DrainRotate
  <2>1. batch' = batch /\ queue' = queue /\ recorded' = recorded
    BY <1>4 DEF DrainRotate, memory, ghosts
  <2>2. CASE UNCHANGED disk BY <1>1, <2>1, <2>2 DEF OrderInv, disk
  <2>3. CASE shipping' = live /\ live' = <<>>
    <3>1. Ordered(Ids(live), <<>>, batch, queue, recorded) BY <1>1, LeaveOut
    <3> QED BY <1>2, <2>1, <2>3, <3>1 DEF OrderInv
  <2> QED BY <1>4, <2>2, <2>3 DEF DrainRotate
<1>5. CASE DrainRemove
  <2>1. /\ batch' = batch /\ queue' = queue /\ recorded' = recorded /\ live' = live
        /\ shipping' = <<>> \/ shipping' = shipping
    BY <1>5 DEF DrainRemove, NoFile, memory, ghosts
  <2>2. Ordered(<<>>, Ids(live), batch, queue, recorded) BY <1>1, LeaveOut
  <2> QED BY <1>1, <1>2, <2>1, <2>2 DEF OrderInv
<1>6. CASE Close \/ SeeDone \/ DrainUnreadable \/ DrainShip \/ Restart \/ UNCHANGED vars
  <2>1. UNCHANGED <<shipping, live, batch, queue, recorded>>
    BY <1>6 DEF Close, SeeDone, DrainUnreadable, DrainShip, Restart, vars, memory, disk, ghosts
  <2> QED BY <1>1, <2>1 DEF OrderInv
<1> QED BY <1>3, <1>4, <1>5, <1>6

\* Across batches, failed flushes, rotations, crashes and restarts the sidecar, the
\* file, the batch and the queue hold the events in the order of Record (run, append,
\* Drain).
THEOREM TrailIsInOrder == Spec => []TrailInOrder
<1>1. Init => OrderInv
  <2> SUFFICES ASSUME Init PROVE OrderInv
    OBVIOUS
  <2>1. Ids(shipping) = <<>> /\ Ids(live) = <<>> /\ batch = <<>> /\ queue = <<>>
    BY DEF Init, NoFile, Ids
  <2> QED BY <2>1 DEF OrderInv, Ordered, Increasing, Precedes, UpTo
<1>2. TypeOK /\ OrderInv /\ [Next]_vars => OrderInv'
  BY WriterOrder, CrashOrder, OtherOrder DEF Next
<1>3. SpoolInv => TypeOK
  BY DEF SpoolInv
<1>4. TypeOK /\ OrderInv => TrailInOrder
  BY OrderIsTrail
<1> QED BY <1>1, <1>2, <1>3, <1>4, SpoolInvariant, PTL DEF Spec

-----------------------------------------------------------------------------
\* A readable event, the one whose line lacks its newline excepted, is taken off the disk
\* by no step: not by a flush, not by a crash in one, not by
\* the rename, and by the removal of the sidecar only when the receiver holds it.
THEOREM ReadableEventsStay == Spec => ReadableStays
<1>1. ASSUME SpoolInv, [Next]_vars PROVE \A e \in OnDisk \ Bare : e \in OnDisk' \/ e \in shipped
  <2>1. TypeOK /\ GapNeverOverstated /\ RemoveAcked BY <1>1 DEF SpoolInv
  <2>2. batch \in Seq(Nat) /\ queue \in Seq(Nat) BY <2>1 DEF TypeOK
  <2>3. ASSUME shipping' = shipping, IdsOf(live) \ Bare \subseteq IdsOf(live')
        PROVE  \A e \in OnDisk \ Bare : e \in OnDisk'
    BY <2>3 DEF OnDisk, IdsOf
  <2>4. ASSUME NEW b \in Seq(Nat), Flush(b) PROVE \A e \in OnDisk \ Bare : e \in OnDisk'
    <3>1. FlushOK(b) BY <2>1, <2>4, FlushStep
    <3> QED BY <2>3, <3>1 DEF FlushOK
  <2>5. ASSUME UNCHANGED disk PROVE \A e \in OnDisk \ Bare : e \in OnDisk'
    BY <2>3, <2>5 DEF disk
  <2>6. queue # <<>> => Append(batch, Head(queue)) \in Seq(Nat) BY <2>2
  <2>7. CASE Take BY <2>4, <2>5, <2>6, <2>7 DEF Take, disk
  <2>8. CASE Tick BY <2>2, <2>4, <2>8 DEF Tick
  <2>9. CASE Stop BY <2>2, <2>4, <2>5, <2>9 DEF Stop, disk
  <2>10. CASE DrainRotate
    <3>1. CASE UNCHANGED disk BY <2>5, <3>1
    <3>2. CASE shipping = <<>> /\ shipping' = live
      <4>1. IdsOf(shipping) = {} BY <3>2 DEF IdsOf
      <4>2. IdsOf(shipping') = IdsOf(live) BY <3>2
      <4> QED BY <4>1, <4>2 DEF OnDisk
    <3> QED BY <2>10, <3>1, <3>2 DEF DrainRotate, NoFile
  <2>11. CASE DrainRemove
    <3>1. IdsOf(shipping) \subseteq shipped BY <2>1, <2>11 DEF DrainRemove, RemoveAcked
    <3>2. live' = live BY <2>11 DEF DrainRemove
    <3>3. IdsOf(live') = IdsOf(live) BY <3>2
    <3> QED BY <3>1, <3>3 DEF OnDisk
  <2>12. CASE Crash
    <3>1. ASSUME NEW b \in Appendable, NEW k \in 0..Fits(b), NEW cut \in Ends,
                 cut # "whole" => k < Fits(b), Persist(b, k, cut)
          PROVE  \A e \in OnDisk \ Bare : e \in OnDisk'
      <4>1. b \in Seq(Nat) BY <2>2, <2>6 DEF Appendable
      <4>2. shipping' = shipping /\ IdsOf(live) \ Bare \subseteq IdsOf(live')
        BY <2>1, <3>1, <4>1, PersistStep
      <4> QED BY <2>3, <4>2
    <3> QED BY <2>5, <2>12, <3>1 DEF Crash
  <2>13. CASE Record \/ Close \/ SeeDone \/ DrainUnreadable \/ DrainShip \/ Restart \/ UNCHANGED vars
    <3>1. shipping' = shipping /\ live' = live
      BY <2>13 DEF Record, Close, SeeDone, DrainUnreadable, DrainShip, Restart, vars, disk
    <3> QED BY <2>3, <3>1
  <2> QED BY <1>1, <2>7, <2>8, <2>9, <2>10, <2>11, <2>12, <2>13 DEF Next
<1>2. SpoolInv /\ [Next]_vars => [\A e \in OnDisk \ Bare : e \in OnDisk' \/ e \in shipped]_vars
  BY <1>1
<1> QED BY <1>2, SpoolInvariant, PTL DEF Spec, ReadableStays

-----------------------------------------------------------------------------
(* The telemetry: what is where, and the inductive invariant.              *)

Event == {e \in [id : Nat, w : Workload, level : Level, conf : Level] :
            e.level # 0 => e.conf = e.level}
Batch == Seq(Event) \ {<<>>}
Handler == [s : Sessions, batch : Batch]
Stage == {"free", "waiting", "admitted", "refused", "approved", "serving"}
Table == [Workload -> Level]

\* The reports on a session, those its server is applying, and all that left the client.
Sent(s)   == UNION {Range(b) : b \in Range(wire[s])}
Handled   == UNION {Range(h.batch) : h \in Range(work)}
Away      == Handled \cup UNION {Sent(s) : s \in Sessions}
AtHome    == Range(todo) \cup Range(backlog)
Reports   == AtHome \cup Away

Sorted(q) == \A i, j \in DOMAIN q : i < j => q[i].id < q[j].id
Later(S, T) == \A e \in S, f \in T : e.id < f.id

TypedInv ==
  /\ server \in {"collector", "control plane"}
  /\ {host, entries, reported, rows, snapshot.rows} \subseteq Table
  /\ \A w \in Workload : reported[w] = 0 <=> entries[w] = 0
  /\ applied \in [Workload -> Nat] /\ emitted \in Nat
  /\ todo \in Seq(Event) /\ backlog \in Seq(Event) /\ Len(backlog) <= MaxQueueSize
  /\ wire \in [Sessions -> Seq(Batch)] /\ work \in Seq(Handler)
  /\ session \in [Sessions -> Stage]
  /\ {conn, held} \subseteq Sessions \cup {0}

\* Who is connected, served and held.
SessionInv ==
  /\ conn # 0 => session[conn] # "free"
  /\ \A s \in Sessions : wire[s] # <<>> => session[s] = "serving"
  /\ server = "collector" => \A h \in Range(work) : session[h.s] = "serving"
  /\ PendingIsOpen

\* Whatever is still in the client is in order, and younger than what left it.
QueueInv ==
  /\ Sorted(todo) /\ Sorted(backlog) /\ Later(Range(backlog), Range(todo))
  /\ Later(Away, AtHome)
  /\ \A w \in Workload : applied[w] <= emitted /\ \A e \in AtHome : applied[w] < e.id
  /\ \A e \in Reports : e.id <= emitted

\* S is younger than whatever was applied and whatever other connections still carry.
Youngest(S) ==
  /\ \A w \in Workload, e \in S : applied[w] < e.id
  /\ \A s \in Sessions \ {conn} : Later(Sent(s), S)

\* What is under way on the client's own connection is in order and the youngest.
WireInv == conn # 0 =>
  /\ \A i \in DOMAIN wire[conn] : Sorted(wire[conn][i])
  /\ \A i, j \in DOMAIN wire[conn] : i < j => Later(Range(wire[conn][i]), Range(wire[conn][j]))
  /\ Youngest(Sent(conn)) /\ Later(Handled, Sent(conn))

\* The collector applies one batch of a connection at a time.
DeskInv == server = "collector" /\ conn # 0 =>
  \A i \in DOMAIN work : work[i].s = conn =>
    /\ Sorted(work[i].batch) /\ Youngest(Range(work[i].batch))
    /\ \A k \in DOMAIN work \ {i} :
         work[k].s # conn /\ Later(Range(work[k].batch), Range(work[i].batch))

\* n numbers the latest report there is of w: it is applied or under way.
Latest(w, n) ==
  /\ applied[w] <= n
  /\ \A e \in Reports : e.w = w => e.id <= n /\ (e.id = n => e.level = reported[w])
  /\ \/ n = applied[w] /\ (reported[w] # 0 \/ server = "collector" => rows[w] = reported[w])
     \/ \E e \in Reports : e.w = w /\ e.id = n
LatestInv == ~lost /\ ~overtaken => \A w \in Workload : \E n \in 0..emitted : Latest(w, n)

TelemetryInv == TypedInv /\ SessionInv /\ QueueInv /\ WireInv /\ DeskInv /\ LatestInv

-----------------------------------------------------------------------------
(* What the operations on sequences do to their elements and their order.  *)

LEMMA RangeType ==
  ASSUME NEW S, NEW q \in Seq(S)
  PROVE  Range(q) \subseteq S /\ (Range(q) = {} <=> q = <<>>)
         /\ DOMAIN q = 1..Len(q) /\ Len(q) \in Nat
<1>1. DOMAIN q = 1..Len(q) /\ Len(q) \in Nat /\ \A i \in 1..Len(q) : q[i] \in S OBVIOUS
<1>2. Range(q) \subseteq S BY <1>1 DEF Range
<1>3. q # <<>> => Range(q) # {}
  <2>1. q # <<>> => 1 \in DOMAIN q OBVIOUS
  <2> QED BY <2>1 DEF Range
<1>4. q = <<>> => Range(q) = {} BY DEF Range
<1> QED BY <1>1, <1>2, <1>3, <1>4

LEMMA TailMoves ==
  ASSUME NEW S, NEW q \in Seq(S), q # <<>>
  PROVE  /\ Head(q) \in S /\ Tail(q) \in Seq(S) /\ Len(Tail(q)) = Len(q) - 1
         /\ \A i \in 1..(Len(q) - 1) : Tail(q)[i] = q[i + 1]
         /\ Head(q) = q[1] /\ 1 \in DOMAIN q
         /\ Range(q) = {Head(q)} \cup Range(Tail(q))
<1>1. /\ Head(q) \in S /\ Tail(q) \in Seq(S) /\ Len(Tail(q)) = Len(q) - 1
      /\ \A i \in 1..(Len(q) - 1) : Tail(q)[i] = q[i + 1]
      /\ Head(q) = q[1] /\ Len(q) \in Nat \ {0}
      /\ DOMAIN q = 1..Len(q) /\ DOMAIN Tail(q) = 1..(Len(q) - 1)
  OBVIOUS
<1>2. ASSUME NEW x \in Range(q) PROVE x \in {Head(q)} \cup Range(Tail(q))
  <2>1. PICK i \in 1..Len(q) : q[i] = x BY <1>1 DEF Range
  <2>2. CASE i = 1 BY <1>1, <2>1, <2>2
  <2>3. CASE i # 1
    <3>1. i - 1 \in 1..(Len(q) - 1) /\ Tail(q)[i - 1] = x BY <1>1, <2>1, <2>3
    <3> QED BY <1>1, <3>1 DEF Range
  <2> QED BY <2>2, <2>3
<1>3. Range(Tail(q)) \subseteq Range(q)
  <2>1. ASSUME NEW i \in 1..(Len(q) - 1) PROVE Tail(q)[i] \in Range(q)
    <3>1. i + 1 \in DOMAIN q /\ Tail(q)[i] = q[i + 1] BY <1>1
    <3> QED BY <3>1 DEF Range
  <2> QED BY <1>1, <2>1 DEF Range
<1>4. Head(q) \in Range(q) /\ 1 \in DOMAIN q BY <1>1 DEF Range
<1> QED BY <1>1, <1>2, <1>3, <1>4

LEMMA AppendMoves ==
  ASSUME NEW S, NEW q \in Seq(S), NEW x \in S
  PROVE  /\ Append(q, x) \in Seq(S) /\ Append(q, x) # <<>> /\ Len(Append(q, x)) = Len(q) + 1
         /\ \A i \in 1..Len(q) : Append(q, x)[i] = q[i]
         /\ Append(q, x)[Len(q) + 1] = x
         /\ Range(Append(q, x)) = Range(q) \cup {x}
<1>1. /\ Append(q, x) \in Seq(S) /\ Append(q, x) # <<>> /\ Len(Append(q, x)) = Len(q) + 1
      /\ \A i \in 1..Len(q) : Append(q, x)[i] = q[i]
      /\ Append(q, x)[Len(q) + 1] = x /\ Len(q) \in Nat
      /\ DOMAIN q = 1..Len(q) /\ DOMAIN Append(q, x) = 1..(Len(q) + 1)
  OBVIOUS
<1>2. 1..(Len(q) + 1) = 1..Len(q) \cup {Len(q) + 1} BY <1>1
<1> QED BY <1>1, <1>2 DEF Range

LEMMA Offsets ==
  ASSUME NEW l \in Nat, NEW n \in 0..l
  PROVE  /\ (IF n + 1 <= l THEN l - (n + 1) + 1 ELSE 0) = l - n
         /\ l - (n + 1) + 1 = l - n
         /\ \A i \in 1..(l - n) : (n + 1) + i - 1 = n + i
OBVIOUS

LEMMA CutMoves ==
  ASSUME NEW S, NEW q \in Seq(S), NEW n \in 0..Len(q)
  PROVE  /\ SubSeq(q, 1, n) \in Seq(S) /\ Len(SubSeq(q, 1, n)) = n
         /\ \A i \in 1..n : SubSeq(q, 1, n)[i] = q[i]
         /\ SubSeq(q, n + 1, Len(q)) \in Seq(S)
         /\ Len(SubSeq(q, n + 1, Len(q))) = Len(q) - n
         /\ \A i \in 1..(Len(q) - n) : SubSeq(q, n + 1, Len(q))[i] = q[n + i]
         /\ Range(q) = Range(SubSeq(q, 1, n)) \cup Range(SubSeq(q, n + 1, Len(q)))
<1> DEFINE a == SubSeq(q, 1, n)
           b == SubSeq(q, n + 1, Len(q))
<1>1. /\ Len(q) \in Nat /\ n \in Nat /\ n <= Len(q) /\ DOMAIN q = 1..Len(q)
  OBVIOUS
<1>2. a \in Seq(S) /\ Len(a) = n /\ DOMAIN a = 1..n /\ \A i \in 1..n : a[i] = q[i]
  BY <1>1
<1>3. /\ b \in Seq(S) /\ Len(b) = Len(q) - n /\ DOMAIN b = 1..(Len(q) - n)
      /\ \A i \in 1..(Len(q) - n) : b[i] = q[n + i]
  <2>1. n + 1 \in Int /\ Len(q) \in Int /\ \A i \in (n + 1)..Len(q) : q[i] \in S BY <1>1
  <2>2. /\ b \in Seq(S) /\ Len(b) = IF n + 1 <= Len(q) THEN Len(q) - (n + 1) + 1 ELSE 0
        /\ \A i \in 1..(Len(q) - (n + 1) + 1) : b[i] = q[(n + 1) + i - 1]
    BY <2>1, SubSeqProperties
  <2> HIDE DEF a, b
  <2>3. /\ (IF n + 1 <= Len(q) THEN Len(q) - (n + 1) + 1 ELSE 0) = Len(q) - n
        /\ Len(q) - (n + 1) + 1 = Len(q) - n
        /\ \A i \in 1..(Len(q) - n) : (n + 1) + i - 1 = n + i
    BY <1>1, Offsets
  <2>4. Len(b) = Len(q) - n BY <2>2, <2>3
  <2>5. ASSUME NEW i \in 1..(Len(q) - n) PROVE b[i] = q[n + i] BY <2>2, <2>3, Zenon
  <2>6. DOMAIN b = 1..(Len(q) - n) BY <2>2, <2>4
  <2> QED BY <2>2, <2>4, <2>5, <2>6
<1> HIDE DEF a, b
<1>4. ASSUME NEW x \in Range(q) PROVE x \in Range(a) \cup Range(b)
  <2>1. PICK i \in 1..Len(q) : q[i] = x BY <1>1 DEF Range
  <2>2. CASE i <= n
    <3>1. i \in DOMAIN a /\ a[i] = x BY <1>1, <1>2, <2>1, <2>2
    <3> QED BY <3>1 DEF Range
  <2>3. CASE i > n
    <3>1. i - n \in DOMAIN b /\ b[i - n] = x BY <1>1, <1>3, <2>1, <2>3
    <3> QED BY <3>1 DEF Range
  <2> QED BY <1>1, <2>2, <2>3
<1>5. Range(a) \subseteq Range(q)
  <2>1. \A i \in DOMAIN a : i \in DOMAIN q /\ a[i] = q[i] BY <1>1, <1>2
  <2> QED BY <2>1 DEF Range
<1>6. Range(b) \subseteq Range(q)
  <2>1. \A i \in DOMAIN b : n + i \in DOMAIN q /\ b[i] = q[n + i] BY <1>1, <1>3
  <2> QED BY <2>1 DEF Range
<1> QED BY <1>2, <1>3, <1>4, <1>5, <1>6 DEF a, b

\* What is in front of position i stays where it is, what is behind it moves up.
Was(i, k) == IF k < i THEN k ELSE k + 1

LEMMA RemoveMoves ==
  ASSUME NEW S, NEW q \in Seq(S), NEW i \in DOMAIN q
  PROVE  /\ RemoveAt(q, i) \in Seq(S) /\ Len(RemoveAt(q, i)) = Len(q) - 1
         /\ \A k \in 1..(Len(q) - 1) : RemoveAt(q, i)[k] = q[Was(i, k)]
         /\ Range(q) = {q[i]} \cup Range(RemoveAt(q, i))
<1> DEFINE a == SubSeq(q, 1, i - 1)
           b == SubSeq(q, i + 1, Len(q))
           r == RemoveAt(q, i)
<1>1. i \in 1..Len(q) /\ Len(q) \in Nat /\ DOMAIN q = 1..Len(q) OBVIOUS
<1>2. a \in Seq(S) /\ Len(a) = i - 1 /\ \A k \in 1..(i - 1) : a[k] = q[k] BY <1>1
<1>3. b \in Seq(S) /\ Len(b) = Len(q) - i /\ \A k \in 1..(Len(q) - i) : b[k] = q[i + k] BY <1>1
<1>4. r = a \o b BY DEF RemoveAt
<1> HIDE DEF a, b, r
<1>5. r \in Seq(S) /\ Len(r) = Len(q) - 1
  <2>1. r \in Seq(S) /\ Len(r) = Len(a) + Len(b) BY <1>2, <1>3, <1>4, ConcatProperties
  <2> QED BY <1>1, <1>2, <1>3, <2>1
<1>6. ASSUME NEW k \in 1..(Len(q) - 1) PROVE r[k] = q[Was(i, k)]
  <2>1. CASE k < i BY <1>1, <1>2, <1>3, <1>4, <2>1 DEF Was
  <2>2. CASE k >= i
    <3>1. k - (i - 1) \in 1..(Len(q) - i) BY <1>1, <2>2
    <3>2. r[k] = b[k - (i - 1)] BY <1>1, <1>2, <1>3, <1>4, <2>2
    <3>3. b[k - (i - 1)] = q[i + (k - (i - 1))] BY <1>3, <3>1
    <3> QED BY <1>1, <2>2, <3>2, <3>3 DEF Was
  <2> QED BY <1>1, <2>1, <2>2
<1>7. Range(r) \subseteq Range(q)
  <2>1. ASSUME NEW k \in 1..(Len(q) - 1) PROVE r[k] \in Range(q)
    <3>1. Was(i, k) \in DOMAIN q BY <1>1 DEF Was
    <3> QED BY <1>6, <3>1 DEF Range
  <2> QED BY <1>1, <1>5, <2>1 DEF Range
<1>8. ASSUME NEW x \in Range(q) PROVE x \in {q[i]} \cup Range(r)
  <2>1. PICK j \in 1..Len(q) : q[j] = x BY <1>1 DEF Range
  <2>2. CASE j = i BY <2>1, <2>2
  <2>3. CASE j < i
    <3>1. j \in 1..(Len(q) - 1) /\ Was(i, j) = j BY <1>1, <2>3 DEF Was
    <3>2. j \in DOMAIN r /\ r[j] = x BY <1>5, <1>6, <2>1, <3>1
    <3> QED BY <3>2 DEF Range
  <2>4. CASE j > i
    <3>1. j - 1 \in 1..(Len(q) - 1) /\ Was(i, j - 1) = j BY <1>1, <2>4 DEF Was
    <3>2. j - 1 \in DOMAIN r /\ r[j - 1] = x BY <1>5, <1>6, <2>1, <3>1
    <3> QED BY <3>2 DEF Range
  <2> QED BY <1>1, <2>2, <2>3, <2>4
<1>9. q[i] \in Range(q) BY DEF Range
<1> QED BY <1>5, <1>6, <1>7, <1>8, <1>9 DEF r

LEMMA SortedTail ==
  ASSUME NEW q \in Seq(Event), q # <<>>, Sorted(q)
  PROVE  Sorted(Tail(q)) /\ Later({Head(q)}, Range(Tail(q)))
<1>1. /\ DOMAIN q = 1..Len(q) /\ Len(q) \in Nat \ {0} /\ DOMAIN Tail(q) = 1..(Len(q) - 1)
      /\ Head(q) = q[1] /\ \A i \in 1..(Len(q) - 1) : Tail(q)[i] = q[i + 1]
  BY TailMoves
<1>2. \A i \in 1..(Len(q) - 1) : i + 1 \in 1..Len(q) /\ 1 < i + 1 BY <1>1
<1>3. Later({Head(q)}, Range(Tail(q))) BY <1>1, <1>2 DEF Later, Sorted, Range
<1>4. Sorted(Tail(q)) BY <1>1, <1>2 DEF Sorted
<1> QED BY <1>3, <1>4

LEMMA SortedAppend ==
  ASSUME NEW q \in Seq(Event), NEW e \in Event, Sorted(q), Later(Range(q), {e})
  PROVE  Sorted(Append(q, e))
<1>1. /\ DOMAIN q = 1..Len(q) /\ Len(q) \in Nat /\ DOMAIN Append(q, e) = 1..(Len(q) + 1)
      /\ \A i \in 1..Len(q) : Append(q, e)[i] = q[i]
      /\ Append(q, e)[Len(q) + 1] = e
  BY AppendMoves
<1>2. ASSUME NEW i \in 1..(Len(q) + 1), NEW j \in 1..(Len(q) + 1), i < j
      PROVE  Append(q, e)[i].id < Append(q, e)[j].id
  <2>1. i \in 1..Len(q) BY <1>1, <1>2
  <2>2. CASE j \in 1..Len(q) BY <1>1, <1>2, <2>1, <2>2 DEF Sorted
  <2>3. CASE j = Len(q) + 1
    <3>1. q[i] \in Range(q) BY <1>1, <2>1 DEF Range
    <3> QED BY <1>1, <2>1, <2>3, <3>1 DEF Later
  <2> QED BY <1>1, <2>2, <2>3
<1> QED BY <1>1, <1>2 DEF Sorted

LEMMA SortedCut ==
  ASSUME NEW q \in Seq(Event), NEW n \in 0..Len(q), Sorted(q)
  PROVE  /\ Sorted(SubSeq(q, 1, n)) /\ Sorted(SubSeq(q, n + 1, Len(q)))
         /\ Later(Range(SubSeq(q, 1, n)), Range(SubSeq(q, n + 1, Len(q))))
<1> DEFINE a == SubSeq(q, 1, n)
           b == SubSeq(q, n + 1, Len(q))
<1>1. /\ DOMAIN q = 1..Len(q) /\ Len(q) \in Nat /\ n \in Nat /\ n <= Len(q)
      /\ a \in Seq(Event) /\ Len(a) = n /\ DOMAIN a = 1..n
      /\ b \in Seq(Event) /\ Len(b) = Len(q) - n /\ DOMAIN b = 1..(Len(q) - n)
      /\ \A i \in 1..n : a[i] = q[i]
      /\ \A i \in 1..(Len(q) - n) : b[i] = q[n + i]
  BY CutMoves
<1> HIDE DEF a, b
<1>2. Sorted(a) BY <1>1 DEF Sorted
<1>3. Sorted(b)
  <2>1. ASSUME NEW i \in 1..(Len(q) - n), NEW j \in 1..(Len(q) - n), i < j
        PROVE  b[i].id < b[j].id
    <3>1. n + i \in 1..Len(q) /\ n + j \in 1..Len(q) /\ n + i < n + j BY <1>1, <2>1
    <3>2. q[n + i].id < q[n + j].id BY <1>1, <3>1 DEF Sorted
    <3> QED BY <1>1, <3>2
  <2> QED BY <1>1, <2>1 DEF Sorted
<1>4. Later(Range(a), Range(b))
  <2>1. ASSUME NEW i \in 1..n, NEW j \in 1..(Len(q) - n) PROVE a[i].id < b[j].id
    <3>1. i \in 1..Len(q) /\ n + j \in 1..Len(q) /\ i < n + j BY <1>1
    <3>2. q[i].id < q[n + j].id BY <1>1, <3>1 DEF Sorted
    <3> QED BY <1>1, <3>2
  <2> QED BY <1>1, <2>1 DEF Later, Range
<1> QED BY <1>2, <1>3, <1>4 DEF a, b

-----------------------------------------------------------------------------
(* Where the reports are.                                                  *)

LEMMA ReportsTyped ==
  ASSUME TypedInv
  PROVE  /\ Reports \subseteq Event /\ \A s \in Sessions : Sent(s) \subseteq Away
         /\ Handled \subseteq Away /\ Away \subseteq Reports /\ AtHome \subseteq Reports
         /\ Range(todo) \subseteq AtHome /\ Range(backlog) \subseteq AtHome
         /\ \A s \in Sessions : wire[s] \in Seq(Batch)
         /\ \A h \in Range(work) : h.s \in Sessions /\ h.batch \in Batch
<1>1. AtHome \subseteq Event
  <2>1. todo \in Seq(Event) /\ backlog \in Seq(Event) BY DEF TypedInv
  <2> QED BY <2>1, RangeType DEF AtHome
<1>2. ASSUME NEW s \in Sessions PROVE wire[s] \in Seq(Batch) /\ Sent(s) \subseteq Event
  <2>1. wire[s] \in Seq(Batch) BY DEF TypedInv
  <2>2. \A b \in Range(wire[s]) : b \in Seq(Event) BY <2>1, RangeType DEF Batch
  <2>3. \A b \in Range(wire[s]) : Range(b) \subseteq Event BY <2>2, RangeType
  <2> QED BY <2>1, <2>3 DEF Sent
<1>3. \A h \in Range(work) : h.s \in Sessions /\ h.batch \in Batch
  <2>1. work \in Seq(Handler) BY DEF TypedInv
  <2>2. Range(work) \subseteq Handler BY <2>1, RangeType
  <2> QED BY <2>2 DEF Handler
<1>4. Handled \subseteq Event
  <2>1. \A h \in Range(work) : h.batch \in Seq(Event) BY <1>3 DEF Batch
  <2>2. \A h \in Range(work) : Range(h.batch) \subseteq Event BY <2>1, RangeType
  <2> QED BY <2>2 DEF Handled
<1> QED BY <1>1, <1>2, <1>3, <1>4 DEF Reports, Away, AtHome

LEMMA SameReports ==
  ASSUME UNCHANGED <<wire, work>>
  PROVE  /\ Handled' = Handled /\ Away' = Away /\ \A s \in Sessions : Sent(s)' = Sent(s)
         /\ (UNCHANGED <<todo, backlog>> => AtHome' = AtHome /\ Reports' = Reports)
BY DEF Handled, Away, Sent, AtHome, Reports

\* A client that has no connection has nothing under way on it.
LEMMA LinkGone == conn' = 0 => WireInv' /\ DeskInv'
BY DEF WireInv, DeskInv

LEMMA OrderStays ==
  ASSUME TelemetryInv, conn' \in {0, conn}, UNCHANGED <<server, wire, work, applied>>
  PROVE  WireInv' /\ DeskInv'
<1>1. CASE conn' = 0 BY <1>1, LinkGone
<1>2. CASE conn' = conn
  <2>1. \A S : Youngest(S)' <=> Youngest(S) BY <1>2, SameReports DEF Youngest
  <2>2. WireInv' BY <1>2, <2>1, SameReports DEF TelemetryInv, WireInv, Youngest, Sent, Handled
  <2>3. DeskInv' BY <1>2, <2>1 DEF TelemetryInv, DeskInv, Youngest, Sent
  <2> QED BY <2>2, <2>3
<1> QED BY <1>1, <1>2

\* Reports that go away, or are applied, leave the others where they were.
LEMMA QueueStays ==
  ASSUME TelemetryInv, UNCHANGED <<todo, backlog, emitted>>, Away' \subseteq Away,
         \A w \in Workload : applied'[w] \in {applied[w]} \cup {e.id : e \in Away}
  PROVE  QueueInv'
<1>1. AtHome' = AtHome /\ Reports' \subseteq Reports BY DEF AtHome, Reports
<1>2. Later(Away', AtHome') BY <1>1 DEF TelemetryInv, QueueInv, Later
<1>3. \A e \in Reports' : e.id <= emitted' BY <1>1 DEF TelemetryInv, QueueInv
<1>4. ASSUME NEW w \in Workload
      PROVE  applied'[w] <= emitted' /\ \A e \in AtHome' : applied'[w] < e.id
  <2>1. CASE applied'[w] = applied[w] BY <1>1, <2>1 DEF TelemetryInv, QueueInv
  <2>2. CASE \E d \in Away : applied'[w] = d.id
    BY <1>1, <2>2 DEF TelemetryInv, QueueInv, Later, Reports
  <2> QED BY <2>1, <2>2
<1> QED BY <1>2, <1>3, <1>4 DEF TelemetryInv, QueueInv

LEMMA LatestStays ==
  ASSUME TelemetryInv, UNCHANGED <<server, applied, reported, emitted, overtaken>>,
         ~lost' => ~lost /\ Reports' = Reports /\ rows' = rows
  PROVE  LatestInv'
BY DEF TelemetryInv, LatestInv, Latest

-----------------------------------------------------------------------------
(* Connections, decisions, the host and the snapshot.                      *)

Rest == QueueInv /\ WireInv /\ DeskInv /\ LatestInv

LEMMA NoReportMoves ==
  ASSUME TelemetryInv, conn' \in {0, conn},
         UNCHANGED <<server, todo, backlog, emitted, wire, work, reported, rows, applied,
                     overtaken, lost>>
  PROVE  Rest'
<1>1. Away' = Away /\ Reports' = Reports BY SameReports
<1>2. QueueInv' BY <1>1, QueueStays
<1>3. LatestInv' BY <1>1, LatestStays
<1> QED BY <1>2, <1>3, OrderStays DEF Rest

LEMMA HostKeeps ==
  ASSUME TelemetryInv, HostChanges \/ Grant \/ Snapshot
  PROVE  TelemetryInv'
<1>1. UNCHANGED <<server, todo, backlog, emitted, wire, work, entries, reported, rows,
                  applied, overtaken, lost, link, held>>
  BY DEF HostChanges, Grant, Snapshot, sensor, link, desk, view
<1>2. Rest' BY <1>1, NoReportMoves DEF link
<1>3. {host, rows, snapshot.rows}' \subseteq Table
  <2>1. {host, rows, snapshot.rows} \subseteq Table BY DEF TelemetryInv, TypedInv
  <2>2. CASE HostChanges
    <3>1. PICK w \in Workload, l \in Level : host' = [host EXCEPT ![w] = l]
      BY <2>2 DEF HostChanges
    <3>2. host' \in Table BY <2>1, <3>1 DEF Table
    <3> QED BY <2>1, <2>2, <3>2 DEF HostChanges, view
  <2>3. CASE Grant BY <2>1, <2>3 DEF Grant, view
  <2>4. CASE Snapshot BY <2>1, <2>4 DEF Snapshot, sensor
  <2> QED BY <2>2, <2>3, <2>4
<1>4. TypedInv' BY <1>1, <1>3 DEF TelemetryInv, TypedInv, link
<1>5. SessionInv' BY <1>1 DEF TelemetryInv, SessionInv, PendingIsOpen, link
<1> QED BY <1>2, <1>4, <1>5 DEF TelemetryInv, Rest

LEMMA OperatorKeeps ==
  ASSUME TelemetryInv, Operator
  PROVE  TelemetryInv'
<1>1. UNCHANGED <<server, sensor, backlog, link, view, lost, held>>
  BY DEF Operator, LookUp, SendDecision
<1>2. Rest' BY <1>1, NoReportMoves DEF sensor, link, view
<1>3. TypedInv' /\ SessionInv'
  BY <1>1 DEF TelemetryInv, TypedInv, SessionInv, PendingIsOpen, sensor, link, view
<1> QED BY <1>2, <1>3 DEF TelemetryInv, Rest

\* A session that goes on in awaitApproval, or past it, has nothing under way: it is not
\* served before, and whoever is served stays so.
LEMMA StageKeeps ==
  ASSUME TelemetryInv, NEW s \in Sessions, NEW to \in Stage,
         session[s] # "serving", session' = [session EXCEPT ![s] = to],
         conn' \in {0, conn}, conn' = s => to # "free",
         held' = 0 \/ (held' = held /\ (held = s => to \in Awaiting)),
         UNCHANGED <<server, sensor, backlog, wire, work, rows, snapshot, applied, overtaken,
                     lost>>
  PROVE  TelemetryInv'
<1> USE TelemetryAssumption
<1>1. Rest' BY NoReportMoves DEF sensor
<1>2. TypedInv' BY DEF TelemetryInv, TypedInv, sensor
<1>3. \A t \in Sessions : session'[t] = IF t = s THEN to ELSE session[t]
  BY DEF TelemetryInv, TypedInv
<1>4. \A t \in Sessions : session[t] = "serving" => session'[t] = "serving" BY <1>3
<1>5. conn' # 0 => session'[conn'] # "free"
  BY <1>3 DEF TelemetryInv, TypedInv, SessionInv
<1>6. server = "collector" => \A h \in Range(work) : session'[h.s] = "serving"
  BY <1>4, ReportsTyped DEF TelemetryInv, SessionInv
<1>7. PendingIsOpen' BY <1>3 DEF TelemetryInv, TypedInv, SessionInv, PendingIsOpen
<1>8. SessionInv' BY <1>4, <1>5, <1>6, <1>7 DEF TelemetryInv, SessionInv
<1> QED BY <1>1, <1>2, <1>8 DEF TelemetryInv, Rest

LEMMA ApprovalKeeps ==
  ASSUME TelemetryInv, NEW s \in Sessions,
         Admit(s) \/ TurnAway(s) \/ ApprovalTimeout(s) \/ Told(s) \/ Release(s) \/ Enrol(s)
  PROVE  TelemetryInv'
<1> USE DEF Stage, Awaiting
<1>1. CASE Admit(s) \/ TurnAway(s) \/ ApprovalTimeout(s)
  <2>1. PICK to \in {"admitted", "refused"} :
          /\ session[s] = "waiting" /\ session' = [session EXCEPT ![s] = to]
          /\ UNCHANGED <<server, sensor, backlog, conn, wire, desk, view, lost>>
    BY <1>1 DEF Admit, TurnAway, ApprovalTimeout, Wake
  <2> QED BY <2>1, StageKeeps DEF desk, view
<1>2. CASE Told(s)
  <2>1. /\ conn' = 0 /\ UNCHANGED <<server, sensor, backlog, session, wire, desk, view, lost>>
    BY <1>2 DEF Told
  <2>2. Rest' BY <2>1, NoReportMoves DEF sensor, view
  <2>3. TypedInv' BY <2>1 DEF TelemetryInv, TypedInv, sensor, desk, view
  <2>4. SessionInv' BY <2>1 DEF TelemetryInv, SessionInv, PendingIsOpen, desk, view
  <2> QED BY <2>2, <2>3, <2>4 DEF TelemetryInv, Rest
<1>3. CASE Release(s)
  <2>1. PICK to \in {"approved", "free"} :
          /\ to = (IF session[s] = "admitted" THEN "approved" ELSE "free")
          /\ session[s] \in {"admitted", "refused"}
          /\ session' = [session EXCEPT ![s] = to] /\ held' = 0
          /\ conn' = IF session[s] = "refused" /\ conn = s THEN 0 ELSE conn
          /\ UNCHANGED <<server, sensor, backlog, wire, view, lost>>
    BY <1>3 DEF Release
  <2>2. conn' \in {0, conn} /\ (conn' = s => to # "free")
    BY <2>1, TelemetryAssumption
  <2> QED BY <2>1, <2>2, StageKeeps DEF view
<1>4. CASE Enrol(s)
  <2>1. /\ session[s] = "approved" /\ session' = [session EXCEPT ![s] = "serving"]
        /\ UNCHANGED <<server, sensor, backlog, conn, wire, desk, work, rows, snapshot,
                       applied, overtaken, lost>>
    BY <1>4 DEF Enrol
  <2>2. held # s
    BY <2>1, TelemetryAssumption DEF TelemetryInv, SessionInv, PendingIsOpen
  <2> QED BY <2>1, <2>2, StageKeeps DEF desk
<1> QED BY <1>1, <1>2, <1>3, <1>4

LEMMA HangupKeeps ==
  ASSUME TelemetryInv, NEW s \in Sessions, Hangup(s)
  PROVE  TelemetryInv'
<1>1. /\ session[s] = "serving" /\ conn # s /\ wire[s] = <<>> /\ Reads(s)
      /\ session' = [session EXCEPT ![s] = "free"]
      /\ UNCHANGED <<server, sensor, backlog, conn, wire, desk, view, lost>>
  BY DEF Hangup
<1>2. Rest' BY <1>1, NoReportMoves DEF sensor, view
<1>3. TypedInv' BY <1>1 DEF TelemetryInv, TypedInv, Stage, sensor, desk, view
<1>4. \A t \in Sessions : session'[t] = IF t = s THEN "free" ELSE session[t]
  BY <1>1 DEF TelemetryInv, TypedInv
<1>5. server = "collector" => \A h \in Range(work) : h.s # s
  BY <1>1 DEF Reads, Range
<1>6. server = "collector" => \A h \in Range(work) : session'[h.s] = "serving"
  BY <1>4, <1>5, ReportsTyped DEF TelemetryInv, SessionInv
<1>7. /\ conn # 0 => session'[conn] # "free"
      /\ held # 0 => session'[held] \in Awaiting
      /\ \A t \in Sessions : wire[t] # <<>> => session'[t] = "serving"
  BY <1>1, <1>4 DEF TelemetryInv, TypedInv, SessionInv, PendingIsOpen, Awaiting
<1>8. SessionInv' BY <1>1, <1>6, <1>7 DEF SessionInv, PendingIsOpen, desk, view
<1> QED BY <1>2, <1>3, <1>8 DEF TelemetryInv, Rest

\* A connection starts with nothing under way, and no handler of one before it.
LEMMA DialKeeps ==
  ASSUME TelemetryInv, Dial
  PROVE  TelemetryInv'
<1> USE TelemetryAssumption
<1>1. PICK s \in Sessions :
        /\ conn = 0 /\ session[s] = "free" /\ wire[s] = <<>> /\ conn' = s
        /\ session' = [session EXCEPT ![s] = IF known THEN "serving" ELSE "waiting"]
        /\ held' = IF known THEN held ELSE s
        /\ UNCHANGED <<server, sensor, backlog, wire, view, lost>>
  BY DEF Dial
<1>2. TypedInv' BY <1>1 DEF TelemetryInv, TypedInv, Stage, sensor, view
<1>3. \A t \in Sessions : session'[t] =
        IF t = s THEN IF known THEN "serving" ELSE "waiting" ELSE session[t]
  BY <1>1 DEF TelemetryInv, TypedInv
<1>4. server = "collector" => \A h \in Range(work) : h.s # s /\ session'[h.s] = "serving"
  BY <1>1, <1>3, ReportsTyped DEF TelemetryInv, SessionInv
<1>5. /\ session'[s] # "free" /\ (held' # 0 => session'[held'] \in Awaiting)
      /\ \A t \in Sessions : wire[t] # <<>> => session'[t] = "serving"
  BY <1>1, <1>3 DEF TelemetryInv, TypedInv, SessionInv, PendingIsOpen, Awaiting
<1>6. SessionInv' BY <1>1, <1>4, <1>5 DEF SessionInv, PendingIsOpen, view
<1>7. Away' = Away /\ Reports' = Reports BY <1>1, SameReports DEF sensor, view
<1>8. QueueInv' BY <1>1, <1>7, QueueStays DEF sensor, view
<1>9. LatestInv' BY <1>1, <1>7, LatestStays DEF sensor, view
<1>10. WireInv'
  <2>1. Sent(s)' = {} /\ DOMAIN wire'[conn'] = {} BY <1>1 DEF Sent, Range
  <2> QED BY <1>1, <2>1 DEF WireInv, Youngest, Later
<1>11. DeskInv'
  <2>1. server' = "collector" => \A i \in DOMAIN work' : work'[i].s # conn'
    BY <1>1, <1>4 DEF Range, view
  <2> QED BY <2>1 DEF DeskInv
<1> QED BY <1>2, <1>6, <1>8, <1>9, <1>10, <1>11 DEF TelemetryInv

-----------------------------------------------------------------------------
(* The poll loop.                                                          *)

\* A sequence of SetToSeqs has each element of the set, and has it once.
LEMMA EachOnce ==
  ASSUME NEW S, IsFiniteSet(S), NEW f \in SetToSeqs(S)
  PROVE  f \in Seq(S) /\ Range(f) = S /\ IsInjective(f)
<1>1. Cardinality(S) \in Nat BY FS_CardinalityType
<1>2. /\ f \in [1..Cardinality(S) -> S] /\ IsInjective(f)
  BY DEF SetToSeqs, IsInjective
<1>3. f \in Injection(1..Cardinality(S), S) BY <1>2 DEF Injection
<1>4. Cardinality(1..Cardinality(S)) = Cardinality(S) BY <1>1, FS_Interval
<1>5. f \in Surjection(1..Cardinality(S), S) BY <1>3, <1>4, FS_Injection
<1>6. Range(f) = S BY <1>2, <1>5 DEF Surjection, Range
<1>7. f \in Seq(S) BY <1>1, <1>2
<1> QED BY <1>2, <1>6, <1>7

LEMMA ReconcileOnce ==
  ASSUME NEW before \in Table, NEW now \in Table, NEW order \in Reconcile(before, now)
  PROVE  /\ order \in Seq(Workload) /\ IsInjective(order)
         /\ Range(order) = Changed(before, now)
<1>1. Changed(before, now) \subseteq Workload BY DEF Changed
<1>2. IsFiniteSet(Changed(before, now)) BY <1>1, TelemetryAssumption, FS_Subset
<1>3. order \in SetToSeqs(Changed(before, now)) BY DEF Reconcile
<1>4. /\ order \in Seq(Changed(before, now)) /\ Range(order) = Changed(before, now)
      /\ IsInjective(order)
  BY <1>2, <1>3, EachOnce
<1>5. Seq(Changed(before, now)) \subseteq Seq(Workload) BY <1>1, SeqMonotonic
<1> QED BY <1>4, <1>5

LEMMA PollKeeps ==
  ASSUME TelemetryInv, Poll
  PROVE  TelemetryInv'
<1>0. /\ {host, entries, reported} \subseteq Table /\ emitted \in Nat
      /\ applied \in [Workload -> Nat]
      /\ backlog \in Seq(Event)
  BY DEF TelemetryInv, TypedInv
<1>1. PICK order \in Reconcile(entries, host) :
        /\ todo' = [i \in DOMAIN order |->
                      [id |-> emitted + i, w |-> order[i], level |-> host[order[i]],
                       conf |-> Confidence(entries[order[i]], host[order[i]])]]
        /\ emitted' = emitted + Len(order)
  BY DEF Poll
<1>2. /\ todo = <<>> /\ entries' = host
      /\ reported' = [w \in Workload |-> IF Material(entries[w], host[w]) THEN host[w]
                                         ELSE reported[w]]
      /\ UNCHANGED <<server, host, backlog, link, desk, view, lost>>
  BY DEF Poll
<1>3. /\ order \in Seq(Workload) /\ IsInjective(order)
      /\ Range(order) = Changed(entries, host)
  BY <1>0, <1>1, ReconcileOnce
<1>4. /\ DOMAIN order = 1..Len(order) /\ Len(order) \in Nat
      /\ \A i \in 1..Len(order) : order[i] \in Workload /\ host[order[i]] \in Level
                                  /\ Confidence(entries[order[i]], host[order[i]]) \in Level
                                  /\ Material(entries[order[i]], host[order[i]])
  <2>1. DOMAIN order = 1..Len(order) /\ Len(order) \in Nat BY <1>3
  <2>2. ASSUME NEW i \in 1..Len(order)
        PROVE  order[i] \in Workload /\ Material(entries[order[i]], host[order[i]])
    <3>1. order[i] \in Changed(entries, host) BY <1>3, <2>1 DEF Range
    <3> QED BY <3>1 DEF Changed
  <2> QED BY <1>0, <2>1, <2>2 DEF Table, Confidence
<1>5. /\ DOMAIN todo' = 1..Len(order)
      /\ \A i \in 1..Len(order) : /\ todo'[i].id = emitted + i /\ todo'[i].w = order[i]
                                  /\ todo'[i].level = host[order[i]]
                                  /\ todo'[i] \in Event
  <2>1. ASSUME NEW i \in 1..Len(order)
        PROVE  todo'[i] = [id |-> emitted + i, w |-> order[i], level |-> host[order[i]],
                           conf |-> Confidence(entries[order[i]], host[order[i]])]
    BY <1>1, <1>4
  <2>2. ASSUME NEW i \in 1..Len(order)
        PROVE  /\ emitted + i \in Nat
               /\ host[order[i]] # 0
                    => Confidence(entries[order[i]], host[order[i]]) = host[order[i]]
    BY <1>0, <1>4 DEF Confidence
  <2> QED BY <1>1, <1>4, <2>1, <2>2 DEF Event
<1>6. todo' \in Seq(Event) BY <1>1, <1>4, <1>5
<1>7. \A e \in Range(todo') : /\ emitted < e.id /\ e.id <= emitted'
                              /\ \E i \in 1..Len(order) : e = todo'[i]
  <2>1. emitted' = emitted + Len(order) /\ emitted \in Nat /\ Len(order) \in Nat
    BY <1>0, <1>1, <1>4
  <2>2. ASSUME NEW i \in 1..Len(order)
        PROVE  emitted < todo'[i].id /\ todo'[i].id <= emitted'
    BY <1>5, <2>1, <2>2
  <2> QED BY <1>5, <2>2 DEF Range
<1>8. TypedInv'
  <2>1. emitted' \in Nat BY <1>0, <1>1, <1>4
  <2>2. {host, entries, reported, rows, snapshot.rows}' \subseteq Table
    BY <1>0, <1>2 DEF TelemetryInv, TypedInv, Table, view
  <2>3. ASSUME NEW w \in Workload PROVE reported'[w] = 0 <=> entries'[w] = 0
    <3>1. reported[w] = 0 <=> entries[w] = 0 BY DEF TelemetryInv, TypedInv
    <3>2. ~Material(entries[w], host[w]) => (entries[w] = 0 <=> host[w] = 0) BY DEF Material
    <3> QED BY <1>2, <3>1, <3>2
  <2> QED BY <1>2, <1>6, <2>1, <2>2, <2>3 DEF TelemetryInv, TypedInv, link, desk, view
<1>9. SessionInv'
  BY <1>2 DEF TelemetryInv, SessionInv, PendingIsOpen, link, desk, view
<1>10. WireInv' /\ DeskInv' BY <1>2, OrderStays DEF link, view
<1>11. /\ Away' = Away /\ AtHome = Range(backlog) /\ AtHome' = Range(todo') \cup AtHome
       /\ Reports' = Range(todo') \cup Reports
  BY <1>2, SameReports DEF AtHome, Reports, link, view, Range
<1>12. \A e \in Reports : e.id \in Nat /\ e.id <= emitted
  BY ReportsTyped DEF TelemetryInv, QueueInv, Event
<1>13. QueueInv'
  <2>1. Sorted(todo') BY <1>0, <1>5 DEF Sorted
  <2>2. Sorted(backlog') BY <1>2 DEF TelemetryInv, QueueInv
  <2>3. \A e \in Reports, f \in Range(todo') : e.id < f.id
    <3>1. \A f \in Range(todo') : f.id \in Nat BY <1>0, <1>5, <1>4, <1>7
    <3> QED BY <1>0, <1>7, <1>12, <3>1
  <2>4. Later(Range(backlog'), Range(todo')) BY <1>2, <1>11, <2>3 DEF Later, Reports
  <2>5. Later(Away', AtHome')
    BY <1>11, <2>3 DEF Later, Reports, TelemetryInv, QueueInv
  <2>6. \A e \in Reports' : e.id <= emitted'
    BY <1>0, <1>1, <1>4, <1>7, <1>11, <1>12
  <2>7. ASSUME NEW w \in Workload
        PROVE  applied'[w] <= emitted' /\ \A e \in AtHome' : applied'[w] < e.id
    <3>1. applied'[w] = applied[w] /\ applied[w] \in Nat /\ applied[w] <= emitted
      BY <1>0, <1>2 DEF TelemetryInv, QueueInv, view
    <3>2. \A e \in AtHome : applied[w] < e.id BY DEF TelemetryInv, QueueInv
    <3>3. \A e \in Range(todo') : applied[w] < e.id
      BY <1>0, <1>4, <1>5, <1>7, <3>1
    <3> QED BY <1>0, <1>1, <1>4, <1>11, <3>1, <3>2, <3>3
  <2> QED BY <2>1, <2>2, <2>4, <2>5, <2>6, <2>7 DEF QueueInv
<1>14. ASSUME ~lost', ~overtaken', NEW w \in Workload
       PROVE  \E n \in 0..emitted' : Latest(w, n)'
  <2>1. PICK n \in 0..emitted : Latest(w, n)
    BY <1>2, <1>14 DEF TelemetryInv, LatestInv, view
  <2>2. applied' = applied /\ rows' = rows BY <1>2 DEF view
  <2>a. reported'[w] = IF Material(entries[w], host[w]) THEN host[w] ELSE reported[w]
    BY <1>2
  <2>3. CASE ~Material(entries[w], host[w])
    <3>1. \A e \in Range(todo') : e.w # w BY <1>4, <1>5, <1>7, <2>3
    <3>2. \A e \in Reports' : e.w = w => e \in Reports BY <1>11, <3>1
    <3>3. Latest(w, n)'
      BY <1>2, <1>11, <2>1, <2>2, <2>3, <2>a, <3>2 DEF Latest
    <3> QED BY <1>0, <1>1, <1>4, <3>3
  <2>4. CASE Material(entries[w], host[w])
    <3>1. PICK i \in 1..Len(order) : order[i] = w BY <1>3, <1>4, <2>4 DEF Range, Changed
    <3>a. PICK m \in Nat : m = emitted + i BY <1>0, <1>4, <3>1
    <3>2. m \in 0..emitted' /\ applied[w] <= m
      BY <1>0, <1>1, <1>4, <3>1, <3>a DEF TelemetryInv, QueueInv
    <3>3. todo'[i] \in Range(todo') /\ todo'[i].w = w /\ todo'[i].id = m
      BY <1>5, <3>1, <3>a DEF Range
    <3>4. ASSUME NEW e \in Reports', e.w = w
          PROVE  e.id <= m /\ (e.id = m => e.level = reported'[w])
      <4>1. CASE e \in Reports BY <1>0, <1>4, <1>12, <3>a, <4>1
      <4>2. CASE e \in Range(todo')
        <5>1. PICK j \in 1..Len(order) : e = todo'[j] BY <1>7, <4>2
        <5>2. j = i BY <1>3, <1>4, <1>5, <3>1, <3>4, <5>1 DEF IsInjective
        <5> QED BY <1>0, <1>5, <2>4, <2>a, <3>1, <3>a, <5>1, <5>2
      <4> QED BY <1>11, <4>1, <4>2
    <3>5. Latest(w, m)' BY <1>11, <2>2, <3>2, <3>3, <3>4 DEF Latest
    <3> QED BY <3>2, <3>5
  <2> QED BY <2>3, <2>4
<1>15. LatestInv' BY <1>14 DEF LatestInv
<1> QED BY <1>8, <1>9, <1>10, <1>13, <1>15 DEF TelemetryInv

-----------------------------------------------------------------------------
(* The client's queue.                                                     *)

\* What is at home may only lose reports; nothing else changed.
LEMMA HomeShrinks ==
  ASSUME TelemetryInv, UNCHANGED <<wire, work, applied, emitted>>, AtHome' \subseteq AtHome,
         Sorted(todo)', Sorted(backlog)', Later(Range(backlog), Range(todo))'
  PROVE  QueueInv'
<1>1. Away' = Away /\ Reports' \subseteq Reports BY SameReports DEF Reports
<1>2. Later(Away', AtHome') BY <1>1 DEF TelemetryInv, QueueInv, Later
<1> QED BY <1>1, <1>2 DEF TelemetryInv, QueueInv

LEMMA EnqueueKeeps ==
  ASSUME TelemetryInv, Enqueue
  PROVE  TelemetryInv'
<1> DEFINE full == Len(backlog) >= MaxQueueSize
           b == IF full THEN Tail(backlog) ELSE backlog
           h == Head(todo)
<1>0. todo \in Seq(Event) /\ backlog \in Seq(Event) /\ Len(backlog) <= MaxQueueSize /\ todo # <<>>
  BY DEF TelemetryInv, TypedInv, Enqueue
<1>1. /\ backlog' = Append(b, h) /\ todo' = Tail(todo) /\ lost' = (lost \/ full)
      /\ UNCHANGED <<server, host, entries, reported, emitted, link, desk, view>>
  BY DEF Enqueue
<1>2. /\ h \in Event /\ todo' \in Seq(Event) /\ Range(todo) = {h} \cup Range(todo')
      /\ Sorted(todo') /\ Later({h}, Range(todo'))
  BY <1>0, <1>1, TailMoves, SortedTail DEF TelemetryInv, QueueInv
<1>3. /\ b \in Seq(Event) /\ Range(b) \subseteq Range(backlog) /\ Sorted(b)
      /\ Len(b) < MaxQueueSize /\ (~full => b = backlog)
  <2>1. CASE full
    <3>1. backlog # <<>> BY <1>0, <2>1, TelemetryAssumption
    <3>2. /\ Tail(backlog) \in Seq(Event) /\ Len(Tail(backlog)) = Len(backlog) - 1
          /\ Range(Tail(backlog)) \subseteq Range(backlog)
      BY <1>0, <3>1, TailMoves
    <3>3. Sorted(Tail(backlog)) BY <1>0, <3>1, SortedTail DEF TelemetryInv, QueueInv
    <3>4. Len(Tail(backlog)) < MaxQueueSize BY <1>0, <3>2, TelemetryAssumption
    <3> QED BY <2>1, <3>2, <3>3, <3>4
  <2>2. CASE ~full BY <1>0, <2>2, TelemetryAssumption DEF TelemetryInv, QueueInv
  <2> QED BY <2>1, <2>2
<1> HIDE DEF b, h, full
<1>4. /\ backlog' \in Seq(Event) /\ Len(backlog') = Len(b) + 1
      /\ Range(backlog') = Range(b) \cup {h}
  BY <1>1, <1>2, <1>3, AppendMoves
<1>5. Later(Range(backlog), Range(todo)) BY DEF TelemetryInv, QueueInv
<1>6. Sorted(backlog')
  <2>1. Later(Range(b), {h}) BY <1>2, <1>3, <1>5 DEF Later
  <2> QED BY <1>1, <1>2, <1>3, <2>1, SortedAppend
<1>7. Later(Range(backlog'), Range(todo')) BY <1>2, <1>3, <1>4, <1>5 DEF Later
<1>8. AtHome' \subseteq AtHome /\ (~full => AtHome' = AtHome)
  BY <1>2, <1>3, <1>4 DEF AtHome
<1>9. QueueInv' BY <1>1, <1>2, <1>6, <1>7, <1>8, HomeShrinks DEF link, view
<1>10. ~full => Reports' = Reports BY <1>1, <1>8, SameReports DEF Reports, link, view
<1>11. LatestInv' BY <1>1, <1>10, LatestStays DEF view
<1>12. WireInv' /\ DeskInv' BY <1>1, OrderStays DEF link, view
<1>13. Len(backlog') <= MaxQueueSize BY <1>3, <1>4, TelemetryAssumption
<1>14. TypedInv'
  BY <1>1, <1>2, <1>4, <1>13 DEF TelemetryInv, TypedInv, link, desk, view
<1>15. SessionInv'
  BY <1>1 DEF TelemetryInv, SessionInv, PendingIsOpen, link, desk, view
<1> QED BY <1>9, <1>11, <1>12, <1>14, <1>15 DEF TelemetryInv

\* A batch is drained: it is not empty, and older than what stays.
LEMMA DrainedFacts ==
  ASSUME TelemetryInv, backlog # <<>>
  PROVE  LET a == SubSeq(backlog, 1, Drained)
             b == SubSeq(backlog, Drained + 1, Len(backlog))
         IN  /\ a \in Batch /\ Sorted(a) /\ b \in Seq(Event) /\ Sorted(b)
             /\ Len(b) <= MaxQueueSize /\ Later(Range(a), Range(b))
             /\ Range(backlog) = Range(a) \cup Range(b)
<1> DEFINE a == SubSeq(backlog, 1, Drained)
           b == SubSeq(backlog, Drained + 1, Len(backlog))
<1>1. backlog \in Seq(Event) /\ Sorted(backlog) /\ Len(backlog) <= MaxQueueSize
  BY DEF TelemetryInv, TypedInv, QueueInv
<1>2. Len(backlog) \in Nat \ {0} BY <1>1
<1>3. Drained \in 0..Len(backlog) /\ Drained > 0
  BY <1>2, TelemetryAssumption DEF Drained
<1>4. /\ a \in Seq(Event) /\ Len(a) = Drained /\ b \in Seq(Event)
      /\ Len(b) = Len(backlog) - Drained /\ Range(backlog) = Range(a) \cup Range(b)
  BY <1>1, <1>3, CutMoves
<1>5. Sorted(a) /\ Sorted(b) /\ Later(Range(a), Range(b))
  BY <1>1, <1>3, SortedCut
<1> HIDE DEF a, b
<1>6. a # <<>> BY <1>3, <1>4
<1>7. Len(b) <= MaxQueueSize
  BY <1>1, <1>2, <1>3, <1>4, TelemetryAssumption
<1> QED BY <1>4, <1>5, <1>6, <1>7 DEF a, b, Batch

LEMMA FlushFailsKeeps ==
  ASSUME TelemetryInv, FlushFails
  PROVE  TelemetryInv'
<1> DEFINE a == SubSeq(backlog, 1, Drained)
           b == SubSeq(backlog, Drained + 1, Len(backlog))
<1>1. /\ backlog # <<>> /\ backlog' = b /\ lost' = TRUE /\ conn' = 0
      /\ UNCHANGED <<server, sensor, session, wire, desk, view>>
  BY DEF FlushFails
<1>2. /\ b \in Seq(Event) /\ Sorted(b) /\ Len(b) <= MaxQueueSize
      /\ Range(backlog) = Range(a) \cup Range(b)
  BY <1>1, DrainedFacts
<1> HIDE DEF a, b
<1>3. AtHome' \subseteq AtHome BY <1>1, <1>2 DEF AtHome, sensor
<1>4. Sorted(todo') /\ Later(Range(backlog'), Range(todo'))
  BY <1>1, <1>2 DEF TelemetryInv, QueueInv, Later, sensor
<1>5. QueueInv' BY <1>1, <1>2, <1>3, <1>4, HomeShrinks DEF sensor, view
<1>6. LatestInv' BY <1>1 DEF LatestInv
<1>7. WireInv' /\ DeskInv' BY <1>1, LinkGone
<1>8. TypedInv' BY <1>1, <1>2 DEF TelemetryInv, TypedInv, sensor, desk, view
<1>9. SessionInv'
  BY <1>1 DEF TelemetryInv, SessionInv, PendingIsOpen, sensor, desk, view
<1> QED BY <1>5, <1>6, <1>7, <1>8, <1>9 DEF TelemetryInv

LEMMA FlushKeeps ==
  ASSUME TelemetryInv, FlushOnce
  PROVE  TelemetryInv'
<1> USE TelemetryAssumption
<1> DEFINE a == SubSeq(backlog, 1, Drained)
           b == SubSeq(backlog, Drained + 1, Len(backlog))
<1>0. /\ conn \in Sessions /\ wire \in [Sessions -> Seq(Batch)] /\ wire[conn] \in Seq(Batch)
      /\ \A w \in Workload : applied[w] \in Nat
  BY DEF TelemetryInv, TypedInv, FlushOnce, Open
<1>1. /\ backlog # <<>> /\ session[conn] = "serving"
      /\ wire' = [wire EXCEPT ![conn] = Append(wire[conn], a)] /\ backlog' = b
      /\ UNCHANGED <<server, sensor, conn, session, desk, view, lost>>
  BY DEF FlushOnce, Open
<1>2. /\ a \in Batch /\ Sorted(a) /\ b \in Seq(Event) /\ Sorted(b)
      /\ Len(b) <= MaxQueueSize /\ Later(Range(a), Range(b))
      /\ Range(backlog) = Range(a) \cup Range(b)
  BY <1>1, DrainedFacts
<1> HIDE DEF a, b
<1>3. /\ wire'[conn] = Append(wire[conn], a)
      /\ \A s \in Sessions \ {conn} : wire'[s] = wire[s]
  BY <1>0, <1>1
<1>4. /\ wire'[conn] \in Seq(Batch) /\ Len(wire'[conn]) = Len(wire[conn]) + 1
      /\ \A i \in 1..Len(wire[conn]) : wire'[conn][i] = wire[conn][i]
      /\ wire'[conn][Len(wire[conn]) + 1] = a
      /\ Range(wire'[conn]) = Range(wire[conn]) \cup {a}
  BY <1>0, <1>2, <1>3, AppendMoves
<1>5. /\ Sent(conn)' = Sent(conn) \cup Range(a) /\ Handled' = Handled
      /\ \A s \in Sessions \ {conn} : Sent(s)' = Sent(s)
  BY <1>1, <1>3, <1>4 DEF Sent, Handled, view
<1>6. Away' = Away \cup Range(a) /\ AtHome' = Range(todo) \cup Range(b)
  BY <1>0, <1>1, <1>5 DEF Away, AtHome, sensor
<1>7. Reports' = Reports BY <1>2, <1>6 DEF Reports, AtHome
<1>8. Range(a) \subseteq AtHome /\ AtHome' \subseteq AtHome BY <1>2, <1>6 DEF AtHome
<1>9. QueueInv'
  <2>1. Later(Range(b), Range(todo)) /\ Later(Range(a), Range(todo))
    BY <1>2 DEF TelemetryInv, QueueInv, Later
  <2>2. Later(Away', AtHome')
    BY <1>2, <1>6, <1>8, <2>1 DEF TelemetryInv, QueueInv, Later
  <2> QED BY <1>1, <1>2, <1>7, <1>8, <2>1, <2>2 DEF TelemetryInv, QueueInv, sensor, view
<1>10. LatestInv' BY <1>1, <1>7, LatestStays DEF sensor, view
<1>11. Youngest(Range(a)) /\ Later(Away, Range(a))
  <2>1. Later(Away, Range(a)) BY <1>8 DEF TelemetryInv, QueueInv, Later
  <2>2. \A s \in Sessions : Later(Sent(s), Range(a)) BY <2>1 DEF Later, Away
  <2> QED BY <1>8, <2>1, <2>2 DEF TelemetryInv, QueueInv, Youngest
<1>12. WireInv'
  <2>1. WireInv /\ conn # 0 BY <1>0 DEF TelemetryInv
  <2>2. DOMAIN wire[conn] = 1..Len(wire[conn]) /\ Len(wire[conn]) \in Nat
        /\ DOMAIN wire'[conn] = 1..(Len(wire[conn]) + 1)
    BY <1>0, <1>4
  <2>3. ASSUME NEW i \in DOMAIN wire'[conn]
        PROVE  /\ Sorted(wire'[conn][i])
               /\ i \in DOMAIN wire[conn] => wire'[conn][i] = wire[conn][i]
               /\ i \notin DOMAIN wire[conn] => i = Len(wire[conn]) + 1 /\ wire'[conn][i] = a
    BY <1>2, <1>4, <2>1, <2>2 DEF WireInv
  <2>4. \A i \in DOMAIN wire[conn] : Later(Range(wire[conn][i]), Range(a))
    <3>1. \A i \in DOMAIN wire[conn] : Range(wire[conn][i]) \subseteq Away
      BY <1>0 DEF Away, Sent, Range
    <3> QED BY <1>11, <3>1 DEF Later
  <2>5. ASSUME NEW i \in DOMAIN wire'[conn], NEW j \in DOMAIN wire'[conn], i < j
        PROVE  Later(Range(wire'[conn][i]), Range(wire'[conn][j]))
    <3>1. i \in DOMAIN wire[conn] BY <2>2, <2>5
    <3>2. CASE j \in DOMAIN wire[conn] BY <2>1, <2>3, <2>5, <3>1, <3>2 DEF WireInv
    <3>3. CASE j \notin DOMAIN wire[conn] BY <2>3, <2>4, <3>1, <3>3
    <3> QED BY <3>2, <3>3
  <2>6. Youngest(Sent(conn))'
    BY <1>1, <1>5, <1>11, <2>1 DEF WireInv, Youngest, Later, view
  <2>7. Later(Handled', Sent(conn)')
    BY <1>5, <1>11, <2>1 DEF WireInv, Later, Away
  <2> QED BY <1>1, <2>3, <2>5, <2>6, <2>7 DEF WireInv
<1>13. DeskInv'
  <2>1. \A S : Youngest(S)' <=> Youngest(S) BY <1>1, <1>5 DEF Youngest, view
  <2> QED BY <1>1, <2>1 DEF TelemetryInv, DeskInv, view
<1>14. TypedInv'
  <2>1. wire' \in [Sessions -> Seq(Batch)]
    <3>1. Append(wire[conn], a) \in Seq(Batch) BY <1>3, <1>4
    <3> QED BY <1>0, <1>1, <3>1
  <2> QED BY <1>1, <1>2, <2>1 DEF TelemetryInv, TypedInv, sensor, desk, view
<1>15. SessionInv'
  <2>1. \A s \in Sessions : wire'[s] # <<>> => session[s] = "serving"
    BY <1>1, <1>3 DEF TelemetryInv, SessionInv
  <2> QED BY <1>1, <2>1 DEF TelemetryInv, SessionInv, PendingIsOpen, desk, view
<1> QED BY <1>9, <1>10, <1>12, <1>13, <1>14, <1>15 DEF TelemetryInv

-----------------------------------------------------------------------------
(* The wire, the handlers, and restarts.                                   *)

LEMMA BreakKeeps ==
  ASSUME TelemetryInv, Break
  PROVE  TelemetryInv'
<1>0. /\ conn \in Sessions /\ wire \in [Sessions -> Seq(Batch)] /\ wire[conn] \in Seq(Batch)
  BY DEF TelemetryInv, TypedInv, Break
<1>1. PICK n \in 0..Len(wire[conn]) :
        /\ wire' = [wire EXCEPT ![conn] = SubSeq(wire[conn], 1, n)]
        /\ lost' = (lost \/ n < Len(wire[conn]))
        /\ conn' = 0 /\ UNCHANGED <<server, sensor, backlog, session, desk, view>>
  BY DEF Break
<1>2. /\ wire'[conn] \in Seq(Batch) /\ Range(wire'[conn]) \subseteq Range(wire[conn])
      /\ Len(wire'[conn]) = n /\ \A i \in 1..n : wire'[conn][i] = wire[conn][i]
      /\ \A s \in Sessions \ {conn} : wire'[s] = wire[s]
  BY <1>0, <1>1, CutMoves
<1>3. n = Len(wire[conn]) => wire' = wire
  <2>1. ASSUME n = Len(wire[conn]) PROVE wire'[conn] = wire[conn]
    BY <1>0, <1>2, <2>1, SeqEqual
  <2> QED BY <1>0, <1>1, <1>2, <2>1
<1>4. \A s \in Sessions : Sent(s)' \subseteq Sent(s) BY <1>2 DEF Sent
<1>5. Away' \subseteq Away BY <1>1, <1>4 DEF Away, Handled, view
<1>6. QueueInv' BY <1>1, <1>5, QueueStays DEF sensor, view
<1>7. LatestInv'
  <2>1. ~lost' => ~lost /\ Reports' = Reports
    <3>a. Len(wire[conn]) \in Nat /\ n \in 0..Len(wire[conn]) BY <1>0
    <3>b. n < Len(wire[conn]) \/ n = Len(wire[conn]) BY <3>a
    <3>1. ~lost' => ~lost /\ n = Len(wire[conn]) BY <1>1, <3>b, Zenon
    <3> QED BY <1>1, <1>3, <3>1, SameReports DEF sensor, view
  <2> QED BY <1>1, <2>1, LatestStays DEF sensor, view
<1>8. WireInv' /\ DeskInv' BY <1>1, LinkGone
<1>9. TypedInv'
  <2>1. wire' \in [Sessions -> Seq(Batch)] BY <1>0, <1>1, <1>2
  <2> QED BY <1>1, <2>1 DEF TelemetryInv, TypedInv, sensor, desk, view
<1>10. SessionInv'
  <2>1. \A s \in Sessions : wire'[s] # <<>> => wire[s] # <<>>
    BY <1>0, <1>2
  <2> QED BY <1>1, <2>1 DEF TelemetryInv, SessionInv, PendingIsOpen, desk, view
<1> QED BY <1>6, <1>7, <1>8, <1>9, <1>10 DEF TelemetryInv

LEMMA ReceiveKeeps ==
  ASSUME TelemetryInv, NEW s \in Sessions, Receive(s)
  PROVE  TelemetryInv'
<1> USE TelemetryAssumption
<1> DEFINE a == Head(wire[s])
           h == [s |-> s, batch |-> a]
<1>0. /\ wire \in [Sessions -> Seq(Batch)] /\ wire[s] \in Seq(Batch)
      /\ work \in Seq(Handler)
  BY DEF TelemetryInv, TypedInv
<1>1. /\ session[s] = "serving" /\ wire[s] # <<>> /\ Reads(s)
      /\ work' = Append(work, h) /\ wire' = [wire EXCEPT ![s] = Tail(wire[s])]
      /\ UNCHANGED <<server, sensor, backlog, conn, session, desk, known, rows, snapshot,
                     applied, overtaken, lost>>
  BY DEF Receive
<1>2. /\ a \in Batch /\ Tail(wire[s]) \in Seq(Batch) /\ a = wire[s][1]
      /\ Len(Tail(wire[s])) = Len(wire[s]) - 1
      /\ \A i \in 1..(Len(wire[s]) - 1) : Tail(wire[s])[i] = wire[s][i + 1]
      /\ Range(wire[s]) = {a} \cup Range(Tail(wire[s]))
      /\ 1 \in DOMAIN wire[s]
  BY <1>0, <1>1, TailMoves
<1>3. h \in Handler /\ h.s = s /\ h.batch = a BY <1>2 DEF Handler
<1> HIDE DEF a, h
<1>4. /\ work' \in Seq(Handler) /\ Range(work') = Range(work) \cup {h}
      /\ Len(work') = Len(work) + 1 /\ \A i \in 1..Len(work) : work'[i] = work[i]
      /\ work'[Len(work) + 1] = h
  BY <1>0, <1>1, <1>3, AppendMoves
<1>5. wire'[s] = Tail(wire[s]) /\ \A t \in Sessions \ {s} : wire'[t] = wire[t]
  BY <1>0, <1>1
<1>6. /\ Sent(s) = Range(a) \cup Sent(s)' /\ Handled' = Handled \cup Range(a)
      /\ \A t \in Sessions \ {s} : Sent(t)' = Sent(t)
  BY <1>2, <1>3, <1>4, <1>5 DEF Sent, Handled
<1>7. Away' = Away BY <1>6 DEF Away
<1>8. Reports' = Reports BY <1>1, <1>7 DEF Reports, AtHome, sensor
<1>9. QueueInv' BY <1>1, <1>7, QueueStays DEF sensor
<1>10. LatestInv' BY <1>1, <1>8, LatestStays DEF sensor
<1>11. ASSUME NEW S, Youngest(S)
       PROVE  /\ \A w \in Workload, e \in S : applied'[w] < e.id
              /\ \A t \in Sessions \ {conn'} : Later(Sent(t)', S)
  <2>1. \A t \in Sessions : Sent(t)' \subseteq Sent(t) BY <1>6
  <2> QED BY <1>1, <1>11, <2>1 DEF Youngest, Later
<1>12. ASSUME conn = s
       PROVE  Sorted(a) /\ Youngest(Range(a)) /\ Later(Handled, Range(a)) /\ Later(Range(a), Sent(s)')
  <2>1. WireInv /\ conn # 0 BY <1>12 DEF TelemetryInv
  <2>2. Sorted(a) BY <1>2, <1>12, <2>1 DEF WireInv
  <2>3. Youngest(Range(a)) /\ Later(Handled, Range(a))
    BY <1>6, <1>12, <2>1 DEF WireInv, Youngest, Later
  <2>4. ASSUME NEW b \in Range(Tail(wire[s])) PROVE Later(Range(a), Range(b))
    <3>1. PICK i \in 1..(Len(wire[s]) - 1) : b = Tail(wire[s])[i] BY <1>2 DEF Range
    <3>2. b = wire[s][i + 1] /\ i + 1 \in DOMAIN wire[s] /\ 1 < i + 1
      BY <1>0, <1>2, <3>1
    <3> QED BY <1>2, <1>12, <2>1, <3>2 DEF WireInv
  <2>5. Later(Range(a), Sent(s)') BY <1>5, <2>4 DEF Later, Sent
  <2> QED BY <2>2, <2>3, <2>5
<1>13. WireInv'
  <2> SUFFICES ASSUME conn # 0 PROVE WireInv' BY <1>1 DEF WireInv
  <2>1. WireInv BY DEF TelemetryInv
  <2>2. Youngest(Sent(conn))'
    <3>1. Sent(conn)' \subseteq Sent(conn) BY <1>1, <1>6 DEF TelemetryInv, TypedInv
    <3>2. Youngest(Sent(conn)) BY <2>1 DEF WireInv
    <3>3. /\ \A w \in Workload, e \in Sent(conn) : applied'[w] < e.id
          /\ \A t \in Sessions \ {conn'} : Later(Sent(t)', Sent(conn))
      BY <1>11, <3>2
    <3> QED BY <3>1, <3>3 DEF Youngest, Later
  <2>3. Later(Handled', Sent(conn)')
    <3>1. CASE conn = s
      <4>1. Later(Handled, Sent(s)) /\ Later(Range(a), Sent(s)') BY <1>12, <2>1, <3>1 DEF WireInv
      <4> QED BY <1>1, <1>6, <3>1, <4>1 DEF Later
    <3>2. CASE conn # s
      <4>1. Later(Sent(s), Sent(conn)) BY <2>1, <3>2 DEF WireInv, Youngest
      <4>2. conn \in Sessions BY DEF TelemetryInv, TypedInv
      <4>3. Later(Handled, Sent(conn)) BY <2>1 DEF WireInv
      <4> QED BY <1>1, <1>6, <3>2, <4>1, <4>2, <4>3 DEF Later
    <3> QED BY <3>1, <3>2
  <2>4. /\ \A i \in DOMAIN wire'[conn] : Sorted(wire'[conn][i])
        /\ \A i, j \in DOMAIN wire'[conn] :
             i < j => Later(Range(wire'[conn][i]), Range(wire'[conn][j]))
    <3>1. CASE conn = s
      <4>1. /\ DOMAIN wire'[s] = 1..(Len(wire[s]) - 1) /\ DOMAIN wire[s] = 1..Len(wire[s])
            /\ Len(wire[s]) \in Nat
        BY <1>0, <1>2, <1>5
      <4>2. \A i \in 1..(Len(wire[s]) - 1) :
              i + 1 \in DOMAIN wire[s] /\ wire'[s][i] = wire[s][i + 1]
        BY <1>2, <1>5, <4>1
      <4>3. \A i, j \in 1..(Len(wire[s]) - 1) : i < j => i + 1 < j + 1 BY <4>1
      <4>4. \A i \in 1..(Len(wire[s]) - 1) : Sorted(wire'[s][i])
        BY <2>1, <3>1, <4>2 DEF WireInv
      <4>5. ASSUME NEW i \in 1..(Len(wire[s]) - 1), NEW j \in 1..(Len(wire[s]) - 1), i < j
            PROVE  Later(Range(wire'[s][i]), Range(wire'[s][j]))
        <5>1. Later(Range(wire[s][i + 1]), Range(wire[s][j + 1]))
          BY <2>1, <3>1, <4>2, <4>3, <4>5 DEF WireInv
        <5> QED BY <4>2, <5>1
      <4> QED BY <3>1, <4>1, <4>4, <4>5
    <3>2. CASE conn # s
      <4>1. wire'[conn] = wire[conn] BY <1>5, <3>2 DEF TelemetryInv, TypedInv
      <4> QED BY <2>1, <4>1 DEF WireInv
    <3> QED BY <3>1, <3>2
  <2> QED BY <1>1, <2>2, <2>3, <2>4 DEF WireInv
<1>14. DeskInv'
  <2> SUFFICES ASSUME server = "collector", conn # 0, NEW i \in DOMAIN work', work'[i].s = conn
               PROVE  /\ Sorted(work'[i].batch) /\ Youngest(Range(work[i].batch))'
                      /\ \A k \in DOMAIN work' \ {i} :
                           work'[k].s # conn /\ Later(Range(work'[k].batch), Range(work'[i].batch))
    BY <1>1 DEF DeskInv
  <2>1. /\ DOMAIN work = 1..Len(work) /\ DOMAIN work' = 1..(Len(work) + 1) /\ Len(work) \in Nat
    BY <1>0, <1>4
  <2>2. \A k \in DOMAIN work : work[k].s # s BY <1>1 DEF Reads
  <2>3. \A k \in DOMAIN work' : \/ k \in DOMAIN work /\ work'[k] = work[k]
                                \/ k = Len(work) + 1 /\ work'[k] = h
    BY <1>4, <2>1
  <2>4. CASE i \in DOMAIN work
    <3>1. work'[i] = work[i] BY <1>4, <2>1, <2>4
    <3>2. /\ Sorted(work[i].batch) /\ Youngest(Range(work[i].batch))
          /\ \A k \in DOMAIN work \ {i} :
               work[k].s # conn /\ Later(Range(work[k].batch), Range(work[i].batch))
      BY <2>4, <3>1 DEF TelemetryInv, DeskInv
    <3>3. conn # s BY <2>2, <2>4, <3>1
    <3>4. Later(Range(a), Range(work[i].batch))
      BY <1>6, <3>2, <3>3 DEF Youngest, Later
    <3>5. Youngest(Range(work[i].batch))'
      <4>1. /\ \A w \in Workload, e \in Range(work[i].batch) : applied'[w] < e.id
            /\ \A t \in Sessions \ {conn'} : Later(Sent(t)', Range(work[i].batch))
        BY <1>11, <3>2
      <4> QED BY <3>1, <4>1 DEF Youngest
    <3> QED BY <1>3, <2>3, <3>1, <3>2, <3>3, <3>4, <3>5
  <2>5. CASE i = Len(work) + 1
    <3>1. work'[i] = h /\ conn = s BY <1>3, <1>4, <2>5
    <3>2. \A k \in DOMAIN work : Range(work[k].batch) \subseteq Handled BY DEF Handled, Range
    <3>3. \A k \in DOMAIN work' \ {i} : k \in DOMAIN work /\ work'[k] = work[k]
      BY <2>3, <2>5
    <3>4. Youngest(Range(work[i].batch))'
      <4>1. /\ \A w \in Workload, e \in Range(a) : applied'[w] < e.id
            /\ \A t \in Sessions \ {conn'} : Later(Sent(t)', Range(a))
        BY <1>11, <1>12, <3>1
      <4> QED BY <1>3, <3>1, <4>1 DEF Youngest
    <3> QED BY <1>3, <1>12, <2>2, <3>1, <3>2, <3>3, <3>4 DEF Later
  <2> QED BY <2>1, <2>4, <2>5
<1>15. TypedInv'
  <2>1. wire' \in [Sessions -> Seq(Batch)] BY <1>0, <1>1, <1>2
  <2> QED BY <1>1, <1>4, <2>1 DEF TelemetryInv, TypedInv, sensor, desk
<1>16. SessionInv'
  <2>1. \A t \in Sessions : wire'[t] # <<>> => session[t] = "serving"
    BY <1>1, <1>5 DEF TelemetryInv, SessionInv
  <2> QED BY <1>1, <1>3, <1>4, <2>1 DEF TelemetryInv, SessionInv, PendingIsOpen, desk
<1> QED BY <1>9, <1>10, <1>13, <1>14, <1>15, <1>16 DEF TelemetryInv

\* A handler loses its first report; the others are what they were.
LEMMA WorkMoves ==
  ASSUME TypedInv, NEW i \in DOMAIN work, Apply(i)
  PROVE  /\ Head(work[i].batch) \in Event /\ work' \in Seq(Handler)
         /\ Handled = {Head(work[i].batch)} \cup Handled'
         /\ \E old \in [DOMAIN work' -> DOMAIN work] :
              /\ \A j, k \in DOMAIN work' : j # k => old[j] # old[k]
              /\ \A k \in DOMAIN work' :
                   /\ work'[k].s = work[old[k]].s
                   /\ work'[k].batch = IF old[k] = i THEN Tail(work[i].batch)
                                                     ELSE work[old[k]].batch
<1> DEFINE e == Head(work[i].batch)
           q == Tail(work[i].batch)
<1>0. /\ work \in Seq(Handler) /\ DOMAIN work = 1..Len(work) /\ Len(work) \in Nat
      /\ work[i] \in Handler /\ work[i].s \in Sessions /\ work[i].batch \in Seq(Event)
      /\ work[i].batch # <<>>
  <2>1. work \in Seq(Handler) BY DEF TypedInv
  <2>2. work[i] \in Handler /\ DOMAIN work = 1..Len(work) /\ Len(work) \in Nat BY <2>1
  <2> QED BY <2>1, <2>2 DEF Handler, Batch
<1>1. /\ e \in Event /\ q \in Seq(Event) /\ Len(q) = Len(work[i].batch) - 1
      /\ Range(work[i].batch) = {e} \cup Range(q)
  BY <1>0, TailMoves
<1>a. PICK l \in Nat : l = Len(work[i].batch) /\ l # 0 BY <1>0
<1>b. Len(q) = l - 1 /\ l # 0 BY <1>1, <1>a
<1> HIDE DEF e, q
<1>2. CASE Len(work[i].batch) > 1
  <2>1. work' = [work EXCEPT ![i].batch = q] BY <1>2 DEF Apply, q
  <2>2. q \in Batch
    <3>1. l > 1 BY <1>2, <1>a
    <3>2. Len(q) # 0 BY <1>b, <3>1
    <3>3. q # <<>> BY <3>2
    <3> QED BY <1>1, <3>3 DEF Batch
  <2>3. work' = [work EXCEPT ![i] = [work[i] EXCEPT !.batch = q]] BY <2>1
  <2>4. [work[i] EXCEPT !.batch = q] = [s |-> work[i].s, batch |-> q] BY <1>0 DEF Handler
  <2>5. [s |-> work[i].s, batch |-> q] \in Handler BY <1>0, <2>2 DEF Handler
  <2>6. /\ DOMAIN work' = DOMAIN work /\ work'[i] = [s |-> work[i].s, batch |-> q]
        /\ \A k \in DOMAIN work \ {i} : work'[k] = work[k]
    BY <1>0, <2>3, <2>4
  <2>7. work' \in Seq(Handler) BY <1>0, <2>3, <2>4, <2>5
  <2>8. Handled = {e} \cup Handled'
    <3>1. ASSUME NEW x \in Handled PROVE x \in {e} \cup Handled'
      <4>1. PICK k \in DOMAIN work : x \in Range(work[k].batch) BY DEF Handled, Range
      <4>2. CASE k = i
        <5>1. x = e \/ x \in Range(work'[i].batch) BY <1>1, <2>6, <4>1, <4>2
        <5> QED BY <2>6, <5>1 DEF Handled, Range
      <4>3. CASE k # i
        <5>1. x \in Range(work'[k].batch) BY <2>6, <4>1, <4>3
        <5> QED BY <2>6, <5>1 DEF Handled, Range
      <4> QED BY <4>2, <4>3
    <3>2. ASSUME NEW x \in Handled' PROVE x \in Handled
      <4>1. PICK k \in DOMAIN work : x \in Range(work'[k].batch) BY <2>6 DEF Handled, Range
      <4>2. Range(work'[k].batch) \subseteq Range(work[k].batch)
        <5>1. CASE k = i
          <6>1. work'[k].batch = q BY <2>6, <5>1
          <6> QED BY <1>1, <5>1, <6>1
        <5>2. CASE k # i BY <2>6, <5>2
        <5> QED BY <5>1, <5>2
      <4> QED BY <4>1, <4>2 DEF Handled, Range
    <3>3. e \in Handled
      <4>1. e \in Range(work[i].batch) BY <1>1
      <4> QED BY <4>1 DEF Handled, Range
    <3> QED BY <3>1, <3>2, <3>3
  <2>9. \A k \in DOMAIN work' : /\ work'[k].s = work[k].s
                                /\ work'[k].batch = IF k = i THEN q ELSE work[k].batch
    BY <2>6
  <2>10. [k \in DOMAIN work' |-> k] \in [DOMAIN work' -> DOMAIN work] BY <2>6
  <2> QED BY <1>1, <2>7, <2>8, <2>9, <2>10 DEF e, q
<1>3. CASE ~(Len(work[i].batch) > 1)
  <2>1. work' = RemoveAt(work, i) BY <1>3 DEF Apply
  <2>2. Len(q) = 0
    <3>1. ~(l > 1) BY <1>3, <1>a
    <3>2. l = 1 BY <1>b, <3>1
    <3> QED BY <1>b, <3>2
  <2>3. Range(q) = {}
    <3>1. q = <<>> BY <1>1, <2>2
    <3> QED BY <3>1 DEF Range
  <2>4. /\ work' \in Seq(Handler) /\ Len(work') = Len(work) - 1
        /\ \A k \in 1..(Len(work) - 1) : work'[k] = work[Was(i, k)]
        /\ Range(work) = {work[i]} \cup Range(work')
    <3> DEFINE r == RemoveAt(work, i)
    <3>1. /\ r \in Seq(Handler) /\ Len(r) = Len(work) - 1
          /\ \A k \in 1..(Len(work) - 1) : r[k] = work[Was(i, k)]
          /\ Range(work) = {work[i]} \cup Range(r)
      <4>1. work \in Seq(Handler) BY <1>0
      <4> QED BY <4>1, RemoveMoves
    <3>2. work' = r BY <2>1
    <3> HIDE DEF r
    <3> QED BY <3>1, <3>2
  <2>5. Handled = Range(work[i].batch) \cup Handled' BY <2>4 DEF Handled
  <2>6. DOMAIN work' = 1..(Len(work) - 1) BY <2>4
  <2> DEFINE old == [k \in DOMAIN work' |-> Was(i, k)]
  <2>7. old \in [DOMAIN work' -> DOMAIN work] BY <1>0, <2>6 DEF Was
  <2>8. \A j, k \in DOMAIN work' : j # k => old[j] # old[k] BY <1>0, <2>6 DEF Was
  <2>9. \A k \in DOMAIN work' : old[k] # i /\ work'[k] = work[old[k]]
    <3>1. \A k \in DOMAIN work' : Was(i, k) # i BY <1>0, <2>6 DEF Was
    <3> QED BY <2>4, <2>6, <3>1
  <2> HIDE DEF old
  <2>10. \A k \in DOMAIN work' : /\ work'[k].s = work[old[k]].s
                                 /\ work'[k].batch = IF old[k] = i THEN q ELSE work[old[k]].batch
    BY <2>9
  <2> QED BY <1>1, <2>3, <2>4, <2>5, <2>7, <2>8, <2>10 DEF e, q
<1> QED BY <1>2, <1>3

LEMMA ApplyKeeps ==
  ASSUME TelemetryInv, NEW i \in DOMAIN work, Apply(i)
  PROVE  TelemetryInv'
<1> USE TelemetryAssumption
<1> DEFINE e == Head(work[i].batch)
<1>0. /\ applied \in [Workload -> Nat] /\ rows \in Table /\ work \in Seq(Handler)
      /\ work[i].batch \in Batch /\ DOMAIN work = 1..Len(work) /\ Len(work) \in Nat
  <2>1. /\ applied \in [Workload -> Nat] /\ rows \in Table /\ work \in Seq(Handler)
    BY DEF TelemetryInv, TypedInv
  <2>2. work[i] \in Handler /\ DOMAIN work = 1..Len(work) /\ Len(work) \in Nat BY <2>1
  <2> QED BY <2>1, <2>2 DEF Handler
<1>1. /\ rows' = [rows EXCEPT ![e.w] = IF server = "collector" THEN e.level ELSE e.conf]
      /\ applied' = [applied EXCEPT ![e.w] = e.id]
      /\ overtaken' = (overtaken \/ e.id < applied[e.w])
      /\ UNCHANGED <<server, sensor, backlog, link, desk, known, snapshot, lost>>
  BY DEF Apply, Upsert
<1>2. e \in Event /\ work' \in Seq(Handler) /\ Handled = {e} \cup Handled'
  BY WorkMoves DEF TelemetryInv
<1>3. PICK old \in [DOMAIN work' -> DOMAIN work] :
        /\ \A j, k \in DOMAIN work' : j # k => old[j] # old[k]
        /\ \A k \in DOMAIN work' :
             /\ work'[k].s = work[old[k]].s
             /\ work'[k].batch = IF old[k] = i THEN Tail(work[i].batch)
                                               ELSE work[old[k]].batch
  BY WorkMoves DEF TelemetryInv
<1>4. /\ Sorted(work[i].batch) => Sorted(Tail(work[i].batch))
                                  /\ Later({e}, Range(Tail(work[i].batch)))
      /\ Range(work[i].batch) = {e} \cup Range(Tail(work[i].batch))
  BY <1>0, SortedTail, TailMoves DEF Batch
<1> HIDE DEF e
<1>5. /\ e.w \in Workload /\ e.id \in Nat /\ e.level \in Level /\ e.conf \in Level
      /\ e.level # 0 => e.conf = e.level
  BY <1>2 DEF Event
<1>6. \A w \in Workload : /\ applied'[w] = IF w = e.w THEN e.id ELSE applied[w]
                          /\ w # e.w => rows'[w] = rows[w]
                          /\ w = e.w /\ (e.level # 0 \/ server = "collector")
                             => rows'[w] = e.level
  BY <1>0, <1>1, <1>5 DEF Table
<1>7. \A s \in Sessions : Sent(s)' = Sent(s) BY <1>1 DEF Sent, link
<1>8. Away = {e} \cup Away' BY <1>2, <1>7 DEF Away
<1>9. Reports = {e} \cup Reports' BY <1>1, <1>8 DEF Reports, AtHome, sensor
<1>10. QueueInv' BY <1>1, <1>6, <1>8, QueueStays DEF sensor
<1>11. ASSUME NEW S, Youngest(S), Later({e}, S)
       PROVE  /\ \A w \in Workload, f \in S : applied'[w] < f.id
              /\ \A s \in Sessions \ {conn} : Later(Sent(s)', S)
  BY <1>6, <1>7, <1>11 DEF Youngest, Later
<1>12. WireInv'
  <2> SUFFICES ASSUME conn # 0 PROVE WireInv' BY <1>1 DEF WireInv, link
  <2>1. WireInv /\ Youngest(Sent(conn)) /\ Later(Handled, Sent(conn))
    BY DEF TelemetryInv, WireInv
  <2>2. Later({e}, Sent(conn)) /\ Later(Handled', Sent(conn)) BY <1>2, <2>1 DEF Later
  <2>3. /\ \A w \in Workload, f \in Sent(conn) : applied'[w] < f.id
        /\ \A s \in Sessions \ {conn} : Later(Sent(s)', Sent(conn))
    BY <1>11, <2>1, <2>2
  <2>4. Sent(conn)' = Sent(conn) /\ conn' = conn BY <1>1 DEF Sent, link
  <2>5. Youngest(Sent(conn))' /\ Later(Handled, Sent(conn))'
    BY <2>2, <2>3, <2>4 DEF Youngest, Later
  <2> QED BY <1>1, <2>1, <2>5 DEF WireInv, link
<1>13. DeskInv'
  <2> SUFFICES ASSUME server = "collector", conn # 0, NEW k \in DOMAIN work', work'[k].s = conn
               PROVE  /\ Sorted(work'[k].batch) /\ Youngest(Range(work[k].batch))'
                      /\ \A j \in DOMAIN work' \ {k} :
                           work'[j].s # conn /\ Later(Range(work'[j].batch), Range(work'[k].batch))
    BY <1>1 DEF DeskInv, link
  <2>1. /\ Sorted(work[old[k]].batch) /\ Youngest(Range(work[old[k]].batch))
        /\ \A j \in DOMAIN work \ {old[k]} :
             /\ work[j].s # conn
             /\ Later(Range(work[j].batch), Range(work[old[k]].batch))
    BY <1>3 DEF TelemetryInv, DeskInv
  <2>2. \A j \in DOMAIN work' : Range(work'[j].batch) \subseteq Range(work[old[j]].batch)
    BY <1>3, <1>4
  <2>3. Sorted(work'[k].batch) /\ Later({e}, Range(work'[k].batch))
    <3>1. CASE old[k] = i BY <1>3, <1>4, <2>1, <3>1
    <3>2. CASE old[k] # i
      <4>1. e \in Range(work[i].batch) BY <1>4
      <4> QED BY <1>3, <2>1, <3>2, <4>1 DEF Later
    <3> QED BY <3>1, <3>2
  <2>4. Youngest(Range(work'[k].batch)) BY <2>1, <2>2 DEF Youngest, Later
  <2>5. /\ \A w \in Workload, f \in Range(work'[k].batch) : applied'[w] < f.id
        /\ \A s \in Sessions \ {conn} : Later(Sent(s)', Range(work'[k].batch))
    BY <1>11, <2>3, <2>4
  <2>6. Youngest(Range(work[k].batch))' BY <1>1, <2>5 DEF Youngest, link
  <2>7. ASSUME NEW j \in DOMAIN work' \ {k}
        PROVE  work'[j].s # conn /\ Later(Range(work'[j].batch), Range(work'[k].batch))
    <3>1. old[j] \in DOMAIN work \ {old[k]} BY <1>3
    <3> QED BY <1>3, <2>1, <2>2, <3>1 DEF Later
  <2> QED BY <2>3, <2>6, <2>7
<1>14. ASSUME ~lost', ~overtaken', NEW w \in Workload
       PROVE  \E n \in 0..emitted' : Latest(w, n)'
  <2>1. ~overtaken /\ ~(e.id < applied[e.w]) BY <1>1, <1>14, Zenon
  <2>2. PICK n \in 0..emitted : Latest(w, n) BY <1>1, <1>14, <2>1 DEF TelemetryInv, LatestInv
  <2>3. UNCHANGED <<server, reported, emitted>> BY <1>1 DEF sensor
  <2>4. CASE w # e.w BY <1>6, <1>9, <2>2, <2>3, <2>4 DEF Latest
  <2>5. CASE w = e.w
    <3>1. /\ e.id <= n /\ (e.id = n => e.level = reported[w])
          /\ \A f \in Reports' : f.w = w => f.id <= n /\ (f.id = n => f.level = reported[w])
      BY <1>9, <2>2, <2>5 DEF Latest
    <3>2. CASE e.id = n BY <1>6, <2>3, <2>5, <3>1, <3>2 DEF Latest
    <3>3. CASE e.id # n
      <4>a. n \in Int /\ applied[w] \in Nat /\ e.id < n
        <5>1. emitted \in Nat BY DEF TelemetryInv, TypedInv
        <5> QED BY <1>0, <1>5, <3>1, <3>3, <5>1
      <4>1. n # applied[w] BY <2>1, <2>5, <4>a
      <4>2. PICK f \in Reports : f.w = w /\ f.id = n BY <2>2, <4>1 DEF Latest
      <4>3. f \in Reports' BY <1>9, <3>3, <4>2
      <4> QED BY <1>6, <2>3, <2>5, <3>1, <4>2, <4>3 DEF Latest
    <3> QED BY <3>2, <3>3
  <2> QED BY <2>3, <2>4, <2>5
<1>15. LatestInv' BY <1>14 DEF LatestInv
<1>16. TypedInv'
  <2>1. rows' \in Table /\ applied' \in [Workload -> Nat] BY <1>0, <1>1, <1>5 DEF Table
  <2> QED BY <1>1, <1>2, <2>1 DEF TelemetryInv, TypedInv, sensor, link, desk
<1>17. SessionInv'
  <2>1. server = "collector" => \A h \in Range(work') : session[h.s] = "serving"
    <3>1. \A k \in DOMAIN work' : \E h \in Range(work) : work'[k].s = h.s BY <1>3 DEF Range
    <3> QED BY <3>1 DEF TelemetryInv, SessionInv, Range
  <2> QED BY <1>1, <2>1 DEF TelemetryInv, SessionInv, PendingIsOpen, link, desk
<1> QED BY <1>10, <1>12, <1>13, <1>15, <1>16, <1>17 DEF TelemetryInv

LEMMA SensorRestartsKeeps ==
  ASSUME TelemetryInv, SensorRestarts
  PROVE  TelemetryInv'
<1>1. /\ entries' = Nothing /\ reported' = Nothing /\ todo' = <<>> /\ backlog' = <<>>
      /\ lost' = TRUE /\ conn' = 0
      /\ UNCHANGED <<server, host, emitted, session, wire, desk, view>>
  BY DEF SensorRestarts
<1>2. AtHome' = {} /\ Sorted(todo') /\ Sorted(backlog') /\ Later(Range(backlog'), Range(todo'))
  BY <1>1 DEF AtHome, Range, Sorted, Later
<1>3. QueueInv' BY <1>1, <1>2, HomeShrinks DEF view
<1>4. WireInv' /\ DeskInv' BY <1>1, LinkGone
<1>5. LatestInv' BY <1>1 DEF LatestInv
<1>6. SessionInv' BY <1>1 DEF TelemetryInv, SessionInv, PendingIsOpen, desk, view
<1>7. TypedInv'
  <2>1. /\ {entries, reported}' \subseteq Table
        /\ \A w \in Workload : reported'[w] = 0 <=> entries'[w] = 0
    BY <1>1, TelemetryAssumption DEF Nothing, Table, Level
  <2>2. todo' \in Seq(Event) /\ backlog' \in Seq(Event) /\ Len(backlog') <= MaxQueueSize
    BY <1>1, TelemetryAssumption
  <2>3. {host, rows, snapshot.rows}' \subseteq Table
    BY <1>1 DEF TelemetryInv, TypedInv, view
  <2> QED BY <1>1, <2>1, <2>2, <2>3 DEF TelemetryInv, TypedInv, desk, view
<1> QED BY <1>3, <1>4, <1>5, <1>6, <1>7 DEF TelemetryInv

\* A server that restarts without losing anything had nothing under way.
LEMMA ServerRestartsKeeps ==
  ASSUME TelemetryInv, ServerRestarts
  PROVE  TelemetryInv'
<1> USE TelemetryAssumption
<1>1. /\ lost' = (lost \/ rows' # rows \/ work # <<>> \/ \E s \in Sessions : wire[s] # <<>>)
      /\ conn' = 0 /\ work' = <<>> /\ held' = 0 /\ rows' \in {rows, snapshot.rows}
      /\ session' = [s \in Sessions |-> "free"] /\ wire' = [s \in Sessions |-> <<>>]
      /\ UNCHANGED <<server, sensor, backlog, snapshot, applied, overtaken>>
  BY DEF ServerRestarts
<1>2. Away' = {}
  <2>1. Handled' = {} BY <1>1 DEF Handled, Range
  <2>2. ASSUME NEW s \in Sessions PROVE Sent(s)' = {} BY <1>1 DEF Sent, Range
  <2> QED BY <2>1, <2>2 DEF Away
<1>3. QueueInv' BY <1>1, <1>2, QueueStays DEF sensor
<1>4. WireInv' /\ DeskInv' BY <1>1, LinkGone
<1>5. LatestInv'
  <2>1. ASSUME ~lost' PROVE ~lost /\ rows' = rows /\ Reports' = Reports
    <3>1. ~lost /\ rows' = rows /\ work = <<>> /\ \A s \in Sessions : wire[s] = <<>>
      BY <1>1, <2>1
    <3>2. Handled = {} BY <3>1 DEF Handled, Range
    <3>3. ASSUME NEW s \in Sessions PROVE Sent(s) = {} BY <3>1 DEF Sent, Range
    <3>4. Away = {} BY <3>2, <3>3 DEF Away
    <3> QED BY <1>1, <1>2, <3>1, <3>4 DEF Reports, AtHome, sensor
  <2> QED BY <1>1, <2>1, LatestStays DEF sensor
<1>6. SessionInv' BY <1>1 DEF SessionInv, PendingIsOpen, Range
<1>7. TypedInv'
  <2>1. <<>> \in Seq(Batch) /\ <<>> \in Seq(Handler) OBVIOUS
  <2>2. wire' \in [Sessions -> Seq(Batch)] /\ work' \in Seq(Handler) BY <1>1, <2>1
  <2>3. session' \in [Sessions -> Stage] BY <1>1 DEF Stage
  <2>4. /\ {host, entries, reported, rows, snapshot.rows}' \subseteq Table
        /\ \A w \in Workload : reported'[w] = 0 <=> entries'[w] = 0
    BY <1>1 DEF TelemetryInv, TypedInv, sensor
  <2> QED BY <1>1, <2>2, <2>3, <2>4 DEF TelemetryInv, TypedInv, sensor
<1> QED BY <1>3, <1>4, <1>5, <1>6, <1>7 DEF TelemetryInv

LEMMA TelemetryInitHolds == TelemetryInit => TelemetryInv
<1> SUFFICES ASSUME TelemetryInit PROVE TelemetryInv OBVIOUS
<1> USE TelemetryAssumption
<1>1. server \in {"collector", "control plane"} /\ host \in AtStart BY DEF TelemetryInit
<1>2. todo = <<>> /\ backlog = <<>> /\ work = <<>> BY DEF TelemetryInit
<1>3. wire = [s \in Sessions |-> <<>>] /\ session = [s \in Sessions |-> "free"]
  BY DEF TelemetryInit
<1>4. emitted = 0 /\ conn = 0 /\ held = 0 BY DEF TelemetryInit
<1>5. /\ entries = Nothing /\ reported = Nothing /\ rows = Nothing
      /\ snapshot.rows = Nothing /\ applied = Nothing
  BY DEF TelemetryInit
<1>6. /\ Nothing \in Table /\ Nothing \in [Workload -> Nat] /\ \A w \in Workload : Nothing[w] = 0
  BY DEF Nothing, Table, Level
<1>7. AtHome = {} BY <1>2 DEF AtHome, Range
<1>8. Away = {}
  <2>1. Handled = {} BY <1>2 DEF Handled, Range
  <2>2. ASSUME NEW s \in Sessions PROVE Sent(s) = {} BY <1>3 DEF Sent, Range
  <2> QED BY <2>1, <2>2 DEF Away
<1>9. TypedInv
  <2>1. host \in Table BY <1>1 DEF Table, Level
  <2>2. <<>> \in Seq(Event) /\ <<>> \in Seq(Batch) /\ <<>> \in Seq(Handler) /\ Len(<<>>) = 0
    OBVIOUS
  <2>3. wire \in [Sessions -> Seq(Batch)] BY <1>3, <2>2
  <2>4. session \in [Sessions -> Stage] BY <1>3 DEF Stage
  <2>5. /\ {host, entries, reported, rows, snapshot.rows} \subseteq Table
        /\ applied \in [Workload -> Nat]
        /\ \A w \in Workload : reported[w] = 0 <=> entries[w] = 0
    BY <1>5, <1>6, <2>1
  <2>6. /\ todo \in Seq(Event) /\ backlog \in Seq(Event) /\ work \in Seq(Handler)
        /\ Len(backlog) <= MaxQueueSize
    BY <1>2, <2>2
  <2> QED BY <1>1, <1>4, <2>3, <2>4, <2>5, <2>6 DEF TypedInv
<1>10. SessionInv
  <2>1. Range(work) = {} /\ \A s \in Sessions : wire[s] = <<>> BY <1>2, <1>3 DEF Range
  <2> QED BY <1>4, <2>1 DEF SessionInv, PendingIsOpen
<1>11. QueueInv
  <2>1. Sorted(todo) /\ Sorted(backlog) BY <1>2 DEF Sorted
  <2>2. Range(backlog) = {} BY <1>7 DEF AtHome
  <2>3. \A w \in Workload : applied[w] = 0 BY <1>5, <1>6
  <2> QED BY <1>4, <1>7, <1>8, <2>1, <2>2, <2>3 DEF QueueInv, Later, Reports
<1>12. WireInv /\ DeskInv BY <1>4 DEF WireInv, DeskInv
<1>13. LatestInv
  <2>1. Reports = {} BY <1>7, <1>8 DEF Reports
  <2>2. \A w \in Workload : applied[w] = 0 /\ rows[w] = reported[w] BY <1>5, <1>6
  <2>3. \A w \in Workload : Latest(w, 0) BY <2>1, <2>2 DEF Latest
  <2>4. 0 \in 0..emitted BY <1>4
  <2> QED BY <2>3, <2>4 DEF LatestInv
<1> QED BY <1>9, <1>10, <1>11, <1>12, <1>13 DEF TelemetryInv

LEMMA TelemetryStepKeeps == TelemetryInv /\ [TelemetryNext]_telemetryVars => TelemetryInv'
<1> SUFFICES ASSUME TelemetryInv, [TelemetryNext]_telemetryVars PROVE TelemetryInv' OBVIOUS
<1>1. CASE Operator BY <1>1, OperatorKeeps
<1>2. CASE Client
  BY <1>2, HostKeeps, PollKeeps, EnqueueKeeps, DialKeeps, FlushKeeps, FlushFailsKeeps, BreakKeeps,
     ApprovalKeeps DEF Client
<1>3. CASE Server
  BY <1>3, HostKeeps, ApprovalKeeps, HangupKeeps, ReceiveKeeps, ApplyKeeps DEF Server
<1>4. CASE ServerRestarts BY <1>4, ServerRestartsKeeps
<1>5. CASE SensorRestarts BY <1>5, SensorRestartsKeeps
<1>6. CASE UNCHANGED telemetryVars
  <2>1. UNCHANGED <<server, host, entries, reported, todo, emitted, backlog, link, held, view,
                    lost>>
    BY <1>6 DEF telemetryVars, sensor, desk
  <2>2. Rest' BY <2>1, NoReportMoves DEF link, view
  <2>3. TypedInv' /\ SessionInv'
    BY <2>1 DEF TelemetryInv, TypedInv, SessionInv, PendingIsOpen, link, view
  <2> QED BY <2>2, <2>3 DEF TelemetryInv, Rest
<1> QED BY <1>1, <1>2, <1>3, <1>4, <1>5, <1>6 DEF TelemetryNext

-----------------------------------------------------------------------------
(* The theorems about the telemetry.                                       *)

\* The inductive invariant: reports in the client are younger than those that
\* left it, those on its own connection the youngest of these, and the latest
\* of each workload is on its way or shown.
THEOREM TelemetryInvariant == TelemetrySpec => []TelemetryInv
<1> QED BY TelemetryInitHolds, TelemetryStepKeeps, PTL DEF TelemetrySpec

\* The queue of the client keeps its bound, and its reports the numbers of events
\* that were emitted; batches travel on served connections only (client.go,
\* server.go).
THEOREM TelemetryTypeCorrect == TelemetrySpec => []TelemetryTypeOK
<1>1. ASSUME TelemetryInv PROVE TelemetryTypeOK
  <2>1. TypedInv /\ SessionInv /\ QueueInv BY <1>1 DEF TelemetryInv
  <2>2. ASSUME NEW i \in DOMAIN backlog
        PROVE  backlog[i].id \in 1..emitted /\ backlog[i].level \in Level
    <3>1. backlog[i] \in AtHome BY DEF AtHome, Range
    <3>2. backlog[i] \in Event /\ backlog[i] \in Reports BY <2>1, <3>1, ReportsTyped
    <3>3. backlog[i].w \in Workload /\ backlog[i].id \in Nat /\ backlog[i].level \in Level
      BY <3>2 DEF Event
    <3>4. applied[backlog[i].w] \in Nat /\ emitted \in Nat BY <2>1, <3>3 DEF TypedInv
    <3>5. applied[backlog[i].w] < backlog[i].id /\ backlog[i].id <= emitted
      BY <2>1, <3>1, <3>2, <3>3 DEF QueueInv
    <3> QED BY <3>3, <3>4, <3>5
  <2>3. \A i \in DOMAIN work : work[i].batch # <<>>
    <3>1. \A i \in DOMAIN work : work[i] \in Range(work) BY DEF Range
    <3> QED BY <2>1, <3>1, ReportsTyped DEF Batch
  <2> QED BY <2>1, <2>2, <2>3 DEF TypedInv, SessionInv, TelemetryTypeOK, Table
<1> QED BY <1>1, TelemetryInvariant, PTL

\* When nothing was thrown away or overtaken and nothing is under way, the server shows
\* what the sensor last saw as it was last reported, and the collector shows nothing else
\* (state.go: deltas, "never a full snapshot"; UpsertWorkload, SensorWorkloadDAO.upsert).
THEOREM ServerShowsTheHost == TelemetrySpec => []ViewIsCurrent
<1>1. ASSUME TelemetryInv PROVE ViewIsCurrent
  <2> SUFFICES ASSUME ~lost, ~overtaken, Quiet, NEW w \in Workload
               PROVE  /\ entries[w] # 0 => rows[w] # 0 /\ rows[w] = reported[w]
                      /\ entries[w] = 0 /\ server = "collector" => rows[w] = 0
    BY DEF ViewIsCurrent
  <2>1. AtHome = {} BY DEF Quiet, AtHome, Range
  <2>2. Handled = {} BY DEF Quiet, Handled, Range
  <2>3. \A s \in Sessions : Sent(s) = {} BY DEF Quiet, Sent, Range
  <2>4. Reports = {} BY <2>1, <2>2, <2>3 DEF Reports, Away
  <2>5. reported[w] # 0 \/ server = "collector" => rows[w] = reported[w]
    BY <1>1, <2>4 DEF TelemetryInv, LatestInv, Latest
  <2>6. reported[w] = 0 <=> entries[w] = 0 BY <1>1 DEF TelemetryInv, TypedInv
  <2> QED BY <2>5, <2>6
<1> QED BY <1>1, TelemetryInvariant, PTL

\* No report in the queue or on the client's own connection is older than what is
\* shown of its workload; nor, at a collector, one it is applying (flushOnce,
\* handleTelemetry).
THEOREM ReportsAreInOrder == TelemetrySpec => []ReportsKeepOrder
<1>1. ASSUME TelemetryInv PROVE ReportsKeepOrder
  <2>1. /\ TypedInv /\ \A e \in Reports : e \in Event
        /\ applied \in [Workload -> Nat]
    BY <1>1, ReportsTyped DEF TelemetryInv, TypedInv
  <2>2. ASSUME NEW e \in Reports, \A w \in Workload : applied[w] < e.id PROVE ~Older(e)
    <3>1. e.w \in Workload /\ e.id \in Nat /\ applied[e.w] \in Nat BY <2>1 DEF Event
    <3> QED BY <2>2, <3>1 DEF Older
  <2>3. ASSUME NEW i \in DOMAIN backlog PROVE ~Older(backlog[i])
    <3>1. backlog[i] \in AtHome BY DEF AtHome, Range
    <3>2. \A w \in Workload : applied[w] < backlog[i].id
      BY <1>1, <3>1 DEF TelemetryInv, QueueInv
    <3> QED BY <2>2, <3>1, <3>2 DEF Reports
  <2>4. ASSUME conn # 0, NEW i \in DOMAIN wire[conn], NEW j \in DOMAIN wire[conn][i]
        PROVE  ~Older(wire[conn][i][j])
    <3>1. wire[conn][i][j] \in Sent(conn) BY DEF Sent, Range
    <3>2. \A w \in Workload : applied[w] < wire[conn][i][j].id
      BY <1>1, <2>4, <3>1 DEF TelemetryInv, WireInv, Youngest
    <3>3. conn \in Sessions BY <2>1, <2>4 DEF TypedInv
    <3> QED BY <2>2, <3>1, <3>2, <3>3 DEF Reports, Away
  <2>5. ASSUME server = "collector", NEW i \in DOMAIN work, work[i].s = conn,
               NEW j \in DOMAIN work[i].batch
        PROVE  ~Older(work[i].batch[j])
    <3>1. work[i].batch[j] \in Range(work[i].batch) /\ work[i] \in Range(work) BY DEF Range
    <3>2. conn \in Sessions BY <2>1, <2>5, <3>1, ReportsTyped
    <3>3. \A w \in Workload : applied[w] < work[i].batch[j].id
      BY <1>1, <2>5, <3>1, <3>2, TelemetryAssumption DEF TelemetryInv, DeskInv, Youngest
    <3> QED BY <2>2, <3>1, <3>3 DEF Reports, Away, Handled
  <2> QED BY <2>3, <2>4, <2>5 DEF ReportsKeepOrder
<1> QED BY <1>1, TelemetryInvariant, PTL

\* An entry of the list of held connections is a connection whose awaitApproval has not
\* returned, whatever other connections of the device did (awaitApproval, decide).
THEOREM EveryEntryIsOpen == TelemetrySpec => []PendingIsOpen
<1>1. TelemetryInv => PendingIsOpen BY DEF TelemetryInv, SessionInv
<1> QED BY <1>1, TelemetryInvariant, PTL
=============================================================================
